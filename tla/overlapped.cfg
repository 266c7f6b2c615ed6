\* A read and an accept, each polled in two tasks.
CONSTANTS
  Ops = {read, accept}
  Cancels = {read}
  Tasks = {t1, t2}
  NoTask = NoTask
SPECIFICATION FairSpec
INVARIANTS TypeOK RefsAreHolders BufferHeld NoLostCompletion
PROPERTY CompletionWakes
\* Every future may have resolved or been dropped.
CHECK_DEADLOCK FALSE
