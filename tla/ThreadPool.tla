----------------------------- MODULE ThreadPool -----------------------------
(***************************************************************************)
(* The thread pool of src/evloop/threadpool/mod.rs: how a root future is   *)
(* spawned, queued, polled, suspended, notified and polled again by the    *)
(* workers of one pool.                                                    *)
(*                                                                         *)
(* A task is a _GlobalTask or a _LocalTask: a future in an UnsafeCell and  *)
(* its signal_level.  A worker is the thread started by run_worker; pc[w]  *)
(* is where it stands in its loop, task[w] the task do_poll has in hand.   *)
(* The EventQueue is what EventQueue::turn promises: each posted datum     *)
(* reaches the handler of one turning worker (CustomEvent shows that the   *)
(* epoll queue keeps that promise), and I/O events notify tasks.           *)
(*                                                                         *)
(* User code is a choice of the model: a poll may notify tasks, spawn, and *)
(* ends as it likes.  A panic on a worker ends the process: every worker   *)
(* is then "aborted".  Arc counts are left out: a task lives while         *)
(* anything here names it.                                                 *)
(***************************************************************************)
EXTENDS Naturals, Sequences, Functions

CONSTANTS
  Workers,          \* the threads started by with_concurrency
  GlobalTasks,      \* the root futures given to Handle::spawn_future
  LocalTasks,       \* the ones given to LocalHandle::spawn_local_future
  ForeignNotifies,  \* do threads outside the pool call notify?
  MaxSignals,       \* bound: signal levels are told apart up to this one
  NoTask            \* do_poll is not running

Tasks == GlobalTasks \cup LocalTasks

ASSUME ThreadPoolAssumption ==
  /\ GlobalTasks \cap LocalTasks = {}
  /\ NoTask \notin Tasks
  /\ MaxSignals \in Nat /\ MaxSignals >= 2
  /\ ForeignNotifies \in BOOLEAN

VARIABLES
  active,             \* _ThreadPool.active
  posted,             \* data posted to submit_remote_work_event, not handled yet
  work_queue,         \* WorkerSelf.work_queue of each worker, oldest first
  local_work_queue,   \* WorkerSelf.local_work_queue, front first
  signal_level,       \* the AtomicUsize of each task
  future,             \* how far the task's future has got
  unseen,             \* notified since its latest poll began (history)
  pc,
  task,
  init_signal_level   \* do_poll's local variable; 0 outside do_poll

queues == <<posted, work_queue, local_work_queue>>
tasks  == <<signal_level, future, unseen>>
polls  == <<task, init_signal_level>>
vars   == <<active, queues, tasks, pc, polls>>

(* "spawned": never polled; "started": polled, so notify handles exist;    *)
(* "dropped": thrown away with the queue of a worker that exited.          *)
FutureStates == {"unspawned", "spawned", "started", "done", "dropped"}

PollLabels == {"load", "poll", "cas"}
Labels == PollLabels \cup {"active", "local", "steal", "turn", "turn0",
                           "dispatch", "exited", "aborted"}

Init ==
  /\ active = TRUE
  /\ posted = <<>>
  /\ work_queue = [w \in Workers |-> <<>>]
  /\ local_work_queue = [w \in Workers |-> <<>>]
  /\ signal_level = [t \in Tasks |-> 0]
  /\ future = [t \in Tasks |-> "unspawned"]
  /\ unseen = [t \in Tasks |-> FALSE]
  /\ pc = [w \in Workers |-> "active"]
  /\ task = [w \in Workers |-> NoTask]
  /\ init_signal_level = [w \in Workers |-> 0]

-----------------------------------------------------------------------------
(* Operators the actions share.                                            *)

Goto(w, label) == pc' = [pc EXCEPT ![w] = label]

(* The catch_unwind arm of a worker: process::exit(101).                   *)
ProcessExit ==
  /\ pc' = [w \in Workers |-> "aborted"]
  /\ UNCHANGED <<active, queues, tasks, polls>>

Up == \A w \in Workers : pc[w] # "aborted"

(* signal_level starts at 1: a new task counts as already notified.        *)
CreateTask(t) ==
  /\ future[t] = "unspawned"
  /\ future' = [future EXCEPT ![t] = "spawned"]
  /\ signal_level' = [signal_level EXCEPT ![t] = 1]
  /\ UNCHANGED unseen

(* A poll hands the task's Notify out, and it may outlive the future.  (On *)
(* a dropped task notify only counts up; that is left out.)                *)
Notifiable(t) == future[t] \in {"started", "done"}

(* fetch_add(1).  The code only asks of a level whether it is 0 and, in    *)
(* do_poll, whether it is the one it loaded; so levels are counted round   *)
(* above 0, but not on to a loaded one, which a level that grows never is  *)
(* again.  (The 2^64 notifications that overflow a usize are left out.)    *)
Raised(t) ==
  LET next == IF signal_level[t] < MaxSignals THEN signal_level[t] + 1 ELSE 1
  IN  IF \E w \in Workers : task[w] = t /\ init_signal_level[w] = next
      THEN signal_level[t] ELSE next

FetchAdd(t) ==
  /\ signal_level' = [signal_level EXCEPT ![t] = Raised(t)]
  /\ unseen' = [unseen EXCEPT ![t] = TRUE]
  /\ UNCHANGED future

AlwaysPush(t) == TRUE
PushUpToOne(t) == signal_level[t] <= 1
PushAtOne(t) == signal_level[t] = 1

(* Only the notification that finds the level at 0 queues the task.        *)
MustPush(t) == signal_level[t] = 0

(* User callbacks run in a poll and in the handlers of a turn's events.    *)
RunsCallbacks(w) == pc[w] \in {"poll", "dispatch"}

(* do_poll, entering an iteration of its loop: the level to compare with.  *)
EnterPoll(w) ==
  /\ init_signal_level' = [init_signal_level EXCEPT
                             ![w] = signal_level[task[w]]]
  /\ unseen' = [unseen EXCEPT ![task[w]] = FALSE]
  /\ Goto(w, "poll")
  /\ UNCHANGED <<active, queues, signal_level, task>>

LeavePollHolding(w) ==
  /\ Goto(w, IF task[w] \in LocalTasks THEN "local" ELSE "steal")
  /\ init_signal_level' = [init_signal_level EXCEPT ![w] = 0]
  /\ UNCHANGED <<active, queues, unseen, task>>

OnePollPerTurn(w) ==
  /\ Goto(w, "turn")
  /\ task' = [task EXCEPT ![w] = NoTask]
  /\ init_signal_level' = [init_signal_level EXCEPT ![w] = 0]
  /\ UNCHANGED <<active, queues, unseen>>

(* do_poll returns to the loop that called it.                             *)
LeavePoll(w) ==
  /\ Goto(w, IF task[w] \in LocalTasks THEN "local" ELSE "steal")
  /\ task' = [task EXCEPT ![w] = NoTask]
  /\ init_signal_level' = [init_signal_level EXCEPT ![w] = 0]
  /\ UNCHANGED <<active, queues, unseen>>

ResetAfterReady(t) == 0

(* The level after Ready: whatever it was, so above 0 for good.            *)
LevelAfterReady(t) == signal_level[t]

StoreSucceeds(w) == TRUE

(* compare_exchange(init_signal_level, 0)                                  *)
CompareSucceeds(w) == signal_level[task[w]] = init_signal_level[w]

InconsistentWaits(w) == "turn"

(* Empty: turn without a timeout.  Inconsistent (a weak compare-and-swap   *)
(* that failed although there is data): turn with a timeout of zero.       *)
TurnLabel(w) == IF work_queue[w] = <<>> THEN "turn" ELSE "turn0"

-----------------------------------------------------------------------------
(* The pool's owner and the threads holding a Handle.                      *)

(* Handle::spawn_future, on any thread: box the task, post its pointer.    *)
Spawn(t) ==
  /\ Up
  /\ CreateTask(t)
  /\ posted' = Append(posted, t)
  /\ UNCHANGED <<active, work_queue, local_work_queue, pc, polls>>

(* Drop of the ThreadPool: no worker is woken.                             *)
BeginShutdown ==
  /\ Up
  /\ active
  /\ active' = FALSE
  /\ UNCHANGED <<queues, tasks, pc, polls>>

(* notify on a thread that is no worker: where a push is due,              *)
(* unimplemented!() unwinds that thread and the task is queued nowhere.    *)
ForeignNotify(t) ==
  /\ Up
  /\ ForeignNotifies
  /\ Notifiable(t)
  /\ FetchAdd(t)
  /\ UNCHANGED <<active, queues, pc, polls>>

-----------------------------------------------------------------------------
(* The worker's loop in run_worker.                                        *)

CheckActive(w) ==
  /\ pc[w] = "active"
  /\ active
  /\ Goto(w, "local")
  /\ UNCHANGED <<active, queues, tasks, polls>>

(* The loop ends; the WorkerSelf is dropped with the tasks it still holds. *)
(* The worker also leaves pool.workers, which is the set of those not yet  *)
(* at "exited".                                                            *)
WorkerExit(w) ==
  /\ pc[w] = "active"
  /\ ~active
  /\ Goto(w, "exited")
  /\ work_queue' = [work_queue EXCEPT ![w] = <<>>]
  /\ local_work_queue' = [local_work_queue EXCEPT ![w] = <<>>]
  /\ future' = [t \in Tasks |->
                  IF t \in Range(work_queue[w]) \cup Range(local_work_queue[w])
                  THEN "dropped" ELSE future[t]]
  /\ UNCHANGED <<active, posted, signal_level, unseen, polls>>

(* A future dropped there may notify a suspended task (say, by dropping a  *)
(* channel); CURRENT_WORKER is already None, so that panics in the worker. *)
ExitDropNotifies(w) ==
  /\ pc[w] = "active"
  /\ ~active
  /\ work_queue[w] # <<>> \/ local_work_queue[w] # <<>>
  /\ \E t \in Tasks : Notifiable(t) /\ MustPush(t)
  /\ ProcessExit

(* local_work_queue.borrow_mut().pop_front()                               *)
PopLocal(w) ==
  /\ pc[w] = "local"
  /\ local_work_queue[w] # <<>>
  /\ task' = [task EXCEPT ![w] = Head(local_work_queue[w])]
  /\ local_work_queue' = [local_work_queue EXCEPT ![w] = Tail(@)]
  /\ Goto(w, "load")
  /\ UNCHANGED <<active, posted, work_queue, tasks, init_signal_level>>

LocalEmpty(w) ==
  /\ pc[w] = "local"
  /\ local_work_queue[w] = <<>>
  /\ Goto(w, "steal")
  /\ UNCHANGED <<active, queues, tasks, polls>>

(* steal_weak on the worker's own deque: the oldest task.                  *)
StealData(w) ==
  /\ pc[w] = "steal"
  /\ work_queue[w] # <<>>
  /\ task' = [task EXCEPT ![w] = Head(work_queue[w])]
  /\ work_queue' = [work_queue EXCEPT ![w] = Tail(@)]
  /\ Goto(w, "load")
  /\ UNCHANGED <<active, posted, local_work_queue, tasks, init_signal_level>>

(* steal_weak returned no task.                                            *)
StealNothing(w) ==
  /\ pc[w] = "steal"
  /\ Goto(w, TurnLabel(w))
  /\ UNCHANGED <<active, queues, tasks, polls>>

-----------------------------------------------------------------------------
(* GlobalTask::do_poll and LocalTask::do_poll, which are the same code.    *)

BeginPoll(w) ==
  /\ pc[w] = "load"
  /\ EnterPoll(w)
  /\ future' = [future EXCEPT ![task[w]] = "started"]

PollNotReady(w) ==
  /\ pc[w] = "poll"
  /\ Goto(w, "cas")
  /\ UNCHANGED <<active, queues, tasks, polls>>

PollReady(w) ==
  /\ pc[w] = "poll"
  /\ future' = [future EXCEPT ![task[w]] = "done"]
  /\ signal_level' = [signal_level EXCEPT ![task[w]] = LevelAfterReady(task[w])]
  /\ LeavePoll(w)

(* A root future that resolves with an error, or panics.                   *)
PollErr(w) ==
  /\ pc[w] = "poll"
  /\ ProcessExit

Suspend(w) ==
  /\ pc[w] = "cas"
  /\ CompareSucceeds(w)
  /\ signal_level' = [signal_level EXCEPT ![task[w]] = 0]
  /\ LeavePoll(w)
  /\ UNCHANGED future

(* Notified while being polled: take the new level and poll again.         *)
PollAgain(w) ==
  /\ pc[w] = "cas"
  /\ ~CompareSucceeds(w)
  /\ EnterPoll(w)
  /\ UNCHANGED future

-----------------------------------------------------------------------------
(* What user code does on a worker thread.                                 *)

(* Notify for _GlobalTask: the notifying worker takes the task.            *)
NotifyGlobal(w, t) ==
  /\ RunsCallbacks(w)
  /\ Notifiable(t)
  /\ FetchAdd(t)
  /\ work_queue' = IF MustPush(t)
                   THEN [work_queue EXCEPT ![w] = Append(@, t)]
                   ELSE work_queue
  /\ UNCHANGED <<active, posted, local_work_queue, pc, polls>>

(* Notify for _LocalTask: queueing it again is unimplemented!().           *)
NotifyLocal(w, t) ==
  /\ RunsCallbacks(w)
  /\ Notifiable(t)
  /\ IF MustPush(t)
     THEN ProcessExit
     ELSE FetchAdd(t) /\ UNCHANGED <<active, queues, pc, polls>>

(* spawn_local_future.  While a local task is polled the worker's loop     *)
(* still holds the RefMut its pop_front took, so borrow_mut panics.        *)
SpawnLocal(w, t) ==
  /\ RunsCallbacks(w)
  /\ IF task[w] \in LocalTasks
     THEN future[t] = "unspawned" /\ ProcessExit
     ELSE /\ CreateTask(t)
          /\ local_work_queue' = [local_work_queue EXCEPT ![w] = <<t>> \o @]
          /\ UNCHANGED <<active, posted, work_queue, pc, polls>>

-----------------------------------------------------------------------------
(* EventQueue::turn, called by a worker.                                   *)

(* A datum posted to submit_remote_work_event: handle_remote_spawn makes   *)
(* the pointer a task again and pushes it on the turning worker's queue.   *)
HandleRemoteSpawn(w) ==
  /\ pc[w] \in {"turn", "turn0", "dispatch"}
  /\ posted # <<>>
  /\ posted' = Tail(posted)
  /\ work_queue' = [work_queue EXCEPT ![w] = Append(@, Head(posted))]
  /\ Goto(w, "dispatch")
  /\ UNCHANGED <<active, local_work_queue, tasks, polls>>

(* Any other event: its handler may notify tasks, see NotifyGlobal.        *)
TurnEvent(w) ==
  /\ pc[w] \in {"turn", "turn0"}
  /\ Goto(w, "dispatch")
  /\ UNCHANGED <<active, queues, tasks, polls>>

(* Mutation: back to the inner loop instead of the outer one.              *)
ReturnToSteal(w) ==
  /\ pc[w] \in {"turn0", "dispatch"}
  /\ Goto(w, "steal")
  /\ UNCHANGED <<active, queues, tasks, polls>>

(* turn returns: its events are handled, or its timeout of zero passed.    *)
TurnReturn(w) ==
  /\ pc[w] \in {"turn0", "dispatch"}
  /\ Goto(w, "active")
  /\ UNCHANGED <<active, queues, tasks, polls>>

-----------------------------------------------------------------------------
RunLoop(w) ==
  \/ CheckActive(w) \/ WorkerExit(w) \/ ExitDropNotifies(w)
  \/ PopLocal(w) \/ LocalEmpty(w) \/ StealData(w) \/ StealNothing(w)

DoPoll(w) ==
  \/ BeginPoll(w) \/ PollNotReady(w) \/ PollReady(w) \/ PollErr(w)
  \/ Suspend(w) \/ PollAgain(w)

Turn(w) == HandleRemoteSpawn(w) \/ TurnEvent(w) \/ TurnReturn(w)

Callback(w) ==
  \/ \E t \in GlobalTasks : NotifyGlobal(w, t)
  \/ \E t \in LocalTasks : NotifyLocal(w, t) \/ SpawnLocal(w, t)

Next ==
  \/ \E w \in Workers : RunLoop(w) \/ DoPoll(w) \/ Turn(w) \/ Callback(w)
  \/ \E t \in GlobalTasks : Spawn(t)
  \/ \E t \in Tasks : ForeignNotify(t)
  \/ BeginShutdown

Spec == Init /\ [][Next]_vars

(* The steps of a worker that is given processor time.  A poll returns,    *)
(* and a turn that has events handles them and returns; nothing promises   *)
(* that a turn without a timeout ever gets an event.                       *)
Progress(w) ==
  \/ CheckActive(w) \/ WorkerExit(w)
  \/ PopLocal(w) \/ LocalEmpty(w) \/ StealData(w) \/ StealNothing(w)
  \/ BeginPoll(w) \/ PollNotReady(w) \/ PollReady(w)
  \/ Suspend(w) \/ PollAgain(w) \/ TurnReturn(w)

(* A weak compare-and-swap does not fail for ever, and the kernel's ready  *)
(* list does not pass the custom event over for ever.                      *)
Fairness ==
  /\ \A w \in Workers : WF_vars(Progress(w)) /\ SF_vars(StealData(w))
  /\ SF_vars(\E w \in Workers : HandleRemoteSpawn(w))

FairSpec == Spec /\ Fairness
-----------------------------------------------------------------------------
(* The places a task can be at, and the tasks at each.                     *)
Places == (Workers \X {"work", "local", "hand"}) \cup {<<NoTask, "posted">>}

At(p) ==
  CASE p[2] = "posted" -> Range(posted)
    [] p[2] = "work"   -> Range(work_queue[p[1]])
    [] p[2] = "local"  -> Range(local_work_queue[p[1]])
    [] p[2] = "hand"   -> {task[p[1]]} \ {NoTask}

Owned(t) == \E p \in Places : t \in At(p)

Live(t) == future[t] \in {"spawned", "started"}

(* The values of every variable; a worker has a task in hand exactly while *)
(* it is inside do_poll.                                                   *)
TypeOK ==
  /\ active \in BOOLEAN
  /\ posted \in Seq(GlobalTasks)
  /\ work_queue \in [Workers -> Seq(GlobalTasks)]
  /\ local_work_queue \in [Workers -> Seq(LocalTasks)]
  /\ signal_level \in [Tasks -> Nat]
  /\ future \in [Tasks -> FutureStates]
  /\ unseen \in [Tasks -> BOOLEAN]
  /\ pc \in [Workers -> Labels]
  /\ task \in [Workers -> Tasks \cup {NoTask}]
  /\ init_signal_level \in [Workers -> Nat]
  /\ \A w \in Workers :
       pc[w] # "aborted" => (task[w] # NoTask <=> pc[w] \in PollLabels)

(* A task is in one place at most, and once in a queue: each pointer that  *)
(* Arc::into_raw gave out is taken back exactly once.                      *)
OwnedOnce ==
  /\ IsInjective(posted)
  /\ \A w \in Workers : IsInjective(work_queue[w]) /\ IsInjective(local_work_queue[w])
  /\ \A p, q \in Places : p # q => At(p) \cap At(q) = {}

(* do_poll takes &mut of the future out of its UnsafeCell: two workers     *)
(* never have the same task in hand, and none has one that another worker  *)
(* may take from a queue.                                                  *)
ExclusivePoll ==
  \A w, v \in Workers :
    /\ task[w] = task[v] /\ w # v => task[w] = NoTask
    /\ task[w] \notin Range(work_queue[v]) \cup Range(local_work_queue[v])

(* A future that has resolved is never polled again, however late its      *)
(* notifications come: it is neither queued nor in hand.                   *)
DoneIsFinal == \A t \in Tasks : future[t] = "done" => ~Owned(t)

(* "Signal level is 0 when suspended": a live task that is in no queue and *)
(* in no worker's hand has level 0, so the next notification queues it;    *)
(* and one that is has not, so no notification queues it a second time.    *)
SuspendedAtZero ==
  \A t \in Tasks : Live(t) => (signal_level[t] = 0 <=> ~Owned(t))

(* A notification the latest poll may have missed is never forgotten: the  *)
(* worker polling the task will find the level changed, or the task is in  *)
(* the deque of a worker that has not gone to sleep or left.               *)
NoLostWakeup ==
  Up => \A t \in Tasks : Live(t) /\ unseen[t] =>
    \E w \in Workers :
      \/ /\ task[w] = t
         /\ pc[w] = "load" \/ signal_level[t] # init_signal_level[w]
      \/ t \in Range(work_queue[w]) /\ pc[w] \notin {"turn", "exited"}

(* No task notifies itself, or is notified, in every one of its polls:     *)
(* do_poll would never return to the worker's queues.                      *)
PollsEnd == \A w \in Workers : []<>(pc[w] \notin PollLabels)

(* If polls end, every notification of a live future is followed by        *)
(* another poll of it, unless the pool is shut down or the process exits.  *)
WakeupSeen ==
  PollsEnd => \A t \in Tasks :
    Live(t) /\ unseen[t] ~> ~unseen[t] \/ ~Live(t) \/ ~active \/ ~Up

(* If polls end and some worker keeps coming to wait in turn, each future  *)
(* given to spawn_future gets its first poll, unless shutdown or exit is   *)
(* earlier.                                                                *)
Turning == \E w \in Workers : pc[w] \in {"turn", "turn0"}
SpawnedIsPolled ==
  PollsEnd /\ []<>Turning => \A t \in GlobalTasks :
    future[t] = "spawned" ~> future[t] # "spawned" \/ ~active \/ ~Up

(* A worker whose turns keep bringing events keeps emptying its queue of   *)
(* local tasks, which were spawned by its handlers or while it drained its *)
(* other queue, and after a shutdown no worker's turns keep bringing       *)
(* events.  Nothing is promised of a worker that gets no more of them.     *)
EventsRouse ==
  \A w \in Workers :
    []<>(pc[w] = "dispatch") => []<>(local_work_queue[w] = <<>> /\ active)
-----------------------------------------------------------------------------
(* A task is being polled from the load of its level to the end of         *)
(* do_poll, which init_signal_level still tells after the process exited.  *)
Polled(t) == \E w \in Workers : task[w] = t /\ init_signal_level[w] # 0

TaskState(t) ==
  CASE future[t] = "unspawned" -> "new"
    [] future[t] \in {"done", "dropped"} -> future[t]
    [] Live(t) /\ Polled(t) -> IF unseen[t] THEN "notified" ELSE "running"
    [] Live(t) /\ ~Polled(t) ->
         IF Owned(t) THEN "scheduled"
         ELSE IF signal_level[t] = 0 THEN "idle" ELSE "lost"

TaskMap == [t \in Tasks |-> TaskState(t)]

Executor == INSTANCE TaskStates
  WITH Again <- "running", MayLose <- ForeignNotifies, state <- TaskMap

(* The queues, the hands and the signal levels together keep TaskStates: a *)
(* future is polled for a reason, again if it was notified meanwhile, and  *)
(* by one worker at a time; only a notification from outside the pool      *)
(* loses a task.                                                           *)
ImplementsTasks == Executor!Spec
=============================================================================
