--------------------------- MODULE ThreadPoolProofs ---------------------------
(***************************************************************************)
(* Proofs about ThreadPool, for every number of workers and tasks, and     *)
(* whatever MaxSignals, above which levels are counted round.              *)
(*                                                                         *)
(* The argument: signal_level is a lock.  At level 0 a task is nowhere     *)
(* (LevelZero), so the notification that finds 0 creates the only owner;   *)
(* above 0 it is only counted, and the owner gives the task up by setting  *)
(* the level back to 0 or by finishing it.  OwnInv says this of the places *)
(* a task can be at, Moved / Added / Removed say what one step does to the *)
(* places, and the lemmas about the actions show which of these each is.   *)
(* UnseenInv adds that a notification during a poll is visible in the      *)
(* level the poll ends with, SleepersAreEmpty that one which queues a task *)
(* finds it a worker that is awake.                                        *)
(***************************************************************************)
EXTENDS ThreadPool, QueueLemmas

(* The second half of OwnedOnce: no task is in two places.                 *)
Disjoint == \A p, q \in Places : p # q => At(p) \cap At(q) = {}

(* Its first half: no task is twice in a queue.                            *)
Injective ==
  /\ IsInjective(posted)
  /\ \A w \in Workers : IsInjective(work_queue[w]) /\ IsInjective(local_work_queue[w])

(* A task whose signal_level is 0 is suspended: nothing owns it, and its   *)
(* future has not resolved.                                                *)
LevelZero ==
  \A t \in Tasks : signal_level[t] = 0 => ~Owned(t) /\ future[t] # "done"

(* A task that has not been created has the level of the initial state.    *)
UnspawnedAtZero ==
  \A t \in Tasks : future[t] = "unspawned" => signal_level[t] = 0

(* Only a live task is in a queue or in a worker's hand: neither a         *)
(* resolved one, nor one that was dropped with its queue.                  *)
OwnedAlive == \A t \in Tasks : Owned(t) => Live(t)

(* If only workers notify, a live task above level 0 has an owner.         *)
AwakeOwned ==
  ~ForeignNotifies =>
    \A t \in Tasks : Live(t) /\ signal_level[t] # 0 => Owned(t)

(* The inductive invariant.                                                *)
OwnInv == /\ Injective /\ Disjoint /\ LevelZero /\ OwnedAlive
          /\ UnspawnedAtZero /\ AwakeOwned
IInv == TypeOK /\ OwnInv

(* The places of one worker.                                               *)
LEMMA WorkAt ==
  ASSUME NEW w \in Workers
  PROVE  /\ <<w, "work">> \in Places /\ At(<<w, "work">>) = Range(work_queue[w])
         /\ <<w, "local">> \in Places /\ At(<<w, "local">>) = Range(local_work_queue[w])
         /\ <<w, "hand">> \in Places /\ At(<<w, "hand">>) = {task[w]} \ {NoTask}
BY DEF Places, At

(* The place of a future posted by spawn_future and not yet handled.       *)
LEMMA PostedAt ==
  <<NoTask, "posted">> \in Places /\ At(<<NoTask, "posted">>) = Range(posted)
BY DEF Places, At

(* The invariant holds when with_concurrency has started its workers.      *)
LEMMA InitInv == Init => IInv
<1> SUFFICES ASSUME Init PROVE IInv
  OBVIOUS
<1> USE EmptyRange, ThreadPoolAssumption DEF Init
<1>1. TypeOK
  BY DEF TypeOK, FutureStates, Labels, PollLabels
<1>2. \A p \in Places : At(p) = {}
  BY DEF At, Places
<1>3. OwnInv
  BY <1>2 DEF OwnInv, Injective, Disjoint, LevelZero, OwnedAlive, UnspawnedAtZero,
              Owned, AwakeOwned, Live
<1> QED BY <1>1, <1>3 DEF IInv

(* A level counts.                                                         *)
LEMMA RaisedType ==
  ASSUME TypeOK, NEW t \in Tasks PROVE Raised(t) \in Nat
BY ThreadPoolAssumption DEF TypeOK, Raised

(* Every step of the pool keeps the variables in their types.              *)
LEMMA TypeStep == TypeOK /\ [Next]_vars => TypeOK'
<1> SUFFICES ASSUME TypeOK, [Next]_vars PROVE TypeOK'
  OBVIOUS
<1> USE ThreadPoolAssumption DEF TypeOK, Labels, PollLabels, FutureStates, Tasks,
        queues, tasks, polls, Goto, Up
<1>1. ASSUME NEW w \in Workers, RunLoop(w) PROVE TypeOK'
  <2>1. CASE CheckActive(w) BY <2>1 DEF CheckActive
  <2>2. CASE WorkerExit(w) BY <2>2 DEF WorkerExit
  <2>3. CASE ExitDropNotifies(w) BY <2>3 DEF ExitDropNotifies, ProcessExit
  <2>4. CASE PopLocal(w) BY <2>4 DEF PopLocal
  <2>5. CASE LocalEmpty(w) BY <2>5 DEF LocalEmpty
  <2>6. CASE StealData(w) BY <2>6 DEF StealData
  <2>7. CASE StealNothing(w) BY <2>7 DEF StealNothing, TurnLabel
  <2> QED BY <1>1, <2>1, <2>2, <2>3, <2>4, <2>5, <2>6, <2>7 DEF RunLoop
<1>2. ASSUME NEW w \in Workers, DoPoll(w) PROVE TypeOK'
  <2>1. CASE BeginPoll(w) BY <2>1 DEF BeginPoll, EnterPoll
  <2>2. CASE PollNotReady(w) BY <2>2 DEF PollNotReady
  <2>3. CASE PollReady(w) BY <2>3 DEF PollReady, LeavePoll, LevelAfterReady
  <2>4. CASE PollErr(w) BY <2>4 DEF PollErr, ProcessExit
  <2>5. CASE Suspend(w) BY <2>5 DEF Suspend, LeavePoll
  <2>6. CASE PollAgain(w) BY <2>6 DEF PollAgain, EnterPoll
  <2> QED BY <1>2, <2>1, <2>2, <2>3, <2>4, <2>5, <2>6 DEF DoPoll
<1>3. ASSUME NEW w \in Workers, Turn(w) PROVE TypeOK'
  <2>1. CASE HandleRemoteSpawn(w) BY <2>1 DEF HandleRemoteSpawn
  <2>2. CASE TurnEvent(w) BY <2>2 DEF TurnEvent
  <2>3. CASE TurnReturn(w) BY <2>3 DEF TurnReturn
  <2> QED BY <1>3, <2>1, <2>2, <2>3 DEF Turn
<1>4. ASSUME NEW w \in Workers, Callback(w) PROVE TypeOK'
  <2> USE DEF CreateTask, FetchAdd, ProcessExit
  <2>1. ASSUME NEW t \in GlobalTasks, NotifyGlobal(w, t) PROVE TypeOK'
    <3>0. Raised(t) \in Nat
      BY RaisedType
    <3>1. CASE MustPush(t) BY <2>1, <3>0, <3>1 DEF NotifyGlobal
    <3>2. CASE ~MustPush(t) BY <2>1, <3>0, <3>2 DEF NotifyGlobal
    <3> QED BY <3>1, <3>2
  <2>2. ASSUME NEW t \in LocalTasks, NotifyLocal(w, t) PROVE TypeOK'
    <3>1. CASE MustPush(t) BY <2>2, <3>1 DEF NotifyLocal
    <3>2. CASE ~MustPush(t)
      <4>1. FetchAdd(t) /\ UNCHANGED <<active, queues, pc, polls>>
        BY <2>2, <3>2 DEF NotifyLocal
      <4> QED BY <4>1, RaisedType
    <3> QED BY <3>1, <3>2
  <2>3. ASSUME NEW t \in LocalTasks, SpawnLocal(w, t) PROVE TypeOK'
    <3>1. CASE task[w] \in LocalTasks BY <2>3, <3>1 DEF SpawnLocal
    <3>2. CASE task[w] \notin LocalTasks
      <4> DEFINE q == <<t>> \o local_work_queue[w]
      <4>1. q \in Seq(LocalTasks)
        BY PushFrontRange
      <4>2. /\ CreateTask(t) /\ UNCHANGED <<active, posted, work_queue, pc, polls>>
            /\ local_work_queue' = [local_work_queue EXCEPT ![w] = q]
        BY <2>3, <3>2 DEF SpawnLocal
      <4> HIDE DEF q
      <4> QED BY <4>1, <4>2
    <3> QED BY <3>1, <3>2
  <2> QED BY <1>4, <2>1, <2>2, <2>3 DEF Callback
<1>5. ASSUME NEW t \in GlobalTasks, Spawn(t) PROVE TypeOK'
  BY <1>5 DEF Spawn, CreateTask
<1>6. ASSUME NEW t \in Tasks, ForeignNotify(t) PROVE TypeOK'
  BY <1>6, RaisedType DEF ForeignNotify, FetchAdd
<1>7. CASE BeginShutdown BY <1>7 DEF BeginShutdown
<1>8. CASE UNCHANGED vars BY <1>8 DEF vars
<1> QED BY <1>1, <1>2, <1>3, <1>4, <1>5, <1>6, <1>7, <1>8 DEF Next

(* A step that takes t from one place and puts it at another (pop_front,   *)
(* steal_weak, handle_remote_spawn) keeps the places disjoint.             *)
LEMMA Moved ==
  ASSUME Disjoint,
         NEW p \in Places, NEW q \in Places, p # q, NEW t \in At(p),
         At(p)' = At(p) \ {t}, At(q)' = At(q) \cup {t},
         \A r \in Places \ {p, q} : At(r)' = At(r)
  PROVE  Disjoint' /\ \A u : Owned(u)' <=> Owned(u)
<1>1. \A r \in Places : r # p => t \notin At(r)
  BY DEF Disjoint
<1>2. ASSUME NEW r \in Places, NEW u, u # t PROVE u \in At(r)' <=> u \in At(r)
  BY <1>2
<1>3. \A r \in Places : t \in At(r)' <=> r = q
  BY <1>1
<1>4. Places' = Places
  BY DEF Places
<1>5. ASSUME NEW u PROVE Owned(u)' <=> Owned(u)
  <2>1. CASE u = t BY <1>3, <1>4, <2>1 DEF Owned
  <2>2. CASE u # t BY <1>2, <1>4, <2>2 DEF Owned
  <2> QED BY <2>1, <2>2
<1>6. ASSUME NEW r \in Places, NEW s \in Places, r # s, NEW u \in At(r)', u \in At(s)'
      PROVE  FALSE
  <2>1. CASE u = t BY <1>3, <1>6, <2>1
  <2>2. CASE u # t BY <1>2, <1>6, <2>2 DEF Disjoint
  <2> QED BY <2>1, <2>2
<1> QED BY <1>4, <1>5, <1>6 DEF Disjoint

(* So does a step that puts a task nothing owned at one place (a push by   *)
(* notify, spawn_future, spawn_local_future).                              *)
LEMMA Added ==
  ASSUME Disjoint, NEW q \in Places, NEW t, ~Owned(t),
         At(q)' = At(q) \cup {t},
         \A r \in Places \ {q} : At(r)' = At(r)
  PROVE  Disjoint' /\ \A u : Owned(u)' <=> Owned(u) \/ u = t
<1>1. \A r \in Places : t \notin At(r)
  BY DEF Owned
<1>2. ASSUME NEW r \in Places, NEW u, u # t PROVE u \in At(r)' <=> u \in At(r)
  BY <1>2
<1>3. \A r \in Places : t \in At(r)' <=> r = q
  BY <1>1
<1>4. Places' = Places
  BY DEF Places
<1>5. ASSUME NEW u PROVE Owned(u)' <=> Owned(u) \/ u = t
  <2>1. CASE u = t BY <1>3, <1>4, <2>1 DEF Owned
  <2>2. CASE u # t BY <1>2, <1>4, <2>2 DEF Owned
  <2> QED BY <2>1, <2>2
<1>6. ASSUME NEW r \in Places, NEW s \in Places, r # s, NEW u \in At(r)', u \in At(s)'
      PROVE  FALSE
  <2>1. CASE u = t BY <1>3, <1>6, <2>1
  <2>2. CASE u # t BY <1>2, <1>6, <2>2 DEF Disjoint
  <2> QED BY <2>1, <2>2
<1> QED BY <1>4, <1>5, <1>6 DEF Disjoint

(* So does a step that only takes tasks away.                              *)
LEMMA Removed ==
  ASSUME Disjoint, \A r \in Places : At(r)' \subseteq At(r)
  PROVE  Disjoint' /\ \A u : Owned(u)' => Owned(u)
BY DEF Disjoint, Owned, Places

(* Steps that touch neither queues, tasks in hand, levels nor futures.     *)
LEMMA SameOwners ==
  ASSUME OwnInv, UNCHANGED <<queues, task, signal_level, future>>
  PROVE  OwnInv' /\ \A u : Owned(u)' <=> Owned(u)
<1>1. \A p \in Places : At(p)' = At(p)
  BY DEF At, queues
<1>2. Disjoint' /\ \A u : Owned(u)' <=> Owned(u)
  BY <1>1 DEF OwnInv, Disjoint, Owned, Places
<1> QED BY <1>2 DEF OwnInv, Injective, LevelZero, OwnedAlive, UnspawnedAtZero,
                    AwakeOwned, Live, queues

(* Steps that move a task and leave levels and futures alone.              *)
LEMMA MovedOwners ==
  ASSUME OwnInv, UNCHANGED <<signal_level, future>>,
         Injective', Disjoint', \A u : Owned(u)' <=> Owned(u)
  PROVE  OwnInv'
BY DEF OwnInv, LevelZero, OwnedAlive, UnspawnedAtZero, AwakeOwned, Live

(* The end of do_poll: the task in hand has no owner any more.             *)
LEMMA ReleasedOwners ==
  ASSUME IInv, NEW w \in Workers, pc[w] \in PollLabels, UNCHANGED queues,
         task' = [task EXCEPT ![w] = NoTask],
         NEW t, t = task[w]
  PROVE  /\ t \in Tasks
         /\ Injective' /\ Disjoint' /\ Owned(t) /\ ~Owned(t)'
         /\ \A u : u # t => (Owned(u)' <=> Owned(u))
<1>1. t \in Tasks
  BY DEF IInv, TypeOK, PollLabels
<1>2. \A p \in Places : p # <<w, "hand">> => At(p)' = At(p)
  BY DEF At, queues, Places, IInv, TypeOK
<1>3. At(<<w, "hand">>)' = {} /\ At(<<w, "hand">>) = {t} /\ <<w, "hand">> \in Places
  BY <1>1, ThreadPoolAssumption DEF At, Places, IInv, TypeOK
<1>4. \A p \in Places : At(p)' \subseteq At(p)
  BY <1>2, <1>3
<1>5. Disjoint'
  BY <1>4, Removed DEF IInv, OwnInv
<1>8. ASSUME NEW u, u # t PROVE Owned(u)' <=> Owned(u)
  BY <1>2, <1>3, <1>8 DEF Owned, Places
<1>6. \A p \in Places : t \notin At(p)'
  BY <1>2, <1>3 DEF IInv, OwnInv, Disjoint
<1>7. Owned(t) /\ ~Owned(t)'
  BY <1>3, <1>6 DEF Owned, Places
<1> QED BY <1>1, <1>5, <1>7, <1>8 DEF Injective, IInv, OwnInv, queues

(* The steps of run_worker's loop keep the invariant, and owners except    *)
(* those of tasks they drop.                                               *)
LEMMA RunLoopOwners ==
  ASSUME IInv, NEW w \in Workers, RunLoop(w)
  PROVE  /\ OwnInv'
         /\ \A t \in Tasks : future'[t] # "dropped" => (Owned(t)' <=> Owned(t))
<1> USE DEF IInv, queues, tasks, polls
<1>1. CASE CheckActive(w) BY <1>1, SameOwners DEF CheckActive
<1>2. CASE WorkerExit(w)
  <2>1. \A p \in Places : At(p)' \subseteq At(p)
    BY <1>2, EmptyRange DEF WorkerExit, At, Places, TypeOK
  <2>2. Disjoint' /\ \A u : Owned(u)' => Owned(u)
    BY <2>1, Removed DEF OwnInv
  <2>3. Injective'
    BY <1>2, EmptyRange DEF WorkerExit, Injective, OwnInv, TypeOK
  <2>4. \A t \in Tasks : future'[t] = future[t] \/ future'[t] = "dropped"
    BY <1>2 DEF WorkerExit
  <2>5. ASSUME NEW t \in Tasks, Owned(t), future'[t] # "dropped" PROVE Owned(t)'
    <3>1. t \notin At(<<w, "work">>) \cup At(<<w, "local">>)
      BY <1>2, <2>5, WorkAt DEF WorkerExit
    <3>2. \A p \in Places \ {<<w, "work">>, <<w, "local">>} : At(p)' = At(p)
      BY <1>2 DEF WorkerExit, At, Places, TypeOK
    <3> QED BY <2>5, <3>1, <3>2 DEF Owned, Places
  <2>6. ASSUME NEW t \in Tasks, Owned(t)' PROVE future'[t] # "dropped"
    <3>1. PICK p \in Places : t \in At(p)'
      BY <2>6 DEF Owned, Places
    <3>2. p # <<w, "work">> /\ p # <<w, "local">>
      <4>1. work_queue'[w] = <<>> /\ local_work_queue'[w] = <<>>
        BY <1>2 DEF WorkerExit, TypeOK
      <4>2. At(<<w, "work">>)' = {} /\ At(<<w, "local">>)' = {}
        BY <4>1, EmptyRange DEF At
      <4> QED BY <3>1, <4>2
    <3>3. t \notin At(<<w, "work">>) \cup At(<<w, "local">>)
      BY <2>1, <3>1, <3>2, WorkAt DEF OwnInv, Disjoint
    <3>4. Live(t)
      BY <2>2, <2>6 DEF OwnInv, OwnedAlive
    <3> QED BY <1>2, <3>3, <3>4, WorkAt DEF WorkerExit, Live
  <2> QED BY <1>2, <2>2, <2>3, <2>4, <2>5, <2>6
          DEF WorkerExit, OwnInv, LevelZero, OwnedAlive, UnspawnedAtZero, AwakeOwned, Live
<1>3. CASE ExitDropNotifies(w)
  BY <1>3, SameOwners DEF ExitDropNotifies, ProcessExit
<1>4. CASE PopLocal(w)
  <2> DEFINE t == Head(local_work_queue[w])
  <2>1. /\ t \in Range(local_work_queue[w]) /\ t \in Tasks
        /\ Range(local_work_queue'[w]) = Range(local_work_queue[w]) \ {t}
        /\ IsInjective(local_work_queue'[w])
        /\ task'[w] = t /\ task[w] = NoTask /\ t # NoTask
    <3>1. local_work_queue[w] \in Seq(LocalTasks) /\ local_work_queue[w] # <<>> /\ IsInjective(local_work_queue[w])
      BY <1>4 DEF PopLocal, TypeOK, OwnInv, Injective
    <3>2. local_work_queue'[w] = Tail(local_work_queue[w]) /\ task'[w] = t /\ task[w] = NoTask
      BY <1>4 DEF PopLocal, TypeOK, PollLabels
    <3> QED BY <3>1, <3>2, HeadInRange, TailRange, ThreadPoolAssumption DEF Tasks
  <2>2. /\ At(<<w, "local">>)' = At(<<w, "local">>) \ {t}
        /\ At(<<w, "hand">>)' = At(<<w, "hand">>) \cup {t}
        /\ t \in At(<<w, "local">>)
    BY <2>1, WorkAt DEF At
  <2>3. \A p \in Places \ {<<w, "local">>, <<w, "hand">>} : At(p)' = At(p)
    BY <1>4 DEF PopLocal, At, Places, TypeOK
  <2>4. Disjoint' /\ \A u : Owned(u)' <=> Owned(u)
    BY <2>2, <2>3, WorkAt, Moved DEF OwnInv
  <2>5. Injective'
    BY <1>4, <2>1 DEF PopLocal, Injective, OwnInv, TypeOK
  <2> QED BY <1>4, <2>4, <2>5, MovedOwners DEF PopLocal
<1>5. CASE LocalEmpty(w) BY <1>5, SameOwners DEF LocalEmpty
<1>6. CASE StealData(w)
  <2> DEFINE t == Head(work_queue[w])
  <2>1. /\ t \in Range(work_queue[w]) /\ t \in Tasks
        /\ Range(work_queue'[w]) = Range(work_queue[w]) \ {t}
        /\ IsInjective(work_queue'[w])
        /\ task'[w] = t /\ task[w] = NoTask /\ t # NoTask
    <3>1. work_queue[w] \in Seq(GlobalTasks) /\ work_queue[w] # <<>> /\ IsInjective(work_queue[w])
      BY <1>6 DEF StealData, TypeOK, OwnInv, Injective
    <3>2. work_queue'[w] = Tail(work_queue[w]) /\ task'[w] = t /\ task[w] = NoTask
      BY <1>6 DEF StealData, TypeOK, PollLabels
    <3> QED BY <3>1, <3>2, HeadInRange, TailRange, ThreadPoolAssumption DEF Tasks
  <2>2. /\ At(<<w, "work">>)' = At(<<w, "work">>) \ {t}
        /\ At(<<w, "hand">>)' = At(<<w, "hand">>) \cup {t}
        /\ t \in At(<<w, "work">>)
    BY <2>1, WorkAt DEF At
  <2>3. \A p \in Places \ {<<w, "work">>, <<w, "hand">>} : At(p)' = At(p)
    BY <1>6 DEF StealData, At, Places, TypeOK
  <2>4. Disjoint' /\ \A u : Owned(u)' <=> Owned(u)
    BY <2>2, <2>3, WorkAt, Moved DEF OwnInv
  <2>5. Injective'
    BY <1>6, <2>1 DEF StealData, Injective, OwnInv, TypeOK
  <2> QED BY <1>6, <2>4, <2>5, MovedOwners DEF StealData
<1>7. CASE StealNothing(w) BY <1>7, SameOwners DEF StealNothing
<1> QED BY <1>1, <1>2, <1>3, <1>4, <1>5, <1>6, <1>7 DEF RunLoop

(* The steps of do_poll keep it, and the owners of other tasks.            *)
LEMMA DoPollOwners ==
  ASSUME IInv, NEW w \in Workers, DoPoll(w)
  PROVE  OwnInv' /\ \A u : u # task[w] => (Owned(u)' <=> Owned(u))
<1> USE DEF IInv, queues, tasks, polls
<1>1. CASE BeginPoll(w)
  <2>1. At(<<w, "hand">>) = {task[w]} /\ task[w] \in Tasks /\ <<w, "hand">> \in Places
    BY <1>1, WorkAt, ThreadPoolAssumption DEF BeginPoll, TypeOK, PollLabels
  <2>2. Owned(task[w])
    BY <2>1 DEF Owned
  <2>3. \A p \in Places : At(p)' = At(p)
    BY <1>1 DEF BeginPoll, EnterPoll, At
  <2>4. Disjoint' /\ \A u : Owned(u)' <=> Owned(u)
    BY <2>3 DEF OwnInv, Disjoint, Owned, Places
  <2>5. \A t \in Tasks : future'[t] = future[t] \/ (t = task[w] /\ future'[t] = "started")
    BY <1>1, <2>1 DEF BeginPoll, TypeOK
  <2> QED BY <1>1, <2>2, <2>4, <2>5
          DEF BeginPoll, EnterPoll, OwnInv, Injective, LevelZero, OwnedAlive,
              UnspawnedAtZero, AwakeOwned, Live
<1>2. CASE PollNotReady(w) BY <1>2, SameOwners DEF PollNotReady
<1>3. CASE PollReady(w)
  <2> PICK t : t = task[w]
    OBVIOUS
  <2>1. /\ t \in Tasks
        /\ Injective' /\ Disjoint' /\ Owned(t) /\ ~Owned(t)'
        /\ \A u : u # t => (Owned(u)' <=> Owned(u))
    BY <1>3, ReleasedOwners DEF PollReady, LeavePoll, PollLabels
  <2>2. /\ \A u \in Tasks : u # t => future'[u] = future[u]
        /\ future'[t] = "done" /\ signal_level' = signal_level
    BY <1>3, <2>1 DEF PollReady, LevelAfterReady, TypeOK
  <2> QED BY <2>1, <2>2 DEF OwnInv, LevelZero, OwnedAlive, UnspawnedAtZero,
                            AwakeOwned, Live
<1>4. CASE PollErr(w) BY <1>4, SameOwners DEF PollErr, ProcessExit
<1>5. CASE Suspend(w)
  <2> PICK t : t = task[w]
    OBVIOUS
  <2>1. /\ t \in Tasks
        /\ Injective' /\ Disjoint' /\ Owned(t) /\ ~Owned(t)'
        /\ \A u : u # t => (Owned(u)' <=> Owned(u))
    BY <1>5, ReleasedOwners DEF Suspend, LeavePoll, PollLabels
  <2>2. /\ future' = future /\ signal_level'[t] = 0
        /\ \A u \in Tasks : u # t => signal_level'[u] = signal_level[u]
    BY <1>5, <2>1 DEF Suspend, TypeOK
  <2> QED BY <2>1, <2>2 DEF OwnInv, LevelZero, OwnedAlive, UnspawnedAtZero,
                            AwakeOwned, Live
<1>6. CASE PollAgain(w) BY <1>6, SameOwners DEF PollAgain, EnterPoll
<1> QED BY <1>1, <1>2, <1>3, <1>4, <1>5, <1>6 DEF DoPoll

(* Handling events in turn keeps it, and moves at most a posted task.      *)
LEMMA TurnOwners ==
  ASSUME IInv, NEW w \in Workers, Turn(w)
  PROVE  OwnInv' /\ \A u : Owned(u)' <=> Owned(u)
<1> USE DEF IInv, queues, tasks, polls
<1>1. CASE HandleRemoteSpawn(w)
  <2> DEFINE t == Head(posted)
             p == <<NoTask, "posted">>
             q == <<w, "work">>
  <2>1. posted \in Seq(GlobalTasks) /\ posted # <<>> /\ IsInjective(posted)
    BY <1>1 DEF HandleRemoteSpawn, TypeOK, OwnInv, Injective
  <2>2. work_queue[w] \in Seq(GlobalTasks) /\ IsInjective(work_queue[w])
    BY DEF TypeOK, OwnInv, Injective
  <2>3. posted' = Tail(posted) /\ work_queue'[w] = Append(work_queue[w], t)
    BY <1>1 DEF HandleRemoteSpawn, TypeOK
  <2>4. /\ t \in Range(posted) /\ t \in GlobalTasks
        /\ Range(posted') = Range(posted) \ {t} /\ IsInjective(posted')
    BY <2>1, <2>3, HeadInRange, TailRange
  <2>5. t \notin Range(work_queue[w])
    <3>1. p \in Places /\ q \in Places /\ p # q
      BY WorkAt, PostedAt
    <3>2. At(p) \cap At(q) = {}
      BY <3>1 DEF OwnInv, Disjoint
    <3> QED BY <2>4, <3>2, WorkAt, PostedAt
  <2>6. /\ Range(work_queue'[w]) = Range(work_queue[w]) \cup {t}
        /\ IsInjective(work_queue'[w])
    BY <2>2, <2>3, <2>4, <2>5, AppendRange
  <2>7. At(p)' = At(p) \ {t} /\ At(q)' = At(q) \cup {t} /\ t \in At(p)
    BY <2>4, <2>6, WorkAt, PostedAt DEF At
  <2>8. \A r \in Places \ {p, q} : At(r)' = At(r)
    BY <1>1 DEF HandleRemoteSpawn, At, Places, TypeOK
  <2>9. Disjoint' /\ \A u : Owned(u)' <=> Owned(u)
    <3>1. p \in Places /\ q \in Places /\ p # q
      BY WorkAt, PostedAt
    <3> HIDE DEF t, p, q
    <3> QED BY <2>7, <2>8, <3>1, Moved DEF OwnInv
  <2>10. Injective'
    BY <1>1, <2>4, <2>6 DEF HandleRemoteSpawn, Injective, OwnInv, TypeOK
  <2> QED BY <1>1, <2>9, <2>10, MovedOwners DEF HandleRemoteSpawn
<1>2. CASE TurnEvent(w) BY <1>2, SameOwners DEF TurnEvent
<1>3. CASE TurnReturn(w) BY <1>3, SameOwners DEF TurnReturn
<1> QED BY <1>1, <1>2, <1>3 DEF Turn

(* fetch_add leaves the task above level 0.                                *)
LEMMA RaisedAboveZero ==
  ASSUME IInv, NEW t \in Tasks PROVE Raised(t) \in Nat \ {0}
<1>1. TypeOK
  BY DEF IInv
<1>2. CASE \E w \in Workers : task[w] = t
  <2>1. Owned(t)
    BY <1>2, WorkAt, ThreadPoolAssumption DEF Owned, Tasks
  <2>2. signal_level[t] # 0
    BY <2>1 DEF IInv, OwnInv, LevelZero
  <2> QED BY <1>1, <2>2, ThreadPoolAssumption DEF Raised, TypeOK
<1>3. CASE ~\E w \in Workers : task[w] = t
  BY <1>1, <1>3, ThreadPoolAssumption DEF Raised, TypeOK
<1> QED BY <1>2, <1>3

(* A notification that pushes nothing keeps it: the task had an owner, or  *)
(* the notifying thread is no worker.                                      *)
LEMMA FetchAddOwners ==
  ASSUME IInv, NEW t \in Tasks, future[t] # "unspawned", FetchAdd(t),
         ForeignNotifies \/ ~MustPush(t), UNCHANGED <<queues, task>>
  PROVE  OwnInv' /\ \A u : Owned(u)' <=> Owned(u)
<1>1. \A p \in Places : At(p)' = At(p)
  BY DEF At, queues
<1>2. Disjoint' /\ \A u : Owned(u)' <=> Owned(u)
  BY <1>1 DEF IInv, OwnInv, Disjoint, Owned, Places
<1>3. \A u \in Tasks : signal_level'[u] # 0 \/ signal_level'[u] = signal_level[u]
  BY RaisedAboveZero DEF FetchAdd, IInv, TypeOK
<1>4. \A u \in Tasks : future[u] = "unspawned" => signal_level'[u] = signal_level[u]
  BY DEF FetchAdd, IInv, TypeOK
<1>5. \A u \in Tasks : u = t \/ signal_level'[u] = signal_level[u]
  BY DEF FetchAdd, IInv, TypeOK
<1>6. AwakeOwned'
  BY <1>2, <1>5 DEF FetchAdd, MustPush, IInv, OwnInv, AwakeOwned, Live
<1> QED BY <1>2, <1>3, <1>4, <1>6
        DEF FetchAdd, IInv, OwnInv, Injective, LevelZero, OwnedAlive,
            UnspawnedAtZero, Live, queues

(* A step that gives a task its only owner and a level above 0 keeps it.   *)
LEMMA NewOwner ==
  ASSUME IInv, NEW t \in Tasks, ~Owned(t), future[t] # "done",
         NEW q \in Places, At(q)' = At(q) \cup {t},
         \A r \in Places \ {q} : At(r)' = At(r), Injective',
         \A u \in Tasks : u # t => /\ signal_level'[u] = signal_level[u]
                                   /\ future'[u] = future[u],
         signal_level'[t] # 0, future'[t] \in {"spawned", "started"}
  PROVE  OwnInv' /\ \A u : Owned(u)' <=> Owned(u) \/ u = t
<1>1. Disjoint' /\ \A u : Owned(u)' <=> Owned(u) \/ u = t
  BY Added DEF IInv, OwnInv
<1> QED BY <1>1 DEF IInv, OwnInv, LevelZero, OwnedAlive, UnspawnedAtZero,
                    AwakeOwned, Live

(* notify of a global task on a worker keeps it, and gives an owner to a   *)
(* task it found at level 0.                                               *)
LEMMA NotifyGlobalOwners ==
  ASSUME IInv, NEW w \in Workers, NEW t \in GlobalTasks, NotifyGlobal(w, t)
  PROVE  OwnInv' /\ \A u : Owned(u)' <=> Owned(u) \/ (u = t /\ MustPush(t))
<1> USE DEF IInv, queues, tasks, polls
<1>1. t \in Tasks /\ future[t] \in {"started", "done"}
  BY DEF NotifyGlobal, Notifiable, Tasks
<1>2. CASE ~MustPush(t)
  BY <1>1, <1>2, FetchAddOwners DEF NotifyGlobal
<1>3. CASE MustPush(t)
  <2> DEFINE q == <<w, "work">>
  <2>1. ~Owned(t) /\ future[t] = "started"
    BY <1>1, <1>3 DEF MustPush, OwnInv, LevelZero
  <2>2. work_queue[w] \in Seq(GlobalTasks) /\ IsInjective(work_queue[w])
    BY DEF TypeOK, OwnInv, Injective
  <2>3. work_queue' = [work_queue EXCEPT ![w] = Append(@, t)]
    BY <1>3 DEF NotifyGlobal
  <2>4. work_queue'[w] = Append(work_queue[w], t)
    BY <2>3 DEF TypeOK
  <2>5. /\ Range(work_queue'[w]) = Range(work_queue[w]) \cup {t}
        /\ IsInjective(work_queue'[w])
    <3>1. t \notin Range(work_queue[w])
      BY <2>1, WorkAt DEF Owned
    <3> QED BY <2>2, <2>4, <3>1, AppendRange
  <2>6. q \in Places /\ At(q)' = At(q) \cup {t}
    BY <2>5, WorkAt DEF At
  <2>7. \A r \in Places \ {q} : At(r)' = At(r)
    BY <2>3 DEF NotifyGlobal, At, Places, TypeOK
  <2>8. Injective'
    BY <2>3, <2>5 DEF NotifyGlobal, Injective, OwnInv, TypeOK
  <2>9. /\ \A u \in Tasks : u # t => signal_level'[u] = signal_level[u]
        /\ signal_level'[t] # 0 /\ future' = future
    BY <1>1, RaisedAboveZero DEF NotifyGlobal, FetchAdd, TypeOK
  <2> HIDE DEF q
  <2> QED BY <1>1, <1>3, <2>1, <2>6, <2>7, <2>8, <2>9, NewOwner
<1> QED BY <1>2, <1>3

(* notify of a local task on a worker keeps it, and all owners.            *)
LEMMA NotifyLocalOwners ==
  ASSUME IInv, NEW w \in Workers, NEW t \in LocalTasks, NotifyLocal(w, t)
  PROVE  OwnInv' /\ \A u : Owned(u)' <=> Owned(u)
<1> USE DEF IInv, queues, tasks, polls
<1>1. t \in Tasks /\ future[t] # "unspawned"
  BY DEF NotifyLocal, Notifiable, Tasks
<1>2. CASE MustPush(t)
  BY <1>2, SameOwners DEF NotifyLocal, ProcessExit
<1>3. CASE ~MustPush(t)
  <2>1. FetchAdd(t) /\ UNCHANGED <<queues, task>>
    BY <1>3 DEF NotifyLocal
  <2> QED BY <1>1, <1>3, <2>1, FetchAddOwners
<1> QED BY <1>2, <1>3

(* spawn_local_future keeps it, and gives the new task an owner.           *)
LEMMA SpawnLocalOwners ==
  ASSUME IInv, NEW w \in Workers, NEW t \in LocalTasks, SpawnLocal(w, t)
  PROVE  /\ OwnInv'
         /\ \A u : Owned(u)' <=> Owned(u) \/ (u = t /\ task[w] \notin LocalTasks)
<1> USE DEF IInv, queues, tasks, polls
<1>1. CASE task[w] \in LocalTasks
  BY <1>1, SameOwners DEF SpawnLocal, ProcessExit
<1>2. CASE task[w] \notin LocalTasks
  <2> DEFINE q == <<w, "local">>
  <2>1. /\ CreateTask(t) /\ UNCHANGED <<posted, work_queue, task>>
        /\ local_work_queue' = [local_work_queue EXCEPT ![w] = <<t>> \o @]
    BY <1>2 DEF SpawnLocal
  <2>2. t \in Tasks /\ ~Owned(t) /\ future[t] # "done"
    BY <2>1 DEF CreateTask, OwnInv, UnspawnedAtZero, LevelZero, Tasks
  <2>3. /\ local_work_queue[w] \in Seq(LocalTasks)
        /\ IsInjective(local_work_queue[w])
        /\ local_work_queue'[w] = <<t>> \o local_work_queue[w]
    BY <2>1 DEF TypeOK, OwnInv, Injective
  <2>4. /\ Range(local_work_queue'[w]) = Range(local_work_queue[w]) \cup {t}
        /\ IsInjective(local_work_queue'[w])
    <3>1. t \notin Range(local_work_queue[w])
      BY <2>2, WorkAt DEF Owned
    <3> QED BY <2>3, <3>1, PushFrontRange
  <2>5. q \in Places /\ At(q)' = At(q) \cup {t}
    BY <2>4, WorkAt DEF At
  <2>6. \A r \in Places \ {q} : At(r)' = At(r)
    BY <2>1 DEF At, Places, TypeOK
  <2>7. Injective'
    BY <2>1, <2>4 DEF Injective, OwnInv, TypeOK
  <2>8. /\ \A u \in Tasks : u # t => /\ signal_level'[u] = signal_level[u]
                                     /\ future'[u] = future[u]
        /\ signal_level'[t] # 0 /\ future'[t] = "spawned"
    BY <2>1, <2>2 DEF CreateTask, TypeOK
  <2> HIDE DEF q
  <2> QED BY <1>2, <2>2, <2>5, <2>6, <2>7, <2>8, NewOwner
<1> QED BY <1>1, <1>2

(* spawn_future keeps it, and gives the new task an owner.                 *)
LEMMA SpawnOwners ==
  ASSUME IInv, NEW t \in GlobalTasks, Spawn(t)
  PROVE  OwnInv' /\ \A u : Owned(u)' <=> Owned(u) \/ u = t
<1> USE DEF IInv, polls
<1> DEFINE q == <<NoTask, "posted">>
<1>1. t \in Tasks /\ ~Owned(t) /\ future[t] # "done"
  BY DEF Spawn, CreateTask, OwnInv, UnspawnedAtZero, LevelZero, Tasks
<1>2. /\ posted \in Seq(GlobalTasks) /\ IsInjective(posted)
      /\ posted' = Append(posted, t)
  BY DEF Spawn, TypeOK, OwnInv, Injective
<1>3. Range(posted') = Range(posted) \cup {t} /\ IsInjective(posted')
  BY <1>1, <1>2, AppendRange, PostedAt DEF Owned
<1>4. q \in Places /\ At(q)' = At(q) \cup {t}
  BY <1>3, PostedAt DEF At
<1>5. \A r \in Places \ {q} : At(r)' = At(r)
  BY DEF Spawn, At, Places
<1>6. Injective'
  BY <1>3 DEF Spawn, Injective, OwnInv
<1>7. /\ \A u \in Tasks : u # t => /\ signal_level'[u] = signal_level[u]
                                   /\ future'[u] = future[u]
      /\ signal_level'[t] # 0 /\ future'[t] = "spawned"
  BY <1>1 DEF Spawn, CreateTask, TypeOK
<1> HIDE DEF q
<1> QED BY <1>1, <1>4, <1>5, <1>6, <1>7, NewOwner

(* Every step keeps it.                                                    *)
LEMMA NextInv == IInv /\ [Next]_vars => IInv'
<1> SUFFICES ASSUME IInv, [Next]_vars PROVE OwnInv'
  BY TypeStep DEF IInv
<1>1. ASSUME NEW w \in Workers, RunLoop(w) \/ DoPoll(w) \/ Turn(w) \/ Callback(w)
      PROVE  OwnInv'
  BY <1>1, RunLoopOwners, DoPollOwners, TurnOwners, NotifyGlobalOwners,
     NotifyLocalOwners, SpawnLocalOwners DEF Callback
<1>2. ASSUME NEW t \in GlobalTasks, Spawn(t) PROVE OwnInv'
  BY <1>2, SpawnOwners
<1>3. ASSUME NEW t \in Tasks, ForeignNotify(t) PROVE OwnInv'
  BY <1>3, FetchAddOwners DEF ForeignNotify, Notifiable, polls
<1>4. CASE BeginShutdown
  BY <1>4, SameOwners DEF BeginShutdown, IInv, tasks, polls
<1>5. CASE UNCHANGED vars
  BY <1>5, SameOwners DEF vars, IInv, tasks, polls
<1> QED BY <1>1, <1>2, <1>3, <1>4, <1>5 DEF Next

(* The inductive invariant holds in every reachable state.                 *)
THEOREM Inductive == Spec => []IInv
BY InitInv, NextInv, PTL DEF Spec

(* TypeOK holds in every reachable state of the pool.                      *)
THEOREM TypeCorrect == Spec => []TypeOK
<1>1. IInv => TypeOK
  BY DEF IInv
<1> QED BY <1>1, Inductive, PTL

(* Disjoint places mean that do_poll never shares a future.                *)
LEMMA InvIsExclusive == IInv => ExclusivePoll
<1> SUFFICES ASSUME IInv, NEW w \in Workers, NEW v \in Workers
             PROVE  /\ task[w] = task[v] /\ w # v => task[w] = NoTask
                    /\ task[w] \notin Range(work_queue[v]) \cup Range(local_work_queue[v])
  BY DEF ExclusivePoll
<1>1. CASE task[w] = NoTask
  <2>1. NoTask \notin Range(work_queue[v]) \cup Range(local_work_queue[v])
    BY ThreadPoolAssumption DEF IInv, TypeOK, Range, Tasks
  <2> QED BY <1>1, <2>1
<1>2. CASE task[w] # NoTask
  <2>1. task[w] \in At(<<w, "hand">>)
    BY <1>2, WorkAt
  <2>2. \A p \in Places : p # <<w, "hand">> => task[w] \notin At(p)
    BY <2>1, WorkAt DEF IInv, OwnInv, Disjoint
  <2>3. task[w] \notin Range(work_queue[v]) \cup Range(local_work_queue[v])
    <3>1. /\ task[w] \notin At(<<v, "work">>)
          /\ task[w] \notin At(<<v, "local">>)
      BY <2>2, WorkAt
    <3> QED BY <3>1, WorkAt
  <2>4. task[w] = task[v] => w = v
    <3> SUFFICES ASSUME w # v PROVE task[w] \notin At(<<v, "hand">>)
      BY <1>2, WorkAt
    <3>1. <<v, "hand">> # <<w, "hand">>
      OBVIOUS
    <3> QED BY <2>2, <3>1, WorkAt
  <2> QED BY <2>3, <2>4
<1> QED BY <1>1, <1>2

(* do_poll has the only reference to the future in the UnsafeCell: no two  *)
(* workers poll one task, whatever the interleaving of notifications.      *)
THEOREM PollIsExclusive == Spec => []ExclusivePoll
BY InvIsExclusive, Inductive, PTL

(* A task is owned once: no reference made by Arc::into_raw or by a        *)
(* notification is queued or polled twice.                                 *)
THEOREM TasksOwnedOnce == Spec => []OwnedOnce
<1>1. IInv => OwnedOnce
  BY DEF IInv, OwnInv, Injective, Disjoint, OwnedOnce
<1> QED BY <1>1, Inductive, PTL

(* A resolved future is never queued or polled again by late               *)
(* notifications.                                                          *)
THEOREM DoneStaysDone == Spec => []DoneIsFinal
<1>1. IInv => DoneIsFinal
  BY DEF IInv, OwnInv, OwnedAlive, DoneIsFinal, Live
<1> QED BY <1>1, Inductive, PTL

(* Notifications since the latest poll began are visible in the level: it  *)
(* is above 0, and differs from the one do_poll will compare with, which   *)
(* it does for no other reason.  Only during a poll is that one not 0.     *)
UnseenInv ==
  /\ \A t \in Tasks : unseen[t] => signal_level[t] # 0
  /\ \A w \in Workers : pc[w] \in {"poll", "cas"} =>
       unseen[task[w]] <=> init_signal_level[w] # signal_level[task[w]]
  /\ \A w \in Workers : pc[w] # "aborted" =>
       (init_signal_level[w] # 0 <=> pc[w] \in {"poll", "cas"})

(* The task do_poll has in hand is owned and above level 0.                *)
LEMMA InHand ==
  ASSUME IInv, NEW w \in Workers, pc[w] \in PollLabels
  PROVE  task[w] \in Tasks /\ Owned(task[w]) /\ signal_level[task[w]] # 0
<1>1. task[w] \in Tasks /\ task[w] # NoTask
  BY ThreadPoolAssumption DEF IInv, TypeOK, PollLabels
<1>2. Owned(task[w])
  BY <1>1, WorkAt DEF Owned
<1> QED BY <1>1, <1>2 DEF IInv, OwnInv, LevelZero

(* fetch_add takes the level away from the one that a poll has loaded.     *)
LEMMA RaisedDiffers ==
  ASSUME IInv, NEW w \in Workers, task[w] \in Tasks
  PROVE  Raised(task[w]) # init_signal_level[w]
<1> DEFINE t == task[w]
           next == IF signal_level[t] < MaxSignals THEN signal_level[t] + 1 ELSE 1
<1>1. \A v \in Workers : task[v] = t => v = w
  BY InvIsExclusive, ThreadPoolAssumption DEF ExclusivePoll, Tasks
<1>2. next # signal_level[t]
  BY ThreadPoolAssumption DEF IInv, TypeOK
<1>3. Raised(t) = IF init_signal_level[w] = next THEN signal_level[t] ELSE next
  BY <1>1 DEF Raised
<1> QED BY <1>2, <1>3

(* Every step keeps UnseenInv, given the invariant.                        *)
LEMMA UnseenStep == IInv /\ UnseenInv /\ [Next]_vars => UnseenInv'
<1> SUFFICES ASSUME IInv, UnseenInv, [Next]_vars PROVE UnseenInv'
  OBVIOUS
<1>t. TypeOK
  BY DEF IInv
<1> USE <1>t DEF UnseenInv, Goto, queues, tasks, polls, PollLabels
<1>1. ASSUME NEW w \in Workers, RunLoop(w) PROVE UnseenInv'
  <2> USE DEF TypeOK
  <2>1. CASE CheckActive(w) BY <2>1 DEF CheckActive
  <2>2. CASE WorkerExit(w) BY <2>2 DEF WorkerExit
  <2>3. CASE ExitDropNotifies(w) BY <2>3 DEF ExitDropNotifies, ProcessExit
  <2>4. CASE PopLocal(w) BY <2>4 DEF PopLocal
  <2>5. CASE LocalEmpty(w) BY <2>5 DEF LocalEmpty
  <2>6. CASE StealData(w) BY <2>6 DEF StealData
  <2>7. CASE StealNothing(w) BY <2>7 DEF StealNothing, TurnLabel
  <2> QED BY <1>1, <2>1, <2>2, <2>3, <2>4, <2>5, <2>6, <2>7 DEF RunLoop
<1>2. ASSUME NEW w \in Workers, DoPoll(w) PROVE UnseenInv'
  <2>p. /\ task[w] \in Tasks /\ signal_level[task[w]] # 0
        /\ \A v \in Workers \ {w} : pc[v] \in PollLabels => task[v] # task[w]
    <3>1. pc[w] \in PollLabels
      BY <1>2 DEF DoPoll, BeginPoll, PollNotReady, PollReady, PollErr, Suspend, PollAgain
    <3>2. task[w] \in Tasks /\ signal_level[task[w]] # 0
      BY <3>1, InHand
    <3>3. ExclusivePoll
      BY InvIsExclusive
    <3> QED BY <3>2, <3>3, ThreadPoolAssumption DEF ExclusivePoll
  <2>e. ASSUME EnterPoll(w) PROVE UnseenInv'
    BY <2>e, <2>p DEF EnterPoll, TypeOK
  <2>1. CASE BeginPoll(w) BY <2>1, <2>e DEF BeginPoll
  <2>2. CASE PollNotReady(w) BY <2>2 DEF PollNotReady, TypeOK
  <2>3. CASE PollReady(w) BY <2>3, <2>p DEF PollReady, LeavePoll, LevelAfterReady, TypeOK
  <2>4. CASE PollErr(w) BY <2>4 DEF PollErr, ProcessExit
  <2>5. CASE Suspend(w)
    BY <2>5, <2>p DEF Suspend, LeavePoll, CompareSucceeds, TypeOK
  <2>6. CASE PollAgain(w) BY <2>6, <2>e DEF PollAgain
  <2> QED BY <1>2, <2>1, <2>2, <2>3, <2>4, <2>5, <2>6 DEF DoPoll
<1>3. ASSUME NEW w \in Workers, Turn(w) PROVE UnseenInv'
  <2>1. CASE HandleRemoteSpawn(w) BY <2>1 DEF HandleRemoteSpawn, TypeOK
  <2>2. CASE TurnEvent(w) BY <2>2 DEF TurnEvent, TypeOK
  <2>3. CASE TurnReturn(w) BY <2>3 DEF TurnReturn, TypeOK
  <2> QED BY <1>3, <2>1, <2>2, <2>3 DEF Turn
<1>f. ASSUME NEW t \in Tasks, FetchAdd(t), UNCHANGED <<pc, polls>> PROVE UnseenInv'
  <2>1. \A w \in Workers : pc[w] \in PollLabels =>
          task[w] \in Tasks /\ Raised(task[w]) # init_signal_level[w]
    BY InHand, RaisedDiffers
  <2>2. Raised(t) # 0
    BY RaisedAboveZero
  <2> QED BY <1>f, <2>1, <2>2 DEF FetchAdd, TypeOK
<1>c. ASSUME NEW t \in Tasks, CreateTask(t), UNCHANGED <<pc, polls>> PROVE UnseenInv'
  <2>1. signal_level[t] = 0
    BY <1>c DEF CreateTask, IInv, OwnInv, UnspawnedAtZero
  <2>2. \A w \in Workers : pc[w] \in PollLabels => task[w] \in Tasks /\ task[w] # t
    BY <2>1, InHand
  <2> QED BY <1>c, <2>1, <2>2 DEF CreateTask, TypeOK
<1>4. ASSUME NEW w \in Workers, Callback(w) PROVE UnseenInv'
  <2>1. ASSUME NEW t \in GlobalTasks, NotifyGlobal(w, t) PROVE UnseenInv'
    BY <2>1, <1>f DEF NotifyGlobal, Tasks
  <2>2. ASSUME NEW t \in LocalTasks, NotifyLocal(w, t) PROVE UnseenInv'
    <3>1. CASE MustPush(t)
      BY <2>2, <3>1 DEF NotifyLocal, ProcessExit
    <3>2. CASE ~MustPush(t)
      BY <2>2, <3>2, <1>f DEF NotifyLocal, Tasks
    <3> QED BY <3>1, <3>2
  <2>3. ASSUME NEW t \in LocalTasks, SpawnLocal(w, t) PROVE UnseenInv'
    <3>1. CASE task[w] \in LocalTasks
      BY <2>3, <3>1 DEF SpawnLocal, ProcessExit
    <3>2. CASE task[w] \notin LocalTasks
      BY <2>3, <3>2, <1>c DEF SpawnLocal, Tasks
    <3> QED BY <3>1, <3>2
  <2> QED BY <1>4, <2>1, <2>2, <2>3 DEF Callback
<1>5. ASSUME NEW t \in GlobalTasks, Spawn(t) PROVE UnseenInv'
  BY <1>5, <1>c DEF Spawn, Tasks
<1>6. ASSUME NEW t \in Tasks, ForeignNotify(t) PROVE UnseenInv'
  BY <1>6, <1>f DEF ForeignNotify
<1>7. CASE BeginShutdown BY <1>7 DEF BeginShutdown
<1>8. CASE UNCHANGED vars BY <1>8 DEF vars
<1> QED BY <1>1, <1>2, <1>3, <1>4, <1>5, <1>6, <1>7, <1>8 DEF Next

(* If only workers notify, level 0 and "in no queue and in no hand" are    *)
(* the same thing for a live task: "Signal level is 0 when suspended".     *)
THEOREM SuspendedTasksAtZero ==
  ASSUME ~ForeignNotifies
  PROVE  Spec => []SuspendedAtZero
<1>1. IInv => SuspendedAtZero
  BY DEF IInv, OwnInv, LevelZero, AwakeOwned, SuspendedAtZero
<1> QED BY <1>1, Inductive, PTL

(* Beside the deques and the hands a task is only before its first poll,   *)
(* when nobody can have notified it.                                       *)
FreshQueues ==
  \A t \in Tasks :
    t \in Range(posted) \/ (\E w \in Workers : t \in Range(local_work_queue[w]))
      => future[t] = "spawned" /\ ~unseen[t]

(* A worker goes to sleep, and leaves, with an empty deque; nobody else    *)
(* pushes on it.                                                           *)
SleepersAreEmpty ==
  \A w \in Workers : pc[w] \in {"turn", "exited"} => work_queue[w] = <<>>

(* What is in hand, posted or in a worker's queues is nowhere else.        *)
LEMMA Apart ==
  ASSUME IInv, NEW w \in Workers, NEW v \in Workers
  PROVE  /\ task[w] \notin Range(posted) \cup Range(local_work_queue[v])
         /\ Range(posted) \cap Range(work_queue[w]) = {}
         /\ Range(posted) \cap Range(local_work_queue[w]) = {}
         /\ Range(local_work_queue[v]) \cap Range(work_queue[w]) = {}
         /\ v # w => Range(local_work_queue[v]) \cap Range(local_work_queue[w]) = {}
<1>1. \A p, q \in Places : p # q => At(p) \cap At(q) = {}
  BY DEF IInv, OwnInv, Disjoint
<1>2. NoTask \notin Range(posted) \cup Range(local_work_queue[v])
  BY ThreadPoolAssumption DEF IInv, TypeOK, Range, Tasks
<1>3. /\ <<w, "hand">> # <<NoTask, "posted">> /\ <<w, "hand">> # <<v, "local">>
      /\ <<NoTask, "posted">> # <<w, "work">> /\ <<NoTask, "posted">> # <<w, "local">>
      /\ <<v, "local">> # <<w, "work">>
      /\ v # w => <<v, "local">> # <<w, "local">>
  OBVIOUS
<1>4. ({task[w]} \ {NoTask}) \cap (Range(posted) \cup Range(local_work_queue[v])) = {}
  <2>1. ({task[w]} \ {NoTask}) \cap Range(posted) = {}
    BY <1>1, <1>3, WorkAt, PostedAt
  <2>2. ({task[w]} \ {NoTask}) \cap Range(local_work_queue[v]) = {}
    BY <1>1, <1>3, WorkAt
  <2> QED BY <2>1, <2>2
<1> QED BY <1>1, <1>2, <1>3, <1>4, WorkAt, PostedAt

(* Tasks come fresh into these queues, and leave them for a worker's hand  *)
(* or deque before they are polled.                                        *)
LEMMA FreshStep ==
  IInv /\ UnseenInv /\ FreshQueues /\ [Next]_vars => FreshQueues'
<1> SUFFICES ASSUME IInv, UnseenInv, FreshQueues, [Next]_vars
             PROVE  FreshQueues'
  OBVIOUS
<1> USE ThreadPoolAssumption
    DEF IInv, TypeOK, FreshQueues, Tasks, queues, tasks, polls, Goto
<1>1. ASSUME NEW w \in Workers, RunLoop(w) PROVE FreshQueues'
  <2>1. CASE WorkerExit(w)
    <3>1. \A t \in Range(posted) : t \notin Range(work_queue[w]) \cup Range(local_work_queue[w])
      BY Apart
    <3>2. \A v \in Workers \ {w} : \A t \in Range(local_work_queue[v]) :
            t \notin Range(work_queue[w]) \cup Range(local_work_queue[w])
      BY Apart
    <3>3. Range(local_work_queue'[w]) = {}
      BY <2>1, EmptyRange DEF WorkerExit
    <3> QED BY <2>1, <3>1, <3>2, <3>3 DEF WorkerExit
  <2>2. CASE PopLocal(w)
    <3>1. Range(Tail(local_work_queue[w])) \subseteq Range(local_work_queue[w])
      BY <2>2, TailRange DEF PopLocal, OwnInv, Injective
    <3> QED BY <2>2, <3>1 DEF PopLocal
  <2>3. CASE ~WorkerExit(w) /\ ~PopLocal(w)
    BY <1>1, <2>3 DEF RunLoop, CheckActive, ExitDropNotifies, ProcessExit,
       LocalEmpty, StealData, StealNothing
  <2> QED BY <2>1, <2>2, <2>3
<1>2. ASSUME NEW w \in Workers, DoPoll(w) PROVE FreshQueues'
  <2>1. \A v \in Workers : task[w] \notin Range(posted) \cup Range(local_work_queue[v])
    BY Apart
  <2>2. UNCHANGED <<posted, local_work_queue>>
    BY <1>2 DEF DoPoll, BeginPoll, EnterPoll, PollNotReady, PollReady,
       LeavePoll, PollErr, ProcessExit, Suspend, PollAgain
  <2>3. \A t \in Tasks \ {task[w]} :
          future'[t] = future[t] /\ unseen'[t] = unseen[t]
    BY <1>2 DEF DoPoll, BeginPoll, EnterPoll, PollNotReady, PollReady,
       LeavePoll, PollErr, ProcessExit, Suspend, PollAgain
  <2>4. ASSUME NEW t \in Tasks,
               \/ t \in Range(posted')
               \/ \E v \in Workers : t \in Range(local_work_queue'[v])
        PROVE  future'[t] = "spawned" /\ ~unseen'[t]
    <3>1. t # task[w] /\ future[t] = "spawned" /\ ~unseen[t]
      BY <2>1, <2>2, <2>4
    <3> QED BY <2>3, <3>1
  <2> QED BY <2>4
<1>3. ASSUME NEW w \in Workers, Turn(w) PROVE FreshQueues'
  <2>1. CASE HandleRemoteSpawn(w)
    <3>1. Range(Tail(posted)) \subseteq Range(posted)
      BY <2>1, TailRange DEF HandleRemoteSpawn, OwnInv, Injective
    <3> QED BY <2>1, <3>1 DEF HandleRemoteSpawn
  <2>2. CASE TurnEvent(w) \/ TurnReturn(w)
    BY <2>2 DEF TurnEvent, TurnReturn
  <2> QED BY <1>3, <2>1, <2>2 DEF Turn
<1>4. ASSUME NEW t \in Tasks, Notifiable(t), FetchAdd(t),
             UNCHANGED <<posted, local_work_queue>>
      PROVE  FreshQueues'
  BY <1>4 DEF Notifiable, FetchAdd
<1>5. ASSUME NEW t \in Tasks, CreateTask(t)
      PROVE  /\ future'[t] = "spawned" /\ ~unseen'[t]
             /\ \A s \in Tasks \ {t} : future'[s] = future[s] /\ unseen'[s] = unseen[s]
  BY <1>5 DEF CreateTask, UnseenInv, OwnInv, UnspawnedAtZero
<1>6. ASSUME NEW w \in Workers, Callback(w) PROVE FreshQueues'
  <2>1. ASSUME ProcessExit PROVE FreshQueues'
    BY <2>1 DEF ProcessExit
  <2>2. ASSUME NEW t \in GlobalTasks, NotifyGlobal(w, t) PROVE FreshQueues'
    BY <1>4, <2>2 DEF NotifyGlobal
  <2>3. ASSUME NEW t \in LocalTasks, NotifyLocal(w, t) PROVE FreshQueues'
    BY <1>4, <2>1, <2>3 DEF NotifyLocal
  <2>4. ASSUME NEW t \in LocalTasks, SpawnLocal(w, t), CreateTask(t)
        PROVE  FreshQueues'
    <3> DEFINE q == <<t>> \o local_work_queue[w]
    <3>1. q \in Seq(LocalTasks) /\ Range(q) = Range(local_work_queue[w]) \cup {t}
      BY PushFrontRange
    <3>2. CASE task[w] \in LocalTasks
      BY <2>1, <2>4, <3>2 DEF SpawnLocal
    <3>3. CASE task[w] \notin LocalTasks
      <4>1. /\ local_work_queue' = [local_work_queue EXCEPT ![w] = q]
            /\ UNCHANGED posted
        BY <2>4, <3>3 DEF SpawnLocal
      <4> HIDE DEF q
      <4>2. Range(local_work_queue'[w]) = Range(local_work_queue[w]) \cup {t}
        BY <3>1, <4>1
      <4> QED BY <1>5, <2>4, <4>1, <4>2
    <3> QED BY <3>2, <3>3
  <2>5. ASSUME NEW t \in LocalTasks, SpawnLocal(w, t), ~CreateTask(t)
        PROVE  FreshQueues'
    BY <2>1, <2>5 DEF SpawnLocal
  <2> QED BY <1>6, <2>2, <2>3, <2>4, <2>5 DEF Callback
<1>7. ASSUME NEW t \in GlobalTasks, Spawn(t) PROVE FreshQueues'
  <2>1. Range(posted') = Range(posted) \cup {t}
    BY <1>7, AppendRange DEF Spawn
  <2> QED BY <1>5, <1>7, <2>1 DEF Spawn
<1>8. ASSUME NEW t \in Tasks, ForeignNotify(t) PROVE FreshQueues'
  BY <1>4, <1>8 DEF ForeignNotify
<1>9. CASE BeginShutdown
  BY <1>9 DEF BeginShutdown
<1>10. CASE UNCHANGED vars
  BY <1>10 DEF vars
<1> QED BY <1>1, <1>2, <1>3, <1>6, <1>7, <1>8, <1>9, <1>10 DEF Next

(* A worker sleeps only after it found its deque empty, and until an event *)
(* wakes it only others act.                                               *)
LEMMA SleepersStep ==
  TypeOK /\ SleepersAreEmpty /\ [Next]_vars => SleepersAreEmpty'
<1> SUFFICES ASSUME TypeOK, SleepersAreEmpty, [Next]_vars
             PROVE  SleepersAreEmpty'
  OBVIOUS
<1> USE DEF TypeOK, SleepersAreEmpty, queues, polls, Goto, ProcessExit
<1>1. ASSUME NEW w \in Workers, RunLoop(w) PROVE SleepersAreEmpty'
  BY <1>1 DEF RunLoop, CheckActive, WorkerExit, ExitDropNotifies, PopLocal,
     LocalEmpty, StealData, StealNothing, TurnLabel
<1>2. ASSUME NEW w \in Workers, DoPoll(w) PROVE SleepersAreEmpty'
  BY <1>2 DEF DoPoll, BeginPoll, EnterPoll, PollNotReady, PollReady,
     LeavePoll, PollErr, Suspend, PollAgain
<1>3. ASSUME NEW w \in Workers, Turn(w) PROVE SleepersAreEmpty'
  BY <1>3 DEF Turn, HandleRemoteSpawn, TurnEvent, TurnReturn
<1>4. ASSUME NEW w \in Workers, Callback(w) PROVE SleepersAreEmpty'
  BY <1>4 DEF Callback, NotifyGlobal, NotifyLocal, SpawnLocal, RunsCallbacks
<1>5. CASE UNCHANGED <<work_queue, pc>>
  BY <1>5
<1> QED BY <1>1, <1>2, <1>3, <1>4, <1>5
        DEF Next, Spawn, ForeignNotify, BeginShutdown, vars

(* If only workers notify, no notification is lost: the poll that missed   *)
(* it will be repeated, or its task is queued with a worker that is awake. *)
THEOREM WakeupsAreKept ==
  ASSUME ~ForeignNotifies
  PROVE  Spec => []NoLostWakeup
<1>1. Init => UnseenInv /\ FreshQueues /\ SleepersAreEmpty
  BY EmptyRange DEF Init, UnseenInv, FreshQueues, SleepersAreEmpty
<1>2. IInv /\ UnseenInv /\ FreshQueues /\ SleepersAreEmpty => NoLostWakeup
  <2> SUFFICES ASSUME IInv, UnseenInv, FreshQueues, SleepersAreEmpty, Up,
                      NEW t \in Tasks, Live(t), unseen[t]
               PROVE  \E w \in Workers :
                        \/ /\ task[w] = t
                           /\ \/ pc[w] = "load"
                              \/ signal_level[t] # init_signal_level[w]
                        \/ /\ t \in Range(work_queue[w])
                           /\ pc[w] \notin {"turn", "exited"}
    BY DEF NoLostWakeup
  <2>1. PICK p \in Places : t \in At(p)
    BY DEF UnseenInv, IInv, OwnInv, AwakeOwned, Owned
  <2>2. t \notin Range(posted)
        /\ \A w \in Workers : t \notin Range(local_work_queue[w])
    BY DEF FreshQueues
  <2>3. PICK w \in Workers : task[w] = t \/ t \in Range(work_queue[w])
    BY <2>1, <2>2 DEF Places, At
  <2>4. CASE task[w] = t
    <3>1. pc[w] \in PollLabels
      BY <2>4, ThreadPoolAssumption DEF Up, IInv, TypeOK
    <3> QED BY <2>4, <3>1 DEF UnseenInv, PollLabels
  <2>5. CASE t \in Range(work_queue[w])
    BY <2>5, EmptyRange DEF SleepersAreEmpty
  <2> QED BY <2>3, <2>4, <2>5
<1>3. IInv => TypeOK
  BY DEF IInv
<1> QED BY <1>1, <1>2, <1>3, UnseenStep, FreshStep, SleepersStep, Inductive, PTL
        DEF Spec

-----------------------------------------------------------------------------
(* The refinement of TaskStates.                                           *)

(* What TaskState is, case by case, before a step and after it.            *)
StateIs(t) ==
  /\ future[t] = "unspawned" => TaskState(t) = "new"
  /\ future[t] \in {"done", "dropped"} => TaskState(t) = future[t]
  /\ Live(t) /\ Polled(t) =>
       /\ unseen[t] => TaskState(t) = "notified"
       /\ ~unseen[t] => TaskState(t) = "running"
  /\ Live(t) /\ ~Polled(t) =>
       /\ Owned(t) => TaskState(t) = "scheduled"
       /\ ~Owned(t) /\ signal_level[t] = 0 => TaskState(t) = "idle"
       /\ ~Owned(t) /\ signal_level[t] # 0 => TaskState(t) = "lost"

(* The definition of TaskState by CASE says no more than StateIs.          *)
LEMMA StateCases ==
  ASSUME NEW t \in Tasks
  PROVE  StateIs(t) /\ StateIs(t)'
<1>1. StateIs(t)
  BY DEF StateIs, TaskState, Live
<1>2. StateIs(t)'
  BY DEF StateIs, TaskState, Live
<1> QED BY <1>1, <1>2

(* A step that leaves alone all that TaskState looks at.                   *)
LEMMA SameState ==
  ASSUME TypeOK, NEW t \in Tasks,
         future'[t] = future[t], unseen'[t] = unseen[t],
         signal_level'[t] = signal_level[t],
         Polled(t)' <=> Polled(t),
         Live(t) => (Owned(t)' <=> Owned(t))
  PROVE  TaskState(t)' = TaskState(t)
<1>1. StateIs(t) /\ StateIs(t)'
  BY StateCases
<1> QED BY <1>1 DEF StateIs, Live, TypeOK, FutureStates

(* A step that moves one task from one state to another.                   *)
LEMMA OneGoes ==
  ASSUME NEW t \in Tasks, NEW a, NEW b,
         TaskState(t) = a, TaskState(t)' = b,
         \A u \in Tasks \ {t} : TaskState(u)' = TaskState(u)
  PROVE  Executor!Goes(t, a, b)
BY DEF Executor!Goes, TaskMap

(* The task that is polled has one poller, an owner and a live future.     *)
LEMMA PolledTask ==
  ASSUME IInv, NEW w \in Workers, pc[w] \in PollLabels
  PROVE  /\ task[w] \in Tasks /\ Live(task[w]) /\ signal_level[task[w]] # 0
         /\ \A v \in Workers : task[v] = task[w] => v = w
<1>1. task[w] \in Tasks /\ Live(task[w]) /\ signal_level[task[w]] # 0
  BY InHand DEF IInv, OwnInv, OwnedAlive
<1>2. \A v \in Workers : task[v] = task[w] => v = w
  BY <1>1, InvIsExclusive, ThreadPoolAssumption DEF ExclusivePoll
<1> QED BY <1>1, <1>2

(* So a task without an owner is not polled.                               *)
LEMMA PolledIsOwned ==
  ASSUME IInv, NEW t \in Tasks, Polled(t)
  PROVE  Owned(t) /\ Live(t)
<1>1. PICK w \in Workers : task[w] = t
  BY DEF Polled
<1>2. t \in At(<<w, "hand">>) /\ <<w, "hand">> \in Places
  BY <1>1, WorkAt, ThreadPoolAssumption
<1> QED BY <1>2 DEF Owned, IInv, OwnInv, OwnedAlive

(* Steps that neither poll nor notify, and keep the owners of tasks, are   *)
(* invisible.                                                              *)
LEMMA Invisible ==
  ASSUME IInv, UNCHANGED tasks,
         \A t \in Tasks : Polled(t)' <=> Polled(t),
         \A t \in Tasks : Live(t) => (Owned(t)' <=> Owned(t))
  PROVE  UNCHANGED TaskMap
<1>1. \A t \in Tasks : TaskState(t)' = TaskState(t)
  BY SameState DEF tasks, IInv
<1> QED BY <1>1 DEF TaskMap

(* The loop of run_worker: only WorkerExit is visible, which discards the  *)
(* tasks in the worker's queues.                                           *)
LEMMA RunLoopGoes ==
  ASSUME IInv, UnseenInv, NEW w \in Workers, RunLoop(w)
  PROVE  [Executor!Next]_TaskMap
<1>t. TypeOK
  BY DEF IInv
<1>o. \A t \in Tasks : future'[t] # "dropped" => (Owned(t)' <=> Owned(t))
  BY RunLoopOwners
<1> USE DEF queues, tasks, polls
<1>1. CASE WorkerExit(w)
  <2> DEFINE S == {t \in Tasks : t \in Range(work_queue[w]) \cup Range(local_work_queue[w])}
  <2>1. /\ UNCHANGED <<signal_level, unseen, task, init_signal_level>>
        /\ \A t \in Tasks : future'[t] = IF t \in S THEN "dropped" ELSE future[t]
    BY <1>1 DEF WorkerExit
  <2>2. \A t \in Tasks : Polled(t)' <=> Polled(t)
    BY <2>1 DEF Polled
  <2>3. ASSUME NEW t \in S PROVE TaskState(t) = "scheduled" /\ TaskState(t)' = "dropped"
    <3>1. Owned(t) /\ Live(t)
      BY WorkAt DEF Owned, IInv, OwnInv, OwnedAlive
    <3>2. ~Polled(t)
      BY InvIsExclusive DEF Polled, ExclusivePoll
    <3> QED BY <2>1, <3>1, <3>2, StateCases DEF StateIs
  <2>4. ASSUME NEW t \in Tasks \ S PROVE TaskState(t)' = TaskState(t)
    <3>1. Live(t) => future'[t] # "dropped"
      BY <2>1 DEF Live
    <3> QED BY <1>t, <1>o, <2>1, <2>2, <3>1, SameState
  <2>5. Executor!Discard(S)
    BY <2>3, <2>4 DEF Executor!Discard, TaskMap
  <2> HIDE DEF S
  <2>6. S \in SUBSET Tasks
    BY DEF S
  <2> QED BY <2>5, <2>6 DEF Executor!Next
<1>2. ASSUME UNCHANGED tasks, \A t \in Tasks : Polled(t)' <=> Polled(t)
      PROVE  UNCHANGED TaskMap
  BY <1>2, <1>o, Invisible DEF Live
<1>3. CASE CheckActive(w) BY <1>2, <1>3 DEF CheckActive, Polled
<1>4. CASE ExitDropNotifies(w)
  BY <1>2, <1>4 DEF ExitDropNotifies, ProcessExit, Polled
<1>5. CASE PopLocal(w) \/ StealData(w)
  <2>1. /\ UNCHANGED <<tasks, init_signal_level>> /\ init_signal_level[w] = 0
        /\ \A v \in Workers \ {w} : task'[v] = task[v]
    BY <1>5, <1>t DEF PopLocal, StealData, UnseenInv, TypeOK
  <2>2. \A t \in Tasks : Polled(t)' <=> Polled(t)
    BY <2>1 DEF Polled
  <2> QED BY <1>2, <2>1, <2>2
<1>6. CASE LocalEmpty(w) BY <1>2, <1>6 DEF LocalEmpty, Polled
<1>7. CASE StealNothing(w) BY <1>2, <1>7 DEF StealNothing, Polled
<1> QED BY <1>1, <1>3, <1>4, <1>5, <1>6, <1>7 DEF RunLoop

(* do_poll: loading the level begins the poll, and its end is NotReady or  *)
(* Ready of the task in hand.                                              *)
LEMMA DoPollGoes ==
  ASSUME IInv, IInv', UnseenInv, NEW w \in Workers, DoPoll(w)
  PROVE  [Executor!Next]_TaskMap
<1> USE DEF queues, tasks, polls, Goto
<1>t. TypeOK
  BY DEF IInv
<1>p. pc[w] \in PollLabels
  BY DEF DoPoll, BeginPoll, PollNotReady, PollReady, PollErr, Suspend, PollAgain, PollLabels
<1> PICK t : t = task[w]
  OBVIOUS
<1>1. /\ t \in Tasks /\ Live(t) /\ signal_level[t] # 0
      /\ \A v \in Workers : task[v] = t => v = w
  BY <1>p, PolledTask
<1>o. \A u \in Tasks : u # t => (Owned(u)' <=> Owned(u))
  BY DoPollOwners
<1>2. Polled(t) <=> pc[w] \in {"poll", "cas"}
  BY <1>1, <1>p DEF Polled, UnseenInv, PollLabels
<1>3. ASSUME UNCHANGED <<tasks, polls>>, \A u \in Tasks : Owned(u)' <=> Owned(u)
      PROVE  UNCHANGED TaskMap
  <2>1. \A u \in Tasks : Polled(u)' <=> Polled(u)
    BY <1>3 DEF Polled
  <2> QED BY <1>3, <2>1, Invisible
(* The other tasks, if the step changes only what belongs to t and w.      *)
<1>4. ASSUME \A v \in Workers \ {w} : /\ task'[v] = task[v]
                                      /\ init_signal_level'[v] = init_signal_level[v],
             task'[w] \in {t, NoTask},
             \A u \in Tasks \ {t} : /\ future'[u] = future[u]
                                   /\ unseen'[u] = unseen[u]
                                   /\ signal_level'[u] = signal_level[u]
      PROVE  \A u \in Tasks \ {t} : TaskState(u)' = TaskState(u)
  <2>1. \A u \in Tasks \ {t} : Polled(u)' <=> Polled(u)
    BY <1>4, ThreadPoolAssumption DEF Polled
  <2> QED BY <1>4, <1>o, <1>t, <2>1, SameState
<1>5. CASE BeginPoll(w)
  <2>1. /\ future' = [future EXCEPT ![t] = "started"]
        /\ unseen' = [unseen EXCEPT ![t] = FALSE]
        /\ init_signal_level' = [init_signal_level EXCEPT ![w] = signal_level[t]]
        /\ UNCHANGED <<signal_level, task>> /\ pc[w] = "load"
    BY <1>5 DEF BeginPoll, EnterPoll
  <2>2. TaskState(t) = "scheduled"
    <3>1. Owned(t)
      BY <1>p, InHand
    <3> QED BY <1>1, <1>2, <2>1, <3>1, StateCases DEF StateIs
  <2>3. TaskState(t)' = "running"
    <3>1. future'[t] = "started" /\ ~unseen'[t] /\ init_signal_level'[w] # 0
      BY <1>1, <1>t, <2>1 DEF TypeOK
    <3>2. Polled(t)' /\ Live(t)'
      BY <2>1, <3>1 DEF Polled, Live
    <3> QED BY <1>1, <3>1, <3>2, StateCases DEF StateIs
  <2>4. \A u \in Tasks \ {t} : TaskState(u)' = TaskState(u)
    BY <1>4, <1>t, <2>1 DEF TypeOK
  <2>5. Executor!Poll(t)
    BY <1>1, <2>2, <2>3, <2>4, OneGoes DEF Executor!Poll
  <2> QED BY <1>1, <2>5 DEF Executor!Next
<1>6. CASE PollNotReady(w)
  <2>1. UNCHANGED <<tasks, polls>> /\ \A u \in Tasks : Owned(u)' <=> Owned(u)
    BY <1>6, SameOwners DEF PollNotReady, IInv
  <2> QED BY <1>3, <2>1
<1>7. CASE PollErr(w)
  <2>1. UNCHANGED <<tasks, polls>> /\ \A u \in Tasks : Owned(u)' <=> Owned(u)
    BY <1>7, SameOwners DEF PollErr, ProcessExit, IInv
  <2> QED BY <1>3, <2>1
<1>8. CASE PollReady(w)
  <2>1. /\ future' = [future EXCEPT ![t] = "done"] /\ UNCHANGED <<signal_level, unseen>>
        /\ task' = [task EXCEPT ![w] = NoTask]
        /\ init_signal_level' = [init_signal_level EXCEPT ![w] = 0]
        /\ pc[w] = "poll"
    BY <1>8, <1>t DEF PollReady, LeavePoll, LevelAfterReady, TypeOK
  <2>2. TaskState(t) \in {"running", "notified"}
    BY <1>1, <1>2, <1>t, <2>1, StateCases DEF StateIs, TypeOK
  <2>3. TaskState(t)' = "done"
    BY <1>1, <1>t, <2>1, StateCases DEF StateIs, TypeOK
  <2>4. \A u \in Tasks \ {t} : TaskState(u)' = TaskState(u)
    BY <1>4, <1>t, <2>1 DEF TypeOK
  <2>5. Executor!Ready(t)
    BY <1>1, <2>2, <2>3, <2>4, OneGoes DEF Executor!Ready
  <2> QED BY <1>1, <2>5 DEF Executor!Next
<1>9. CASE Suspend(w)
  <2>1. /\ signal_level' = [signal_level EXCEPT ![t] = 0] /\ UNCHANGED <<future, unseen>>
        /\ task' = [task EXCEPT ![w] = NoTask]
        /\ init_signal_level' = [init_signal_level EXCEPT ![w] = 0]
        /\ pc[w] = "cas" /\ signal_level[t] = init_signal_level[w]
    BY <1>9 DEF Suspend, LeavePoll, CompareSucceeds
  <2>2. TaskState(t) = "running"
    <3>1. ~unseen[t]
      BY <2>1 DEF UnseenInv
    <3> QED BY <1>1, <1>2, <2>1, <3>1, StateCases DEF StateIs
  <2>3. TaskState(t)' = "idle"
    <3>1. signal_level'[t] = 0 /\ Live(t)'
      BY <1>1, <1>t, <2>1 DEF TypeOK, Live
    <3>2. ~Owned(t)'
      BY <1>1, <3>1 DEF IInv, OwnInv, LevelZero
    <3>3. ~Polled(t)'
      BY <1>1, <1>t, <2>1 DEF Polled, TypeOK
    <3> QED BY <1>1, <3>1, <3>2, <3>3, StateCases DEF StateIs
  <2>4. \A u \in Tasks \ {t} : TaskState(u)' = TaskState(u)
    BY <1>4, <1>t, <2>1 DEF TypeOK
  <2>5. Executor!NotReady(t)
    BY <1>1, <2>2, <2>3, <2>4, OneGoes DEF Executor!NotReady
  <2> QED BY <1>1, <2>5 DEF Executor!Next
<1>10. CASE PollAgain(w)
  <2>1. /\ unseen' = [unseen EXCEPT ![t] = FALSE]
        /\ init_signal_level' = [init_signal_level EXCEPT ![w] = signal_level[t]]
        /\ UNCHANGED <<signal_level, future, task>>
        /\ pc[w] = "cas" /\ signal_level[t] # init_signal_level[w]
    BY <1>10 DEF PollAgain, EnterPoll, CompareSucceeds
  <2>2. TaskState(t) = "notified"
    <3>1. unseen[t]
      BY <2>1 DEF UnseenInv
    <3> QED BY <1>1, <1>2, <2>1, <3>1, StateCases DEF StateIs
  <2>3. TaskState(t)' = "running"
    <3>1. ~unseen'[t] /\ init_signal_level'[w] # 0 /\ Live(t)'
      BY <1>1, <1>t, <2>1 DEF TypeOK, Live
    <3>2. Polled(t)'
      BY <2>1, <3>1 DEF Polled
    <3> QED BY <1>1, <3>1, <3>2, StateCases DEF StateIs
  <2>4. \A u \in Tasks \ {t} : TaskState(u)' = TaskState(u)
    BY <1>4, <1>t, <2>1 DEF TypeOK
  <2>5. Executor!NotReady(t)
    BY <1>1, <2>2, <2>3, <2>4, OneGoes DEF Executor!NotReady
  <2> QED BY <1>1, <2>5 DEF Executor!Next
<1> QED BY <1>5, <1>6, <1>7, <1>8, <1>9, <1>10 DEF DoPoll

(* notify: from idle it schedules the task, or loses it if it comes from   *)
(* outside the pool; in a poll it is remembered; elsewhere invisible.      *)
LEMMA FetchAddGoes ==
  ASSUME IInv, NEW t \in Tasks, Notifiable(t), FetchAdd(t), UNCHANGED polls,
         NEW pushed \in BOOLEAN, pushed => MustPush(t),
         MustPush(t) /\ ~pushed => ForeignNotifies,
         \A u \in Tasks : Owned(u)' <=> Owned(u) \/ (u = t /\ pushed)
  PROVE  [Executor!Next]_TaskMap
<1> USE DEF FetchAdd
<1>t. TypeOK
  BY DEF IInv
<1>1. \A u \in Tasks : Polled(u)' <=> Polled(u)
  BY DEF Polled, polls
<1>2. \A u \in Tasks \ {t} : TaskState(u)' = TaskState(u)
  BY <1>1, <1>t, SameState DEF TypeOK
<1>3. future'[t] = future[t] /\ unseen'[t] /\ signal_level'[t] # 0
  BY <1>t, RaisedAboveZero DEF TypeOK
<1>4. StateIs(t) /\ StateIs(t)'
  BY StateCases
<1>5. ASSUME TaskState(t)' = TaskState(t) PROVE UNCHANGED TaskMap
  BY <1>2, <1>5 DEF TaskMap
<1>6. CASE future[t] = "done"
  BY <1>3, <1>4, <1>5, <1>6 DEF StateIs
<1>7. CASE Live(t) /\ Polled(t)
  <2>1. TaskState(t) \in {"running", "notified"} /\ TaskState(t)' = "notified"
    BY <1>1, <1>3, <1>4, <1>7, <1>t DEF StateIs, Live, TypeOK
  <2>2. CASE TaskState(t) = "running"
    <3>1. Executor!Notify(t)
      BY <1>2, <2>1, <2>2, OneGoes DEF Executor!Notify
    <3> QED BY <3>1 DEF Executor!Next
  <2>3. CASE TaskState(t) = "notified"
    BY <1>5, <2>1, <2>3
  <2> QED BY <2>1, <2>2, <2>3
<1>8. CASE Live(t) /\ ~Polled(t) /\ Owned(t)
  BY <1>1, <1>3, <1>4, <1>5, <1>8 DEF StateIs, Live
<1>9. CASE Live(t) /\ ~Polled(t) /\ ~Owned(t) /\ MustPush(t)
  <2>1. TaskState(t) = "idle"
    BY <1>4, <1>9 DEF StateIs, MustPush
  <2>2. CASE pushed
    <3>1. TaskState(t)' = "scheduled"
      BY <1>1, <1>3, <1>4, <1>9, <2>2 DEF StateIs, Live
    <3>2. Executor!Notify(t)
      BY <1>2, <2>1, <3>1, OneGoes DEF Executor!Notify
    <3> QED BY <3>2 DEF Executor!Next
  <2>3. CASE ~pushed
    <3>1. TaskState(t)' = "lost" /\ ForeignNotifies
      BY <1>1, <1>3, <1>4, <1>9, <2>3 DEF StateIs, Live
    <3>2. Executor!Lose(t)
      BY <1>2, <2>1, <3>1, OneGoes DEF Executor!Lose
    <3> QED BY <3>2 DEF Executor!Next
  <2> QED BY <2>2, <2>3
<1>10. CASE Live(t) /\ ~Polled(t) /\ ~Owned(t) /\ ~MustPush(t)
  BY <1>1, <1>3, <1>4, <1>5, <1>10 DEF StateIs, Live, MustPush
<1> QED BY <1>6, <1>7, <1>8, <1>9, <1>10 DEF Notifiable, Live

(* A spawn makes a new task a scheduled one.                               *)
LEMMA CreateGoes ==
  ASSUME IInv, NEW t \in Tasks, CreateTask(t), UNCHANGED polls,
         \A u \in Tasks : Owned(u)' <=> Owned(u) \/ u = t
  PROVE  Executor!Next
<1> USE DEF CreateTask
<1>t. TypeOK
  BY DEF IInv
<1>1. \A u \in Tasks : Polled(u)' <=> Polled(u)
  BY DEF Polled, polls
<1>2. \A u \in Tasks \ {t} : TaskState(u)' = TaskState(u)
  BY <1>1, <1>t, SameState DEF TypeOK
<1>3. TaskState(t) = "new"
  BY StateCases DEF StateIs
<1>4. TaskState(t)' = "scheduled"
  <2>1. future'[t] = "spawned" /\ Owned(t)'
    BY <1>t DEF TypeOK
  <2>2. ~Polled(t)'
    BY <1>1, PolledIsOwned DEF Live
  <2> QED BY <2>1, <2>2, StateCases DEF StateIs, Live
<1>5. Executor!Spawn(t)
  BY <1>2, <1>3, <1>4, OneGoes DEF Executor!Spawn
<1> QED BY <1>5 DEF Executor!Next

(* User code on a worker.                                                  *)
LEMMA CallbackGoes ==
  ASSUME IInv, NEW w \in Workers, Callback(w)
  PROVE  [Executor!Next]_TaskMap
<1> USE DEF queues, tasks, polls
<1>i. ASSUME ProcessExit, \A u \in Tasks : Owned(u)' <=> Owned(u)
      PROVE  UNCHANGED TaskMap
  BY <1>i, Invisible DEF ProcessExit, Polled
<1>1. ASSUME NEW t \in GlobalTasks, NotifyGlobal(w, t)
      PROVE  [Executor!Next]_TaskMap
  <2>1. \A u \in Tasks : Owned(u)' <=> Owned(u) \/ (u = t /\ MustPush(t))
    BY <1>1, NotifyGlobalOwners
  <2>2. t \in Tasks /\ Notifiable(t) /\ FetchAdd(t) /\ UNCHANGED polls
    BY <1>1 DEF NotifyGlobal, Tasks
  <2>3. MustPush(t) \in BOOLEAN
    BY DEF MustPush
  <2> QED BY <2>1, <2>2, <2>3, FetchAddGoes
<1>2. ASSUME NEW t \in LocalTasks, NotifyLocal(w, t)
      PROVE  [Executor!Next]_TaskMap
  <2>1. \A u \in Tasks : Owned(u)' <=> Owned(u)
    BY <1>2, NotifyLocalOwners
  <2>2. CASE MustPush(t)
    BY <1>2, <1>i, <2>1, <2>2 DEF NotifyLocal
  <2>3. CASE ~MustPush(t)
    <3>1. t \in Tasks /\ Notifiable(t) /\ FetchAdd(t) /\ UNCHANGED polls
      BY <1>2, <2>3 DEF NotifyLocal, Tasks
    <3> QED BY <2>1, <2>3, <3>1, FetchAddGoes
  <2> QED BY <2>2, <2>3
<1>3. ASSUME NEW t \in LocalTasks, SpawnLocal(w, t)
      PROVE  [Executor!Next]_TaskMap
  <2>1. \A u \in Tasks : Owned(u)' <=> Owned(u) \/ (u = t /\ task[w] \notin LocalTasks)
    BY <1>3, SpawnLocalOwners
  <2>2. CASE task[w] \in LocalTasks
    BY <1>3, <1>i, <2>1, <2>2 DEF SpawnLocal
  <2>3. CASE task[w] \notin LocalTasks
    <3>1. t \in Tasks /\ CreateTask(t) /\ UNCHANGED polls
      BY <1>3, <2>3 DEF SpawnLocal, Tasks
    <3> QED BY <2>1, <2>3, <3>1, CreateGoes
  <2> QED BY <2>2, <2>3
<1> QED BY <1>1, <1>2, <1>3 DEF Callback

(* Every step of the pool is a step of the tasks' specification, or one    *)
(* that it does not see.                                                   *)
LEMMA StepSimulation ==
  ASSUME IInv, IInv', UnseenInv, [Next]_vars
  PROVE  [Executor!Next]_TaskMap
<1> USE DEF queues, tasks, polls
<1>1. ASSUME NEW w \in Workers, RunLoop(w) \/ DoPoll(w) \/ Turn(w) \/ Callback(w)
      PROVE  [Executor!Next]_TaskMap
  <2>1. CASE Turn(w)
    <3>1. UNCHANGED <<tasks, polls>> /\ \A u \in Tasks : Owned(u)' <=> Owned(u)
      BY <2>1, TurnOwners DEF Turn, HandleRemoteSpawn, TurnEvent, TurnReturn
    <3>2. \A u \in Tasks : Polled(u)' <=> Polled(u)
      BY <3>1 DEF Polled
    <3> QED BY <3>1, <3>2, Invisible
  <2> QED BY <1>1, <2>1, RunLoopGoes, DoPollGoes, CallbackGoes
<1>2. ASSUME NEW t \in GlobalTasks, Spawn(t) PROVE Executor!Next
  BY <1>2, SpawnOwners, CreateGoes DEF Spawn, Tasks
<1>3. ASSUME NEW t \in Tasks, ForeignNotify(t) PROVE [Executor!Next]_TaskMap
  <2>1. /\ Notifiable(t) /\ FetchAdd(t) /\ ForeignNotifies
        /\ UNCHANGED <<active, queues, pc, polls>>
    BY <1>3 DEF ForeignNotify
  <2>2. \A u \in Tasks : Owned(u)' <=> Owned(u)
    BY <2>1, FetchAddOwners DEF Notifiable
  <2> QED BY <2>1, <2>2, FetchAddGoes
<1>4. CASE BeginShutdown \/ UNCHANGED vars
  <2>1. UNCHANGED <<queues, tasks, polls>>
    BY <1>4 DEF BeginShutdown, vars
  <2>2. /\ \A u \in Tasks : Owned(u)' <=> Owned(u)
        /\ \A u \in Tasks : Polled(u)' <=> Polled(u)
    BY <2>1, SameOwners DEF IInv, Polled
  <2> QED BY <2>1, <2>2, Invisible
<1> QED BY <1>1, <1>2, <1>3, <1>4 DEF Next

(* The pool keeps TaskStates for every number of workers and tasks: a task *)
(* is queued because it was spawned or notified, polled by one worker, and *)
(* polled again exactly if it was notified during the poll; and unless     *)
(* threads outside the pool notify, no notification loses it.              *)
THEOREM PoolImplementsTasks == Spec => ImplementsTasks
<1>1. Init => Executor!Init
  <2> SUFFICES ASSUME Init PROVE \A t \in Tasks : TaskState(t) = "new"
    BY DEF Executor!Init, TaskMap
  <2> QED BY StateCases DEF Init, StateIs
<1>2. Init => UnseenInv
  BY DEF Init, UnseenInv
<1> QED BY <1>1, <1>2, StepSimulation, UnseenStep, Inductive, PTL
        DEF Spec, ImplementsTasks, Executor!Spec
===============================================================================
