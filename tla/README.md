# A TLA+ verification of complete-io

complete-io is a small asynchronous I/O library: an event queue over `epoll`
(and one over Windows I/O completion ports), sockets whose operations are
futures, and a thread pool that runs futures on the threads that turn the
queue. This directory models its concurrent parts in TLA+, checks them with
TLC and proves their main invariants with TLAPS. Paths below are relative to
`src/src/` of the repository.

## The system and its parts

| Part | State | Operations | Talks to |
|---|---|---|---|
| Thread pool, `evloop/threadpool/mod.rs` | `active`, the list of workers; per worker a deque of global tasks and a queue of local tasks; per task a future in an `UnsafeCell` and an atomic `signal_level` | `spawn_future`, `spawn_local_future`, the loop of `run_worker`, `do_poll`, `notify`, `handle_remote_spawn`, `begin_shutdown` | posts and receives one custom event; turns the queue; runs user futures, which call `notify` and spawn |
| Custom events, `epoll/mod.rs` | an eventfd, its one-shot registration, a `SegQueue` of data | `new_custom_event`, `post_custom_event`, `CustomEventRegistrationHandler::handle_event` | the kernel; the handler given by the user (the pool's) |
| Readiness of sockets, `epoll/mod.rs` | `FuturesRegistration`: the list of interests and the mask armed in the kernel; per interest a flag and a task | `add_interest`, `handle_event`, `FutureInterest::poll`, `register` | the kernel; the futures below |
| Socket futures, `epoll/net.rs` | `Pending` with an optional interest | the polls of `Accept`, `Connect`, `TcpRead`, `TcpWrite`, `RecvFrom`, `SendTo` | `FuturesRegistration`, the socket |
| `EventQueue::run`, `queue.rs`, with `Interrupt` of `epoll/mod.rs` | the flag of `InterruptNotify`, the thread id of `Interrupt`, the handler of SIGUSR2 | `run`, `notify`, `reset`, `interrupt`, `turn_interruptible` | the kernel's signals; the queue |
| Registrations' lifetime, `epoll/mod.rs` | a weak pointer kept as a number in the kernel, the references to the `Arc` it came from | `register_fd_raw`, `Drop`, `modify`, the upgrade in `Inner::poll`, a socket's construction and drop | the kernel, the sockets' file descriptors, the list of interests |
| Completion ports, `iocp/` | reference counts of `OverlappedTask`, the futures' states and buffers | `for_operation`, `poll_iocp`, `poll_socket`, `cancel_socket` | the kernel |
| Tokio adaptor, traits | none | forwarding | |

Everything hard here comes from threads. Workers, the threads that spawn, the
threads that notify and the kernel interleave at every step; a wake-up is a
race between a task that is about to sleep and a thread that is about to notify
it, in four places that solve it four ways (signal level, one-shot event, list
of interests, flag and signal). `PROJECT.json` lists these hazards at their
lines.

What makes each part correct:

* pool: one worker at a time polls a future; a pointer posted to the queue
  becomes a task once; a notification is followed by a poll; a resolved future
  is left alone; a spawned future is polled; shutdown ends;
* custom events: the handler is called with each datum once, in order, by one
  thread at a time; no datum is stranded;
* readiness: a listed interest is always looked after; a future whose socket is
  ready is polled, in the task it is in now; Connect tells what became of the
  connection;
* run: a notification makes `run` poll; an interrupt reaches a waiting thread;
* lifetime and completion ports: nothing is used after it is freed, or freed
  twice; a socket in use stays registered, and what the drop of another can do
  to it is limited.

## Modules

| Module | What it is |
|---|---|
| `ThreadPool`, `MCThreadPool` | the pool; the second adds the symmetry TLC uses |
| `ThreadPoolProofs` | its theorems |
| `QueueLemmas` | what Append, Head and Tail do to the elements of a queue without repetitions |
| `TaskStates` | what an executor promises its futures, refined by `ThreadPool` and by `QueueRun` |
| `PostChannel` | what a custom event promises: a first-in first-out channel |
| `CustomEvent` | the epoll implementation, a refinement of `PostChannel` |
| `CustomEventProofs` | its theorems, the refinement among them |
| `Interests`, `MCInterests` | readiness and the socket futures; the second says what each future waits for |
| `InterestsProofs` | its theorems |
| `Registrations`, `MCRegistrations` | registrations from EPOLL_CTL_ADD to EPOLL_CTL_DEL, and the loop of `Inner::poll`; the second gives the waits |
| `RegistrationsProofs` | its theorems |
| `QueueRun` | `EventQueue::run`, `InterruptNotify`, `Interrupt` |
| `QueueRunProofs` | its theorems |
| `Overlapped` | the operations of the completion port and their futures |
| `OverlappedProofs` | its theorems |

`ThreadPool` uses the custom event as an abstract queue, `posted`; that the
epoll queue may be seen so is what `CustomEvent => PostChannel` says.

Operators that stand directly before a definition and do the same thing wrong
(`AlwaysPush` before `MustPush`) are plausible mistakes: no action uses them,
and with the definition replaced by one of them TLC finds the property broken
that `PROJECT.json` names under "mutants".

### ThreadPool

A task goes around: `Spawn` boxes it and posts its pointer; a turning worker's
`HandleRemoteSpawn` pushes it on that worker's deque; `StealData` takes it in
hand; `BeginPoll` loads the signal level; the poll ends in `PollReady`,
`PollErr` or `PollNotReady`; the compare-and-exchange either suspends it
(`Suspend`, level 0) or finds a new level (`PollAgain`). `NotifyGlobal` raises
the level and, from 0, pushes the task on the notifying worker's deque. Local
tasks take the same way through `local_work_queue`, and the code's
`unimplemented!()` and `RefCell` panics are there as `ProcessExit`.

`pc[w]` has one label for each place between two accesses to shared state:
`active`, `local`, `steal`, `turn` (no timeout) and `turn0` (zero), `dispatch`
(the handlers of a turn's events), and `load`, `poll`, `cas` inside `do_poll`.
User code is nondeterministic: within a poll or a handler it notifies any task
that has been polled and spawns any task not yet spawned. What a future's drop
at the end of `do_poll` does counts as done within the poll. `unseen[t]` is a
history variable: t was notified since its latest poll began.

Abstractions: reference counts (a task lives while something names it); one
pool; `SegQueue` and the deque as sequences (`steal_weak` fails with
`Inconsistent` at will); the overflow of a `usize` signal level. Notifications
are unlimited: the code asks of a level only whether it is 0 and, in `do_poll`,
whether it is still the one loaded, so `Raised` counts levels round above 0, and
leaves out a step that would bring back a loaded one.

The refinement maps each task to its state in `TaskStates`: it is `running`, or
`notified` if `unseen`, from the load of its level to the end of `do_poll`;
otherwise `scheduled` while it is in a queue, in hand or posted, and `idle` when
it is nowhere. A repeated poll is under way at once (`Again` is "running"): the
worker keeps the task in hand. A task that is nowhere with a level above 0 is
`lost`, which only a notification from outside the pool can do; `MayLose` is
`ForeignNotifies`, so the refinement also says that nothing else does. The
mapping does not tell the two queues and the posted pointers apart; that a task
is in one of them only is `OwnedOnce`.

Bounds: `MaxSignals`, at least 2, is where levels begin to be counted round; it
cuts no behaviour off. Two workers are enough for a poll to race a poll, two global
tasks for one to wake the other while both are queued.

Fairness: each worker's own steps are weakly fair (its thread runs, a poll
returns, handlers return), but a worker that waits in `turn` without an event
is owed nothing. `NoLostWakeup` is what the safety part of the protocol
contributes to `WakeupSeen`: the worker that will poll again is awake. Strong
fairness of `StealData`: a weak compare-and-swap does not fail for ever. Strong fairness of `HandleRemoteSpawn` over all workers: the
custom event is in the kernel's ready list while data is posted, the list is
served in turn, and `EveryPostHandled` of `CustomEvent` is that promise. `PollErr`,
`ProcessExit` and new notifications are never forced.

`WakeupSeen` and `SpawnedIsPolled` have a premise of their own, `PollsEnd`: every
worker is outside `do_poll` again and again. Nothing in the code sees to it. A
future that is notified in each of its polls, for instance by itself, keeps
`do_poll` in its loop, and the tasks behind it in the deque are never polled;
without the premise TLC finds both properties violated by just that.

### CustomEvent and PostChannel

One label per access: `turn`, `read` (the eventfd), `drain` (try_pop), `call`,
`handler` (the user's handler runs), `rearm`; `panicked` when the handler
unwound past the re-arming. Posting is two steps, `Push` and `Write`, with any
interleaving in between; a `Write` on a full eventfd fails and leaves the datum
queued. `EventFdMax` is 2^64-2 in the kernel; the run takes 2 so that the
failure happens. A datum is posted once (the pool posts the pointers of
`into_raw`). Kernel behaviour that is assumed: an `EFD_SEMAPHORE` read takes 1,
EPOLLONESHOT disarms when it reports, EPOLL_CTL_MOD re-arms and looks again.

The refinement maps `chan` to what `try_pop` has just taken out, followed by the
queue. Push is `Post`, the call of the handler is `Deliver`, everything else
stutters. `NoStrandedDatum` is the safety half of `EveryPostHandled`: a token
that accounts for a queued datum is in an eventfd the kernel is armed for, or
will be when the turner that has read or is re-arming it does so.

### Interests

`level` is what the socket would not block on; `armed` and `mask` are the
one-shot registration; `event[w]` is what `epoll_wait` gave turner w and
`handle_event` has not dealt with yet; `interests` is the list, and `orphans`
the directions of entries whose future is gone. The poll of a future is spread
over `Poll` (is the interest fired?), the system call, `Register` or
`AddInterest`, so that events come in between. `handle_event` and `add_interest`
hold the list's mutex throughout and are one step each. The socket becomes ready
at will and readiness is used up only by system calls that succeed; a peer that
has gone makes it ready for good.

`Connects` names the Connect, if the run starts with an unconnected socket,
which reports EPOLLHUP. `FirstConnect` is the first `connect(2)` (EINPROGRESS,
or an answer at once), `SecondConnect` the one after the interest has fired,
which fails with EALREADY if there is no answer yet. `stale` remembers that a
turner held an event from before the first `connect(2)`: such an event fires
the interests of a connection it knows nothing of.

`Move` takes a future to another task; `registered[o]` says whether the interest
holds the task the future is in now, and only then a fired interest sets
`notified[o]`.

Fairness: notified tasks are polled (the executor is another module's subject),
turners handle the events they were given, some turner reports a reportable
event. Events, new operations and drops are never forced.

### Registrations

One socket with its one registration is one element of `Sockets`, which also
stands for the weak pointer in the kernel. `phase` follows the owner: `Create`
(socket or accept, which takes a number), `Register` or `RegisterFails`,
`SetNonblocking` or `NonblockingFails`, then in the order of the fields `DropStd`
(the close) and `DropRegistration`. `entry[f]` is the kernel's pointer for number
f; EPOLL_CTL_MOD and EPOLL_CTL_DEL act on whatever is there, since the code
gives them only the number. `freed` are the pointers whose weak reference was
given back, after which the memory may be gone. A turner's `buffer` is what
`epoll_wait` returned; each event is upgraded (`Upgrade`), handled (`HandleLast`,
`HandleRearm`, or `HandlePanics` when the list's mutex is poisoned or
EPOLL_CTL_MOD fails) and dropped (`DropUpgraded`), which may be the drop of the
last reference. `UpgradeFreed` is the undefined behaviour: the turner is lost.
What a handler fires is abstracted to whether the list is empty afterwards.
A registration whose list never held an interest may still be reported
(EPOLLHUP), so `EpollWait` takes any enabled entries.

A number may be given out again as soon as its descriptor is closed, and so
before the EPOLL_CTL_DEL of its last owner. `reused` is a history variable: the
pairs of a registration and the socket that was given its number while it was
still alive; `Before(s)` are those of s. They are the only ones that can reach
an open socket: by a late re-arming, which turns the entry into their own, and
by the drop, which takes the entry away. So `OpenSocketsRegistered`,
`PanicsOnlyAfterClose` and `UpgradesLive` name them as the exceptions, and rule
everything else out; each exception is reached, and `registrations_reuse` shows
one of them. `UpgradesLive` makes another exception of a socket whose
`set_nonblocking` failed: there the registration is dropped first, its
EPOLL_CTL_DEL succeeds, and a turner that has fetched an event with the pointer
upgrades freed memory.

`Interrupted` is EINTR, which sends the turner round the loop (`WaitAgain`) into
a wait with the whole timeout.

Bounds: two sockets and two numbers let one socket live through the drop of the
other, with its number or with another, two turners hold events of one socket at the same time (it was re-armed),
and a buffer of two loses the second event to a panic in the first. `Word` is
2^32 in the code; the run takes 4096, so that 0, 1 and 3 seconds are nothing, a
wait below half the word, and one that becomes negative.

`InterestsAwaited` joins the two parts an open socket with interests relies on:
its number is armed in the kernel, or its event is in the buffer or the handler
of a turner. The buffer of a turner that panicked over another socket, or came
upon freed memory, is lost with what is in it; `EventsHandled` makes the
exception of just the events such a turner had fetched.

Fairness: dispatching goes on, handlers return, the loop waits again after an
EINTR, and the timer of a wait goes off if no signal ends that wait before.
Neither events nor drops are forced. `queue.rs:19` promises that `turn` blocks
"for at most `max_wait`". The code breaks it in two ways: a wait of 2^31
milliseconds may become negative, which is no limit, and signals that keep
coming start the wait again and again. `TurnsReturn` is what is left of the
promise, with both as premises, and fails without either.

### QueueRun

`run` with `turn_interruptible(None, ..)` as it is in epoll: `Reset`,
`BeginPoll`, the end of the poll, `Install` (call_once), `StoreThreadId`,
`EnterWait`, then `Events` or `TakeSignal`, `ClearThreadId`, and `TurnReturn`
after the handlers. `notify` is `Notify` (the swap), `Interrupt` (the load) and
`Kill`, with everything in between; runners call it too, for their own task or
another's. A signal is pending until taken; taken outside `wait` it is lost.
`late[r]` is a history variable: the flag was set by a notification that found
the runner waiting.

Fairness: threads run, signals are delivered; `Run` is strongly fair because a
poll may be held up by its own calls of notify, though not for ever. No event is
promised.

`run` is an executor of one future and refines `TaskStates` too: the poll is
under way from the `reset` that called for it, and otherwise the flag tells
`scheduled` from `idle`. A notification during a poll leaves it `scheduled`
(`Again`), and none is lost. The refinement says when the future may be polled,
not that it is: between `scheduled` and the poll lies the turn that
`queue_run_wakeup` shows may never return.

### Overlapped

One operation per future: `Submitting` is `OverlappedTask::new` and
`for_operation` around the system call, which fails, completes at once or
pends. A later poll is `Register` and then `PollNotReady` or `PollReady`, with
the kernel and the port in between. `operation[o]` follows the operation through
the kernel and `poll_iocp`: `outstanding`, `ended` (Internal has left
STATUS_PENDING), `queued`, `dequeued`, `notified`. An operation that completes
at once has a packet queued too. `refs[o]` counts the references of the `Arc`,
the one given away by `mem::forget` included. A future may `Move` from one task
to another between polls; `owner` is the one that polls it.

The six futures are one state machine here; Accept and Connect differ in having
no Drop, which `Cancels` says. Assumed of the kernel: CancelIoEx succeeds only
while the operation is outstanding. Fairness: notified tasks are polled,
packets of ended operations are queued, and some thread keeps turning the port.
That an operation ends is not assumed. `NoLostCompletion` is the safety half of
`CompletionWakes`: as long as a future sleeps without having been notified, its
packet is still to be acted on, and will notify the task the future is in.
Operations do not interact, so two, one
of each kind, are enough for everything, and two tasks for a move.

## Runs

| Run | Question | Answer |
|---|---|---|
| `threadpool_safety` | Can two workers poll one future, a task be queued twice, a resolved future be polled, or a task be polled without a reason, with notifications from anywhere? | No (241,394 states up to symmetry) |
| `threadpool_liveness` | With notifications from workers, and if polls end, is every notification followed by a poll and every spawned future polled? Does a worker that keeps getting events look after its local tasks and a shutdown? | Yes (201,790 states) |
| `custom_event` | Is a custom event a channel with an exclusive handler, overflowing eventfd included? | Yes (4,599 states) |
| `interests_clones` | Two readers and a writer on clones, two turners, drops and moves: is every listed interest looked after, and the present task registered? | Yes (963,254 states) |
| `interests_duplex` | A Connect, then one reader and one writer, one turner: does readiness for one of them reach it, and does Connect fail only for a reason? | Yes (5,263 states) |
| `interests_accepts` | Two accepts of one listener: is a future whose socket is ready served? | No |
| `interests_both` | Reader and writer ready together: are they served? | No |
| `queue_run` | Is a notification ever forgotten by the flag, an interrupt of a waiting thread lost, a signal sent too early, the future polled without a notification? | No (43,045 states) |
| `queue_run_wakeup` | Does every notification make `run` poll? | No |
| `overlapped` | Are OverlappedTasks freed exactly when nobody will use them, does no future answer early, does each completion reach its future, the task it is in included? | Yes (10,208 states) |
| `registrations` | Two sockets, two turners, numbers reused: is a pointer upgraded after it was freed, an open socket's entry lost, or does its handler panic, other than through one that had its number before? Are its interests always armed or under way, do events arrive, and timeouts that no signal restarts? | No, no, no, yes, yes, yes (280,033 states) |
| `registrations_reuse` | Does EPOLL_CTL_DEL always remove the registration's own entry? | No |

The two runs of `ThreadPool` take under three minutes each, `registrations` two
and `interests_clones` one; the others take seconds. Deadlock is not checked, as
every one of these systems may come to rest: all tasks done, workers exited,
runs returned, sockets gone.

The disagreements between code and documentation, with the quoted lines, are in
`PROJECT.json` under "findings":

* READ and WRITE in one event fire nobody, since an interest fires only when it
  `contains` the whole event; the registration is re-armed and the same event
  returns at once, for ever;
* of two futures fired by one event, the one that then would block only
  registers its task with an interest that has left the list;
* a notification between `reset` and `epoll_pwait` (also one that the future
  makes itself, in its poll) interrupts nothing, and since the flag stays set,
  neither does a later one;
* a socket closes before its EPOLL_CTL_DEL, which then removes the registration
  of whoever has been given the number: that socket is deaf from then on, and
  the weak reference that is dropped with "epoll_event is gone" is not the one
  that has just left the kernel.

`interests_duplex` gives the limits of the second: with two turning threads, a
second future of the same direction, drops, or moves (the task of a fired
interest may be the one the future has left), `WaitersAreListed` fails. Its
properties except an event from before the connection (`stale`); without that
exception all three fail: the event fires Connect's interest, and the second
`connect(2)` finds the first still going on.

Some behaviours are stated by what remains true of them. A local task spawned
while a global one runs stays queued while its worker sleeps in `turn(None)`,
and a worker that should shut down sleeps on; `EventsRouse` says that it happens
to no worker that keeps getting events, and nothing is promised to one that
gets no more. The starving of tasks behind a future that is notified in every
poll is the premise `PollsEnd`, and the two ways in which a turn outlasts its
`max_wait` are the premises of `TurnsReturn`.

## Proofs

All theorems hold for every value of the constants, under the named assumptions
of the modules. Each proof module has one inductive invariant, shown to hold
initially and to be kept by every action (one step per action), from which the
theorems follow.

* `ThreadPoolProofs`. `ExclusivePoll` and `OwnedOnce` are not inductive: they
  depend on the signal level (only a task that is nowhere has level 0 and is
  pushed), on resolved futures staying above 0, and on unspawned tasks being
  nowhere. The invariant says exactly where a task may be in each state of its
  future. Proved: `TypeCorrect`, `PollIsExclusive`, `TasksOwnedOnce`,
  `DoneStaysDone`. With the further assumption that no thread outside the pool
  notifies, `SuspendedTasksAtZero` and `WakeupsAreKept`; without it they are
  false, as a foreign `notify` of a suspended task panics after raising the
  level. `WakeupsAreKept` needs two more invariants: a worker that waits in `turn`
  without a timeout, or has left, has an empty deque, since nobody else pushes on
  it (`SleepersAreEmpty`); and a task that is posted or in a queue of local tasks
  has not been notified since, so that a missed notification is in a hand or a
  deque (`FreshQueues`).
  `PoolImplementsTasks` is the refinement of `TaskStates`, with no assumption
  about who notifies. It needs that a task in a queue or a hand has not resolved
  (`OwnedAlive`) and that for a task in hand `unseen` is the same as a level
  that differs from the one loaded (`UnseenInv`): the compare-and-exchange,
  which knows nothing of notifications, then decides as the abstract executor
  does. Each action is shown to be one abstract step of one task, a `Discard` of
  an exiting worker's tasks, or no step; a step leaves the states of all other
  tasks alone because no task is in two hands. `QueueLemmas` has the facts about
  queues.
* `CustomEventProofs`. The registration is a mutex (`HandlerExclusive`); while a
  turner holds it, nobody else takes tokens or data. The one-shot event is never
  gone: it is armed, or there is the turner that will re-arm it, or has panicked
  (`EventIsSomewhere`). From these follow that the types are kept
  (`TypeCorrect`), that the token is there (`ReadsSucceed`), that no datum is
  stranded (`NothingStranded`), and the refinement `CustomEventIsChannel`.
* `InterestsProofs`. `InterestCovered` is inductive for whole directions, not
  for single futures: `add_interest` relies on another entry of the direction
  being covered, orphans included. Proved: `TypeCorrect`, `EntriesAreCovered`,
  `PresentTaskIsRegistered`. A second invariant, under the premise `Lone` (one
  future per direction, one turner, no drops or moves), says that whatever has
  been fired finds the socket ready; from it follow `LoneWaitersAreListed` and
  `LoneConnectFailsForAReason`. The two invariants together give
  `LoneReadyIsReported`, the safety half of `LoneDirectionServed`: whenever the
  direction of a waiting future alone is ready, an event is under way or the
  kernel is armed to report what fires it. The run `interests_both` shows why
  "alone" is needed.
* `RegistrationsProofs`, with no premise about the reuse of numbers. The sockets
  that share a number are the one whose descriptor is open and registrations
  that were alive when it was given the number: `HeirsKnow` says that it has
  them in `Before`. Hence the entry of a number leads to that socket or to one
  of these (`EntriesHaveOwners`), and a re-arming or an EPOLL_CTL_DEL that meets
  the entry of an open socket without being its own is of a socket in `Before`.
  Those are past their close (`BeforeIsPast`), so that one which has died stays
  dead, and an entry that its drop took away never comes back
  (`PoisonedHaveNone`). Proved: `TypeCorrect`, `PointersLive`, `SocketsHeard`,
  `OpenSocketsDoNotPanic`. `InterestsAreAwaited` follows a one-shot event from
  the kernel through a turner's buffer and handler back to the kernel; it needs
  that a buffer is empty when `epoll_wait` fills it, and that the EPOLL_CTL_MOD
  of an open socket finds its entry. `TimeoutExact` is the arithmetic of
  `timeout_ms` for every width of word.
* `QueueRunProofs`. `TypeCorrect`; `NotificationsAreKept`; `InterruptsInTime`,
  which needs that a late runner is waiting and so has its thread id stored;
  `HandlerComesFirst`, by way of the load that saw the thread id.
  `RunImplementsTasks` is the refinement of `TaskStates`: only `Reset`, the two
  ends of a poll and `Notify` change the state of a runner's future, each of that
  one only.
* `OverlappedProofs`. `TypeCorrect`, `RefsExact` and `BuffersHeld`; beside the
  properties themselves the invariant needs that a future which has not been
  polled has no operation, and that futures without an answer hold their buffers.
  `CompletionsKept` needs what a poll in progress may rely on
  (`WaiterRegistered`): once it has registered, either the packet is still to be
  acted on and names its task, or `Internal` will tell it that the operation has
  ended.

Only model-checked: the liveness properties, as liveness under fairness is
beyond the prover. For most of them the safety half is proved: that a
notification, a datum, an interest or a completion is always in the hands of
someone who will act on it.

| Liveness, checked | Safety half, proved |
|---|---|
| `WakeupSeen` (pool) | `WakeupsAreKept` |
| `BusyQueueWakes` | `NotificationsAreKept`, `InterruptsInTime` |
| `EveryPostHandled` | `NothingStranded` |
| `LoneDirectionServed` | `LoneReadyIsReported` |
| `CompletionWakes` | `CompletionsKept` |
| `EventsHandled` | `InterestsAreAwaited` |
| `TurnsReturn` | `TimeoutExact` |
| `SpawnedIsPolled`, `EventsRouse` | none |

Every invariant that a run checks is proved, and so are the three refinements.

## Not modelled, and the plan

What could still be done:

1. A composition of `ThreadPool` with `CustomEvent` in place of `posted`. As it
   is, the two meet in `PostChannel`, whose `Post` and `Deliver` are what `Spawn`
   and `HandleRemoteSpawn` do to `posted`, and in `EveryPostHandled`, which is the
   strong fairness of `HandleRemoteSpawn`. Composed, the instance of
   `threadpool_liveness` grows beyond what a run can explore.
2. `Overlapped`, extended by what surrounds the loop of `poll_iocp`: custom
   events of the port, and a port that is dropped with packets queued. The
   Windows half does not build at this commit (it has no `Interrupt`), so it
   comes last. The model already shows, but no property forbids, that the drop
   of a pending future frees its buffers when CancelIoEx returns (or, for Accept
   and Connect, without cancelling) although the kernel may still write to them.

Left out of `Inner::poll`: errors of `epoll_wait` other than EINTR, which are
returned before anything has changed, and a SIGUSR2 handler the program had
before (`OLD_SIGUSR2_HANDLER`).

Left out for good: the tokio adaptor, which forwards; the traits; `EventLoop::run`
of the pool, which is a spawn and a oneshot channel; several pools in one
process; what is in buffers and addresses, which no property here tells apart;
logging.
