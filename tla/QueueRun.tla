------------------------------ MODULE QueueRun ------------------------------
(***************************************************************************)
(* EventQueue::run of src/queue.rs over the Epoll of src/epoll/mod.rs: a   *)
(* thread that drives a future of its own, polls it when InterruptNotify   *)
(* says so and otherwise waits in turn_interruptible, from which SIGUSR2   *)
(* is to wake it.                                                          *)
(*                                                                         *)
(* Runners are the threads inside run, each with its future, its           *)
(* InterruptNotify and its Interrupt; Others are threads that only notify. *)
(* pc[r] is where a runner stands; notify, which any thread may call, is   *)
(* spread over Notify, Interrupt and Kill.  The kernel's part is external: *)
(* a signal is pending until the thread it was sent to takes it, and it    *)
(* ends an epoll_pwait only if that is where the thread is.  The events    *)
(* that epoll_pwait reports come at any time, or never.                    *)
(***************************************************************************)
EXTENDS Naturals

CONSTANTS
  Runners,  \* threads that have called run
  Others,   \* threads that have not
  NoOne     \* not in a call of notify

Threads == Runners \cup Others

ASSUME QueueRunAssumption ==
  /\ Runners \cap Others = {}
  /\ NoOne \notin Threads

VARIABLES
  notified,      \* InterruptNotify.notified
  unseen,        \* notified since the latest poll began (history)
  late,          \* the flag was set while its runner was waiting (history)
  thread_id,     \* has the runner stored its thread in the Interrupt?
  signal,        \* is a SIGUSR2 pending for the runner's thread?
  installed,     \* does the process have interrupt_sig_handler?
  pc,
  interrupting,  \* the runner whose flag a thread has set, before the load
  killing        \* the runner whose thread it found, before pthread_kill

flags == <<notified, unseen, late>>
calls == <<interrupting, killing>>
vars  == <<flags, thread_id, signal, installed, pc, calls>>

(* Between the two stores to thread_id.                                    *)
Exposed == {"enter", "wait", "interrupted", "events"}
Labels == Exposed \cup {"reset", "begin", "poll", "install", "store",
                        "dispatch", "returned"}

Init ==
  /\ notified = [r \in Runners |-> TRUE]
  /\ unseen = [r \in Runners |-> FALSE]
  /\ late = [r \in Runners |-> FALSE]
  /\ thread_id = [r \in Runners |-> FALSE]
  /\ signal = [r \in Runners |-> FALSE]
  /\ installed = FALSE
  /\ pc = [r \in Runners |-> "reset"]
  /\ interrupting = [t \in Threads |-> NoOne]
  /\ killing = [t \in Threads |-> NoOne]

-----------------------------------------------------------------------------
Goto(r, label) == pc' = [pc EXCEPT ![r] = label]

Calling(t) == interrupting[t] # NoOne \/ killing[t] # NoOne

(* What a poll that is not ready leaves in the flag.                       *)
ClearAfterPoll(r) == FALSE           \* mutation: reset on the wrong side
KeepAfterPoll(r)  == notified[r]

StoreFirst == "store"                \* mutation: no handler for SIGUSR2
InstallFirst == "install"

(* thread_id while epoll_pwait waits.                                      *)
TakenBack == FALSE                   \* mutation: cleared before the wait
Stored == TRUE

(* What the runner does after a turn.                                      *)
TurnAgain == "install"               \* mutation: reset outside the loop
ResetAgain == "reset"

(* What the runner does after a reset: poll, if that took a notification.  *)
PollAnyway(r)   == "begin"           \* mutation: a poll after every turn
PollIfCalled(r) == IF notified[r] THEN "begin" ELSE InstallFirst

-----------------------------------------------------------------------------
(* run.                                                                    *)

Reset(r) ==
  /\ pc[r] = "reset"
  /\ notified' = [notified EXCEPT ![r] = FALSE]
  /\ Goto(r, PollIfCalled(r))
  /\ UNCHANGED <<unseen, late, thread_id, signal, installed, calls>>

BeginPoll(r) ==
  /\ pc[r] = "begin"
  /\ unseen' = [unseen EXCEPT ![r] = FALSE]
  /\ Goto(r, "poll")
  /\ UNCHANGED <<notified, late, thread_id, signal, installed, calls>>

PollNotReady(r) ==
  /\ pc[r] = "poll"
  /\ ~Calling(r)
  /\ notified' = [notified EXCEPT ![r] = KeepAfterPoll(r)]
  /\ Goto(r, InstallFirst)
  /\ UNCHANGED <<unseen, late, thread_id, signal, installed, calls>>

(* Ready or an error: run returns, and the notify handles may live on.     *)
PollReady(r) ==
  /\ pc[r] = "poll"
  /\ ~Calling(r)
  /\ Goto(r, "returned")
  /\ UNCHANGED <<flags, thread_id, signal, installed, calls>>

-----------------------------------------------------------------------------
(* Inner::poll with an interrupt and no timeout.                           *)

(* SIGUSR2_INSTALL.call_once                                               *)
Install(r) ==
  /\ pc[r] = "install"
  /\ installed' = TRUE
  /\ Goto(r, "store")
  /\ UNCHANGED <<flags, thread_id, signal, calls>>

StoreThreadId(r) ==
  /\ pc[r] = "store"
  /\ thread_id' = [thread_id EXCEPT ![r] = Stored]
  /\ Goto(r, "enter")
  /\ UNCHANGED <<flags, signal, installed, calls>>

EnterWait(r) ==
  /\ pc[r] = "enter"
  /\ Goto(r, "wait")
  /\ UNCHANGED <<flags, thread_id, signal, installed, calls>>

(* epoll_pwait returns events.                                             *)
Events(r) ==
  /\ pc[r] = "wait"
  /\ late' = [late EXCEPT ![r] = FALSE]
  /\ Goto(r, "events")
  /\ UNCHANGED <<notified, unseen, thread_id, signal, installed, calls>>

(* The thread takes the signal: interrupt_sig_handler does nothing itself, *)
(* and the epoll_pwait it comes upon, if it does, fails with EINTR.        *)
TakeSignal(r) ==
  /\ signal[r]
  /\ signal' = [signal EXCEPT ![r] = FALSE]
  /\ late' = [late EXCEPT ![r] = FALSE]
  /\ pc' = IF pc[r] = "wait" THEN [pc EXCEPT ![r] = "interrupted"] ELSE pc
  /\ UNCHANGED <<notified, unseen, thread_id, installed, calls>>

(* The thread handle is removed; an interrupted turn returns Ok(0) and     *)
(* another one calls the handlers of its events.                           *)
ClearThreadId(r) ==
  /\ pc[r] \in {"interrupted", "events"}
  /\ thread_id' = [thread_id EXCEPT ![r] = FALSE]
  /\ Goto(r, IF pc[r] = "events" THEN "dispatch" ELSE ResetAgain)
  /\ UNCHANGED <<flags, signal, installed, calls>>

TurnReturn(r) ==
  /\ pc[r] = "dispatch"
  /\ ~Calling(r)
  /\ Goto(r, ResetAgain)
  /\ UNCHANGED <<flags, thread_id, signal, installed, calls>>

-----------------------------------------------------------------------------
(* InterruptNotify::notify, of runner r's task by thread t.  A runner      *)
(* calls it in polls and in event handlers, for its own task too.          *)

Notify(t, r) ==
  /\ t \in Runners => pc[t] \in {"poll", "dispatch"}
  /\ ~Calling(t)
  /\ notified' = [notified EXCEPT ![r] = TRUE]
  /\ unseen' = [unseen EXCEPT ![r] = TRUE]
  /\ late' = [late EXCEPT ![r] = @ \/ (~notified[r] /\ pc[r] = "wait")]
  /\ interrupting' = [interrupting EXCEPT
                        ![t] = IF notified[r] THEN NoOne ELSE r]
  /\ UNCHANGED <<thread_id, signal, installed, pc, killing>>

(* Interrupt::interrupt: load thread_id, and give up if it is 0.           *)
Interrupt(t) ==
  /\ interrupting[t] # NoOne
  /\ interrupting' = [interrupting EXCEPT ![t] = NoOne]
  /\ killing' = IF thread_id[interrupting[t]]
                THEN [killing EXCEPT ![t] = interrupting[t]]
                ELSE killing
  /\ UNCHANGED <<flags, thread_id, signal, installed, pc>>

(* pthread_kill of the thread that was there at the load.                  *)
Kill(t) ==
  /\ killing[t] # NoOne
  /\ signal' = [signal EXCEPT ![killing[t]] = TRUE]
  /\ killing' = [killing EXCEPT ![t] = NoOne]
  /\ UNCHANGED <<flags, thread_id, installed, pc, interrupting>>

-----------------------------------------------------------------------------
Run(r) ==
  \/ Reset(r) \/ BeginPoll(r) \/ PollNotReady(r) \/ PollReady(r)
  \/ Install(r) \/ StoreThreadId(r) \/ EnterWait(r)
  \/ ClearThreadId(r) \/ TurnReturn(r)

Next ==
  \/ \E r \in Runners : Run(r) \/ Events(r) \/ TakeSignal(r)
  \/ \E t \in Threads, r \in Runners : Notify(t, r)
  \/ \E t \in Threads : Interrupt(t) \/ Kill(t)

Spec == Init /\ [][Next]_vars

(* Threads run, signals are delivered, and polls and event handlers return *)
(* (strong: a call of notify holds them up, but not for ever).  Nothing    *)
(* promises an event.                                                      *)
FairSpec ==
  /\ Spec
  /\ \A r \in Runners : SF_vars(Run(r)) /\ WF_vars(TakeSignal(r))
  /\ \A t \in Threads : WF_vars(Interrupt(t)) /\ WF_vars(Kill(t))
-----------------------------------------------------------------------------
(* The values of every variable; thread_id is stored exactly around        *)
(* epoll_pwait, and a thread is in one call of notify at a time.           *)
TypeOK ==
  /\ notified \in [Runners -> BOOLEAN] /\ unseen \in [Runners -> BOOLEAN]
  /\ late \in [Runners -> BOOLEAN] /\ thread_id \in [Runners -> BOOLEAN]
  /\ signal \in [Runners -> BOOLEAN] /\ installed \in BOOLEAN
  /\ pc \in [Runners -> Labels]
  /\ interrupting \in [Threads -> Runners \cup {NoOne}]
  /\ killing \in [Threads -> Runners \cup {NoOne}]
  /\ \A r \in Runners : thread_id[r] <=> pc[r] \in Exposed
  /\ \A t \in Threads : interrupting[t] = NoOne \/ killing[t] = NoOne

(* A notification that the latest poll may have missed is in the flag, or  *)
(* the next poll is about to begin: reset loses none, whenever it comes.   *)
FlagRemembers ==
  \A r \in Runners : unseen[r] => notified[r] \/ pc[r] = "begin"

(* A notification that finds its runner waiting, and sets the flag, ends   *)
(* the wait: the signal is pending or the notifier is about to send it.    *)
InTimeInterrupts ==
  \A r \in Runners : late[r] =>
    \/ signal[r]
    \/ \E t \in Threads : interrupting[t] = r \/ killing[t] = r

(* No SIGUSR2 is ever sent before the process has a handler for it; its    *)
(* default action would end the process.                                   *)
SignalsAreHandled == (\E r \in Runners : signal[r]) => installed

(* If its turns keep returning, for events or for signals, a runner polls  *)
(* its future after every notification, or returns.                        *)
BusyQueueWakes ==
  \A r \in Runners :
    []<>(pc[r] # "wait") =>
      (unseen[r] ~> ~unseen[r] \/ pc[r] = "returned")

(* turn_interruptible "allows interruptions via an `Interrupt`": a runner  *)
(* polls its future after every notification, or returns, events or no.    *)
WakeupSeen ==
  \A r \in Runners : unseen[r] ~> ~unseen[r] \/ pc[r] = "returned"
-----------------------------------------------------------------------------
(* A poll is under way from the reset that called for it; until the next   *)
(* one the flag tells whether there is to be another.                      *)
TaskState(r) ==
  CASE pc[r] = "returned" -> "done"
    [] pc[r] \in {"begin", "poll"} ->
         IF notified[r] THEN "notified" ELSE "running"
    [] OTHER -> IF notified[r] THEN "scheduled" ELSE "idle"

TaskMap == [r \in Runners |-> TaskState(r)]

Executor == INSTANCE TaskStates
  WITH Tasks <- Runners, Again <- "scheduled", MayLose <- FALSE,
       state <- TaskMap

(* run keeps what the thread pool promises to its futures: it polls for a  *)
(* notification, and again for one that came after the reset, and for no   *)
(* event or signal otherwise.                                              *)
ImplementsTasks == Executor!Spec
=============================================================================
