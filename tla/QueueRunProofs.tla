--------------------------- MODULE QueueRunProofs ---------------------------
(***************************************************************************)
(* Proofs about QueueRun, for any number of runners and notifying threads: *)
(* what run does get right.  The flag of InterruptNotify forgets nothing,  *)
(* an interrupt that comes while its runner waits is delivered, and run    *)
(* polls as TaskStates says.                                               *)
(***************************************************************************)
EXTENDS QueueRun, TLAPS

(* Beyond the properties: only a waiting runner is "late" (so it has its   *)
(* thread stored, and a notifier that is still to load it will find it),   *)
(* and whoever has stored a thread, or read one, did so after the handler  *)
(* for SIGUSR2 was installed.                                              *)
LateWaits == \A r \in Runners : late[r] => pc[r] = "wait"

InstalledFirst ==
  /\ \A r \in Runners : pc[r] \in Exposed \cup {"store"} => installed
  /\ \A t \in Threads : killing[t] # NoOne => installed

IInv ==
  /\ TypeOK
  /\ FlagRemembers
  /\ InTimeInterrupts
  /\ SignalsAreHandled
  /\ LateWaits
  /\ InstalledFirst

(* Initially every flag is set for the first poll.                         *)
LEMMA InitHolds == Init => IInv
  BY QueueRunAssumption
     DEF Init, IInv, TypeOK, FlagRemembers, InTimeInterrupts,
         SignalsAreHandled, LateWaits, InstalledFirst, Exposed, Labels,
         Threads

(* Types, and where thread_id is stored.                                   *)
LEMMA TypeStep == TypeOK /\ [Next]_vars => TypeOK'
<1> SUFFICES ASSUME TypeOK, [Next]_vars PROVE TypeOK'
  OBVIOUS
<1> USE QueueRunAssumption
    DEF TypeOK, Labels, Exposed, Threads, Goto, flags, calls
<1>1. ASSUME UNCHANGED vars PROVE TypeOK'
  BY <1>1 DEF vars
<1>2. ASSUME NEW r \in Runners, Run(r) PROVE TypeOK'
  <2>1. ASSUME Reset(r) PROVE TypeOK'
    BY <2>1 DEF Reset, PollIfCalled, InstallFirst
  <2>2. ASSUME BeginPoll(r) PROVE TypeOK'
    BY <2>2 DEF BeginPoll
  <2>3. ASSUME PollNotReady(r) PROVE TypeOK'
    BY <2>3 DEF PollNotReady, KeepAfterPoll, InstallFirst
  <2>4. ASSUME PollReady(r) PROVE TypeOK'
    BY <2>4 DEF PollReady
  <2>5. ASSUME Install(r) PROVE TypeOK'
    BY <2>5 DEF Install
  <2>6. ASSUME StoreThreadId(r) PROVE TypeOK'
    BY <2>6 DEF StoreThreadId, Stored
  <2>7. ASSUME EnterWait(r) PROVE TypeOK'
    BY <2>7 DEF EnterWait
  <2>8. ASSUME ClearThreadId(r) PROVE TypeOK'
    BY <2>8 DEF ClearThreadId, ResetAgain
  <2>9. ASSUME TurnReturn(r) PROVE TypeOK'
    BY <2>9 DEF TurnReturn, ResetAgain
  <2> QED
    BY <1>2, <2>1, <2>2, <2>3, <2>4, <2>5, <2>6, <2>7, <2>8, <2>9 DEF Run
<1>3. ASSUME NEW r \in Runners, Events(r) PROVE TypeOK'
  BY <1>3 DEF Events
<1>4. ASSUME NEW r \in Runners, TakeSignal(r) PROVE TypeOK'
  BY <1>4 DEF TakeSignal
<1>5. ASSUME NEW t \in Threads, NEW r \in Runners, Notify(t, r) PROVE TypeOK'
  BY <1>5 DEF Notify, Calling
<1>6. ASSUME NEW t \in Threads, Interrupt(t) PROVE TypeOK'
  BY <1>6 DEF Interrupt
<1>7. ASSUME NEW t \in Threads, Kill(t) PROVE TypeOK'
  BY <1>7 DEF Kill
<1> QED
  BY <1>1, <1>2, <1>3, <1>4, <1>5, <1>6, <1>7 DEF Next

(* Only reset clears the flag, and it is followed by a poll.               *)
LEMMA FlagStep ==
  TypeOK /\ FlagRemembers /\ [Next]_vars => FlagRemembers'
<1> SUFFICES ASSUME TypeOK, FlagRemembers, [Next]_vars
             PROVE  FlagRemembers'
  OBVIOUS
<1> USE DEF TypeOK, FlagRemembers, Goto, flags, calls
<1>1. ASSUME NEW r \in Runners, Run(r) PROVE FlagRemembers'
  BY <1>1 DEF Run, Reset, PollIfCalled, BeginPoll, PollNotReady, KeepAfterPoll, PollReady,
     Install, StoreThreadId, EnterWait, ClearThreadId, TurnReturn
<1>2. ASSUME NEW r \in Runners, Events(r) \/ TakeSignal(r)
      PROVE  FlagRemembers'
  BY <1>2 DEF Events, TakeSignal
<1>3. ASSUME NEW t \in Threads, NEW r \in Runners, Notify(t, r)
      PROVE  FlagRemembers'
  BY <1>3 DEF Notify
<1>4. ASSUME NEW t \in Threads, Interrupt(t) \/ Kill(t) PROVE FlagRemembers'
  BY <1>4 DEF Interrupt, Kill
<1>5. ASSUME UNCHANGED vars PROVE FlagRemembers'
  BY <1>5 DEF vars
<1> QED BY <1>1, <1>2, <1>3, <1>4, <1>5 DEF Next

(* While a runner is late, a call of notify that set its flag is followed  *)
(* from the swap, over the load (which finds the thread), to the signal.   *)
LEMMA InterruptStep ==
  TypeOK /\ LateWaits /\ InTimeInterrupts /\ [Next]_vars
    => LateWaits' /\ InTimeInterrupts'
<1> SUFFICES ASSUME TypeOK, LateWaits, InTimeInterrupts, [Next]_vars
             PROVE  LateWaits' /\ InTimeInterrupts'
  OBVIOUS
<1> USE DEF TypeOK, LateWaits, InTimeInterrupts, Goto, flags, calls
<1>1. ASSUME NEW r \in Runners, Run(r)
      PROVE  LateWaits' /\ InTimeInterrupts'
  <2>1. /\ late' = late /\ signal' = signal /\ UNCHANGED calls
        /\ pc[r] # "wait" /\ \A s \in Runners \ {r} : pc'[s] = pc[s]
    BY <1>1 DEF Run, Reset, PollIfCalled, BeginPoll, PollNotReady, PollReady, Install,
       StoreThreadId, EnterWait, ClearThreadId, TurnReturn
  <2> QED BY <2>1
<1>2. ASSUME NEW r \in Runners, Events(r) \/ TakeSignal(r)
      PROVE  LateWaits' /\ InTimeInterrupts'
  <2>1. ~late'[r]
    BY <1>2 DEF Events, TakeSignal
  <2>2. /\ \A s \in Runners \ {r} :
             pc'[s] = pc[s] /\ late'[s] = late[s] /\ signal'[s] = signal[s]
        /\ UNCHANGED calls
    BY <1>2 DEF Events, TakeSignal
  <2> QED BY <2>1, <2>2
<1>3. ASSUME NEW t \in Threads, NEW r \in Runners, Notify(t, r)
      PROVE  LateWaits' /\ InTimeInterrupts'
  <2>1. interrupting[t] = NoOne /\ killing[t] = NoOne
    BY <1>3 DEF Notify, Calling
  <2>2. ASSUME NEW s \in Runners, late'[s]
        PROVE  /\ pc'[s] = "wait"
               /\ \/ signal'[s]
                  \/ \E u \in Threads : interrupting'[u] = s \/ killing'[u] = s
    <3>1. CASE late[s]
      <4>1. pc[s] = "wait"
        BY <3>1
      <4>2. CASE signal[s]
        BY <1>3, <4>1, <4>2 DEF Notify
      <4>3. CASE \E u \in Threads : interrupting[u] = s \/ killing[u] = s
        <5>1. PICK u \in Threads : interrupting[u] = s \/ killing[u] = s
          BY <4>3
        <5>2. u # t
          BY <5>1, <2>1, QueueRunAssumption DEF Threads
        <5> QED BY <1>3, <4>1, <5>1, <5>2 DEF Notify
      <4> QED BY <3>1, <4>2, <4>3
    <3>2. CASE ~late[s]
      <4>1. s = r /\ ~notified[r] /\ pc[r] = "wait"
        BY <1>3, <2>2, <3>2 DEF Notify
      <4> QED BY <1>3, <4>1 DEF Notify
    <3> QED BY <3>1, <3>2
  <2> QED BY <2>2
<1>4. ASSUME NEW t \in Threads, Interrupt(t)
      PROVE  LateWaits' /\ InTimeInterrupts'
  <2>1. PICK r \in Runners : r = interrupting[t]
    BY <1>4 DEF Interrupt
  <2>2. CASE thread_id[r]
    <3>1. killing'[t] = r /\ UNCHANGED <<late, pc, signal>>
      BY <1>4, <2>1, <2>2 DEF Interrupt
    <3>2. \A u \in Threads \ {t} :
            interrupting'[u] = interrupting[u] /\ killing'[u] = killing[u]
      BY <1>4, <2>1 DEF Interrupt
    <3>3. killing[t] = NoOne /\ r # NoOne
      BY <1>4, <2>1 DEF Interrupt
    <3> QED BY <2>1, <3>1, <3>2, <3>3, QueueRunAssumption DEF Threads
  <2>3. CASE ~thread_id[r]
    <3>1. ~late[r]
      BY <2>3 DEF Exposed
    <3>2. UNCHANGED <<late, pc, signal, killing>>
      BY <1>4, <2>1, <2>3 DEF Interrupt
    <3>3. \A u \in Threads \ {t} : interrupting'[u] = interrupting[u]
      BY <1>4 DEF Interrupt
    <3> QED BY <2>1, <3>1, <3>2, <3>3
  <2> QED BY <2>2, <2>3
<1>5. ASSUME NEW t \in Threads, Kill(t)
      PROVE  LateWaits' /\ InTimeInterrupts'
  <2>1. PICK r \in Runners : r = killing[t]
    BY <1>5 DEF Kill
  <2>2. /\ signal'[r] /\ UNCHANGED <<late, pc, interrupting>>
        /\ \A s \in Runners \ {r} : signal'[s] = signal[s]
        /\ \A u \in Threads \ {t} : killing'[u] = killing[u]
    BY <1>5, <2>1 DEF Kill
  <2> QED BY <2>1, <2>2
<1>6. ASSUME UNCHANGED vars PROVE LateWaits' /\ InTimeInterrupts'
  BY <1>6 DEF vars
<1> QED BY <1>1, <1>2, <1>3, <1>4, <1>5, <1>6 DEF Next

(* A signal comes from a kill, that from a load of a stored thread, that   *)
(* from a runner that has passed call_once.                                *)
LEMMA InstallStep ==
  TypeOK /\ SignalsAreHandled /\ InstalledFirst /\ [Next]_vars
    => SignalsAreHandled' /\ InstalledFirst'
<1> SUFFICES ASSUME TypeOK, SignalsAreHandled, InstalledFirst, [Next]_vars
             PROVE  SignalsAreHandled' /\ InstalledFirst'
  OBVIOUS
<1> USE DEF TypeOK, SignalsAreHandled, InstalledFirst, Exposed, Goto, flags,
        calls
<1>1. ASSUME NEW r \in Runners, Run(r)
      PROVE  SignalsAreHandled' /\ InstalledFirst'
  BY <1>1 DEF Run, Reset, PollIfCalled, BeginPoll, PollNotReady, InstallFirst, PollReady,
     Install, StoreThreadId, EnterWait, ClearThreadId, TurnReturn, ResetAgain
<1>2. ASSUME NEW r \in Runners, Events(r) \/ TakeSignal(r)
      PROVE  SignalsAreHandled' /\ InstalledFirst'
  BY <1>2 DEF Events, TakeSignal
<1>3. ASSUME NEW t \in Threads, NEW r \in Runners, Notify(t, r)
      PROVE  SignalsAreHandled' /\ InstalledFirst'
  BY <1>3 DEF Notify
<1>4. ASSUME NEW t \in Threads, Interrupt(t)
      PROVE  SignalsAreHandled' /\ InstalledFirst'
  <2>1. PICK r \in Runners : r = interrupting[t]
    BY <1>4 DEF Interrupt
  <2>2. thread_id[r] => installed
    OBVIOUS
  <2> QED BY <1>4, <2>1, <2>2 DEF Interrupt
<1>5. ASSUME NEW t \in Threads, Kill(t)
      PROVE  SignalsAreHandled' /\ InstalledFirst'
  BY <1>5 DEF Kill
<1>6. ASSUME UNCHANGED vars PROVE SignalsAreHandled' /\ InstalledFirst'
  BY <1>6 DEF vars
<1> QED BY <1>1, <1>2, <1>3, <1>4, <1>5, <1>6 DEF Next

(* The whole invariant holds of every reachable state.                     *)
THEOREM Inductive == Spec => []IInv
<1>1. IInv /\ [Next]_vars => IInv'
  BY TypeStep, FlagStep, InterruptStep, InstallStep DEF IInv
<1> QED BY InitHolds, <1>1, PTL DEF Spec

(* Every variable keeps its type, and a thread id is stored only between   *)
(* the store in Inner::poll and the one that clears it.                    *)
THEOREM TypeCorrect == Spec => []TypeOK
<1>1. IInv => TypeOK
  BY DEF IInv
<1> QED BY <1>1, Inductive, PTL

(* InterruptNotify::reset loses no notification.                           *)
THEOREM NotificationsAreKept == Spec => []FlagRemembers
<1>1. IInv => FlagRemembers
  BY DEF IInv
<1> QED BY Inductive, <1>1, PTL

(* A notification that finds its runner in epoll_pwait interrupts it.      *)
THEOREM InterruptsInTime == Spec => []InTimeInterrupts
<1>1. IInv => InTimeInterrupts
  BY DEF IInv
<1> QED BY Inductive, <1>1, PTL

(* SIGUSR2 is sent only when interrupt_sig_handler is in place.            *)
THEOREM HandlerComesFirst == Spec => []SignalsAreHandled
<1>1. IInv => SignalsAreHandled
  BY DEF IInv
<1> QED BY Inductive, <1>1, PTL
-----------------------------------------------------------------------------
(* A step that changes neither a flag nor whether a poll is under way is a *)
(* stutter of TaskStates.                                                  *)
LEMMA SameState ==
  ASSUME \A r \in Runners : TaskState(r)' = TaskState(r)
  PROVE  UNCHANGED TaskMap
BY DEF TaskMap

(* A step that changes the state of one runner's task is one of its own.   *)
LEMMA OneGoes ==
  ASSUME NEW r \in Runners, NEW from, NEW to,
         TaskState(r) = from, TaskState(r)' = to,
         \A s \in Runners \ {r} : TaskState(s)' = TaskState(s)
  PROVE  Executor!Goes(r, from, to)
<1>1. TaskMap[r] = from
  BY DEF TaskMap
<1>2. TaskMap' = [TaskMap EXCEPT ![r] = to]
  BY DEF TaskMap
<1> QED BY <1>1, <1>2 DEF Executor!Goes

(* Each step of a thread inside run is a step of TaskStates or a stutter:  *)
(* a poll starts at the reset that takes the notification and ends, if it  *)
(* is not ready, with what came after that reset.                          *)
LEMMA RunGoes ==
  ASSUME TypeOK, NEW r \in Runners, Run(r)
  PROVE  Executor!Next \/ UNCHANGED TaskMap
<1> USE DEF TypeOK, Goto, flags, TaskState
<1>1. ASSUME NEW s \in Runners \ {r} PROVE TaskState(s)' = TaskState(s)
  BY DEF Run, Reset, BeginPoll, PollNotReady, KeepAfterPoll, PollReady,
     Install, StoreThreadId, EnterWait, ClearThreadId, TurnReturn
<1>2. ASSUME NEW from, NEW to, TaskState(r) = from, TaskState(r)' = to
      PROVE  Executor!Goes(r, from, to)
  BY <1>1, <1>2, OneGoes
<1>3. CASE Reset(r)
  <2>1. CASE notified[r]
    <3>1. TaskState(r) = "scheduled" /\ TaskState(r)' = "running"
      BY <1>3, <2>1 DEF Reset, PollIfCalled
    <3> QED BY <1>2, <3>1 DEF Executor!Next, Executor!Poll
  <2>2. CASE ~notified[r]
    <3>1. TaskState(r)' = TaskState(r)
      BY <1>3, <2>2 DEF Reset, PollIfCalled, InstallFirst
    <3> QED BY <1>1, <3>1, SameState
  <2> QED BY <2>1, <2>2
<1>4. CASE PollNotReady(r)
  <2>1. CASE notified[r]
    <3>1. TaskState(r) = "notified" /\ TaskState(r)' = "scheduled"
      BY <1>4, <2>1 DEF PollNotReady, KeepAfterPoll, InstallFirst
    <3> QED BY <1>2, <3>1 DEF Executor!Next, Executor!NotReady
  <2>2. CASE ~notified[r]
    <3>1. TaskState(r) = "running" /\ TaskState(r)' = "idle"
      BY <1>4, <2>2 DEF PollNotReady, KeepAfterPoll, InstallFirst
    <3> QED BY <1>2, <3>1 DEF Executor!Next, Executor!NotReady
  <2> QED BY <2>1, <2>2
<1>5. CASE PollReady(r)
  <2>1. /\ TaskState(r) \in {"running", "notified"}
        /\ TaskState(r)' = "done"
    BY <1>5 DEF PollReady
  <2> QED BY <1>2, <2>1 DEF Executor!Next, Executor!Ready
<1>6. CASE \/ BeginPoll(r) \/ Install(r) \/ StoreThreadId(r) \/ EnterWait(r)
           \/ ClearThreadId(r) \/ TurnReturn(r)
  <2>1. TaskState(r)' = TaskState(r)
    BY <1>6 DEF BeginPoll, Install, StoreThreadId, EnterWait, ClearThreadId,
       TurnReturn, ResetAgain
  <2> QED BY <1>1, <2>1, SameState
<1> QED BY <1>3, <1>4, <1>5, <1>6 DEF Run

(* A notification schedules a task that is idle, makes a poll be repeated  *)
(* and changes nothing for a task that is to be polled anyway or done.     *)
LEMMA NotifyGoes ==
  ASSUME TypeOK, NEW t \in Threads, NEW r \in Runners, Notify(t, r)
  PROVE  Executor!Next \/ UNCHANGED TaskMap
<1> USE DEF TypeOK, TaskState
<1>1. ASSUME NEW s \in Runners \ {r} PROVE TaskState(s)' = TaskState(s)
  BY DEF Notify
<1>2. CASE notified[r] \/ pc[r] = "returned"
  <2>1. TaskState(r)' = TaskState(r)
    BY <1>2 DEF Notify
  <2> QED BY <1>1, <2>1, SameState
<1>3. CASE ~notified[r] /\ pc[r] \in {"begin", "poll"}
  <2>1. TaskState(r) = "running" /\ TaskState(r)' = "notified"
    BY <1>3 DEF Notify
  <2> QED BY <1>1, <2>1, OneGoes DEF Executor!Next, Executor!Notify
<1>4. CASE ~notified[r] /\ pc[r] \notin {"begin", "poll", "returned"}
  <2>1. TaskState(r) = "idle" /\ TaskState(r)' = "scheduled"
    BY <1>4 DEF Notify
  <2> QED BY <1>1, <2>1, OneGoes DEF Executor!Next, Executor!Notify
<1> QED BY <1>2, <1>3, <1>4

(* Each step of QueueRun is a step of TaskStates or a stutter.             *)
LEMMA StepSimulation ==
  TypeOK /\ [Next]_vars => [Executor!Next]_TaskMap
<1> SUFFICES ASSUME TypeOK, [Next]_vars
             PROVE  Executor!Next \/ UNCHANGED TaskMap
  OBVIOUS
<1>1. ASSUME NEW r \in Runners, Events(r) \/ TakeSignal(r)
      PROVE  UNCHANGED TaskMap
  <2>1. \A s \in Runners : TaskState(s)' = TaskState(s)
    BY <1>1 DEF Events, TakeSignal, Goto, TypeOK, TaskState
  <2> QED BY <2>1, SameState
<1>2. ASSUME NEW t \in Threads, Interrupt(t) \/ Kill(t)
      PROVE  UNCHANGED TaskMap
  <2>1. UNCHANGED <<notified, pc>>
    BY <1>2 DEF Interrupt, Kill, flags
  <2>2. \A s \in Runners : TaskState(s)' = TaskState(s)
    BY <2>1 DEF TaskState
  <2> QED BY <2>2, SameState
<1>3. ASSUME UNCHANGED vars PROVE UNCHANGED TaskMap
  <2>1. UNCHANGED <<notified, pc>>
    BY <1>3 DEF vars, flags
  <2>2. \A s \in Runners : TaskState(s)' = TaskState(s)
    BY <2>1 DEF TaskState
  <2> QED BY <2>2, SameState
<1> QED BY RunGoes, NotifyGoes, <1>1, <1>2, <1>3 DEF Next

(* run keeps TaskStates, as the thread pool does, and loses no task: that  *)
(* a notified future may still wait for ever is the turn's doing alone.    *)
THEOREM RunImplementsTasks == Spec => ImplementsTasks
<1>1. Init => Executor!Init
  BY DEF Init, Executor!Init, TaskMap, TaskState
<1> QED BY <1>1, StepSimulation, TypeCorrect, PTL
        DEF Spec, ImplementsTasks, Executor!Spec
=============================================================================
