----------------------------- MODULE Overlapped -----------------------------
(***************************************************************************)
(* The overlapped operations of src/iocp: the OverlappedTask of mod.rs,    *)
(* whose memory a future and the completion port share by reference count, *)
(* and the futures of net.rs, which submit an operation at their first     *)
(* poll, ask after it at later ones and cancel it when dropped.            *)
(*                                                                         *)
(* Ops are operations, each with its future; the six kinds of future are   *)
(* the same code, but Accept and Connect have no Drop (they are not in     *)
(* Cancels).  Tasks are the tasks a future may be polled in, in turn.  The *)
(* kernel is external: it ends an operation when it likes and then queues  *)
(* a packet for the port, also for an operation that ended at once.  Any   *)
(* number of threads may be inside poll_iocp.                              *)
(***************************************************************************)
EXTENDS Naturals

CONSTANTS
  Ops,
  Cancels,   \* the operations whose future cancels when dropped
  Tasks,
  NoTask     \* the empty AtomicTask

ASSUME OverlappedAssumption ==
  /\ Cancels \subseteq Ops
  /\ NoTask \notin Tasks

VARIABLES
  state,       \* of the future
  polling,     \* has the future's poll registered, and not yet looked?
  owner,       \* the task that polls the future
  notified,    \* has its owner a notification to act on?
  registered,  \* the AtomicTask in _OverlappedTask
  refs,        \* the reference count of _OverlappedTask
  operation,   \* from the submission to the end of poll_iocp's loop body
  buffer       \* the operation's buffers; "gone" to the caller or freed

polls == <<owner, notified, registered>>
vars  == <<state, polling, polls, refs, operation, buffer>>

(* The port's way: Internal is set, the packet queued, taken by a thread   *)
(* in poll_iocp, the task notified, the reference dropped.                 *)
InPort == {"outstanding", "ended", "queued", "dequeued", "notified"}

Init ==
  /\ state = [o \in Ops |-> "initial"]
  /\ polling = [o \in Ops |-> FALSE]
  /\ owner \in [Ops -> Tasks]
  /\ notified = [o \in Ops |-> TRUE]
  /\ registered = [o \in Ops |-> NoTask]
  /\ refs = [o \in Ops |-> 0]
  /\ operation = [o \in Ops |-> "none"]
  /\ buffer = [o \in Ops |-> "held"]

-----------------------------------------------------------------------------
(* for_operation hands the reference of the clone it consumes to the port. *)
DropsClone == 0                    \* mutation: no mem::forget
HandsOver == 1

(* task.register() before poll_socket.                                     *)
KeepsFirst(o) == registered[o]     \* mutation: only OverlappedTask::new does
Registers(o) == owner[o]

(* poll_socket: Internal is not STATUS_PENDING.                            *)
AssumesEnd(o) == TRUE              \* mutation: a notification means the end
HasEnded(o) == operation[o] # "outstanding"

Progresses(o, from, to) ==
  /\ operation[o] = from
  /\ operation' = [operation EXCEPT ![o] = to]

(* The future's own reference goes with its state.                         *)
Finish(o, last) ==
  /\ state' = [state EXCEPT ![o] = last]
  /\ refs' = [refs EXCEPT ![o] = @ - 1]

-----------------------------------------------------------------------------
(* The first poll: OverlappedTask::new registers the task, for_operation   *)
(* wraps the system call.                                                  *)

Submitting(o) ==
  /\ state[o] = "initial"
  /\ notified[o]
  /\ notified' = [notified EXCEPT ![o] = FALSE]
  /\ registered' = [registered EXCEPT ![o] = owner[o]]
  /\ UNCHANGED <<polling, owner>>

SubmitFails(o) ==
  /\ Submitting(o)
  /\ state' = [state EXCEPT ![o] = "resolved"]
  /\ buffer' = [buffer EXCEPT ![o] = "gone"]
  /\ UNCHANGED <<refs, operation>>

(* Done at once: the future resolves, the packet is still to come.         *)
SubmitCompletes(o) ==
  /\ Submitting(o)
  /\ state' = [state EXCEPT ![o] = "resolved"]
  /\ refs' = [refs EXCEPT ![o] = HandsOver]
  /\ operation' = [operation EXCEPT ![o] = "ended"]
  /\ buffer' = [buffer EXCEPT ![o] = "gone"]

SubmitPends(o) ==
  /\ Submitting(o)
  /\ state' = [state EXCEPT ![o] = "pending"]
  /\ refs' = [refs EXCEPT ![o] = 1 + HandsOver]
  /\ operation' = [operation EXCEPT ![o] = "outstanding"]
  /\ UNCHANGED buffer

-----------------------------------------------------------------------------
(* Later polls.                                                            *)

Register(o) ==
  /\ state[o] = "pending" /\ ~polling[o]
  /\ notified[o]
  /\ notified' = [notified EXCEPT ![o] = FALSE]
  /\ registered' = [registered EXCEPT ![o] = Registers(o)]
  /\ polling' = [polling EXCEPT ![o] = TRUE]
  /\ UNCHANGED <<state, owner, refs, operation, buffer>>

PollNotReady(o) ==
  /\ polling[o]
  /\ ~HasEnded(o)
  /\ polling' = [polling EXCEPT ![o] = FALSE]
  /\ UNCHANGED <<state, polls, refs, operation, buffer>>

(* The result or the operation's error; the buffer goes to the caller.     *)
PollReady(o) ==
  /\ polling[o]
  /\ HasEnded(o)
  /\ polling' = [polling EXCEPT ![o] = FALSE]
  /\ Finish(o, "resolved")
  /\ buffer' = [buffer EXCEPT ![o] = "gone"]
  /\ UNCHANGED <<polls, operation>>

(* The program moves the future to another task, which polls it.           *)
Move(o, t) ==
  /\ state[o] = "pending" /\ ~polling[o]
  /\ owner[o] # t
  /\ owner' = [owner EXCEPT ![o] = t]
  /\ notified' = [notified EXCEPT ![o] = TRUE]
  /\ UNCHANGED <<state, polling, registered, refs, operation, buffer>>

(* A pending future is dropped.  CancelIoEx succeeds only if the operation *)
(* has not ended; if it fails the buffers are leaked.  Accept and Connect  *)
(* drop theirs without it.  A future that was never polled has submitted   *)
(* nothing, and is left out.                                               *)
Drop(o) ==
  /\ state[o] = "pending" /\ ~polling[o]
  /\ Finish(o, "dropped")
  /\ \E cancelled \in BOOLEAN :
       /\ cancelled => ~HasEnded(o)
       /\ buffer' = [buffer EXCEPT
            ![o] = IF cancelled \/ o \notin Cancels THEN "gone" ELSE "leaked"]
  /\ UNCHANGED <<polling, polls, operation>>

-----------------------------------------------------------------------------
(* The kernel and poll_iocp.                                               *)

End(o) ==
  /\ Progresses(o, "outstanding", "ended")
  /\ UNCHANGED <<state, polling, polls, refs, buffer>>

QueuePacket(o) ==
  /\ Progresses(o, "ended", "queued")
  /\ UNCHANGED <<state, polling, polls, refs, buffer>>

Dequeue(o) ==
  /\ Progresses(o, "queued", "dequeued")
  /\ UNCHANGED <<state, polling, polls, refs, buffer>>

(* AtomicTask::notify takes the task out.  If that is not the one the      *)
(* future is in by now, the future is not polled for it.                   *)
NotifyTask(o) ==
  /\ Progresses(o, "dequeued", "notified")
  /\ notified' = [notified EXCEPT ![o] = @ \/ registered[o] = owner[o]]
  /\ registered' = [registered EXCEPT ![o] = NoTask]
  /\ UNCHANGED <<state, polling, owner, refs, buffer>>

Release(o) ==
  /\ Progresses(o, "notified", "none")
  /\ refs' = [refs EXCEPT ![o] = @ - 1]
  /\ UNCHANGED <<state, polling, polls, buffer>>

-----------------------------------------------------------------------------
Poll(o) ==
  \/ SubmitFails(o) \/ SubmitCompletes(o) \/ SubmitPends(o)
  \/ Register(o) \/ PollNotReady(o) \/ PollReady(o)

PollIocp(o) == Dequeue(o) \/ NotifyTask(o) \/ Release(o)

Next == \E o \in Ops :
  \/ Poll(o) \/ Drop(o) \/ End(o) \/ QueuePacket(o) \/ PollIocp(o)
  \/ \E t \in Tasks : Move(o, t)

Spec == Init /\ [][Next]_vars

(* Notified tasks are polled, packets queued, and some thread keeps        *)
(* turning the port.  Nothing promises that an operation ends.             *)
FairSpec ==
  /\ Spec
  /\ \A o \in Ops :
       WF_vars(Poll(o)) /\ WF_vars(QueuePacket(o)) /\ WF_vars(PollIocp(o))
-----------------------------------------------------------------------------
(* The values of every variable; a future polls only while it is pending.  *)
TypeOK ==
  /\ state \in [Ops -> {"initial", "pending", "resolved", "dropped"}]
  /\ polling \in [Ops -> BOOLEAN]
  /\ owner \in [Ops -> Tasks]
  /\ notified \in [Ops -> BOOLEAN]
  /\ registered \in [Ops -> Tasks \cup {NoTask}]
  /\ refs \in [Ops -> Nat]
  /\ operation \in [Ops -> InPort \cup {"none"}]
  /\ buffer \in [Ops -> {"held", "gone", "leaked"}]
  /\ \A o \in Ops : polling[o] => state[o] = "pending"

(* The count is the number of those who will still use the _OverlappedTask *)
(* (its pending future, and kernel, port or thread in poll_iocp): it is    *)
(* never freed under one of them, freed twice or leaked.                   *)
RefsAreHolders ==
  \A o \in Ops :
    refs[o] = (IF state[o] = "pending" THEN 1 ELSE 0)
            + (IF operation[o] \in InPort THEN 1 ELSE 0)

(* While the kernel may still write to its buffers, a future that has not  *)
(* been dropped holds them: it does not resolve early.                     *)
BufferHeld ==
  \A o \in Ops :
    operation[o] = "outstanding" /\ state[o] # "dropped" =>
      state[o] = "pending" /\ buffer[o] = "held"

(* A future that waits for a notification gets one when the operation      *)
(* ends: the packet has not been acted on, and the task it will notify is  *)
(* the one the future is in.                                               *)
NoLostCompletion ==
  \A o \in Ops :
    state[o] = "pending" /\ ~polling[o] /\ ~notified[o] =>
      /\ operation[o] \in InPort \ {"notified"}
      /\ registered[o] = owner[o]

(* When its operation has ended a future resolves, in whatever task it is  *)
(* by then, or is dropped: polls register first and look afterwards.       *)
CompletionWakes ==
  \A o \in Ops :
    state[o] = "pending" /\ operation[o] = "ended" ~> state[o] # "pending"
=============================================================================
