-------------------------- MODULE OverlappedProofs --------------------------
(***************************************************************************)
(* Proofs about Overlapped, for any set of operations and of tasks: its    *)
(* reference counts are exact, futures that are not dropped hold their     *)
(* buffers as long as the kernel uses them, and no completion is lost on a *)
(* future that waits for it.                                               *)
(***************************************************************************)
EXTENDS Overlapped, TLAPS

(* Where a future is before its first poll, and what it holds until it has *)
(* an answer.                                                              *)
Shape ==
  \A o \in Ops :
    /\ state[o] = "initial" => operation[o] = "none"
    /\ state[o] \in {"initial", "pending"} => buffer[o] = "held"

(* A future counts on the AtomicTask from its registration on, until it    *)
(* is notified or moved: as long as the task in there is still to be       *)
(* notified it is the future's own, and only a future that has registered  *)
(* and not yet looked may find that the notification has been before.      *)
CountsOnIt(o) == state[o] = "pending" /\ (polling[o] \/ ~notified[o])

StillToNotify(o) == operation[o] \in InPort \ {"notified"}

WaiterRegistered ==
  \A o \in Ops : CountsOnIt(o) =>
    /\ StillToNotify(o) => registered[o] = owner[o]
    /\ polling[o] \/ StillToNotify(o)

IInv == TypeOK /\ RefsAreHolders /\ BufferHeld /\ Shape /\ WaiterRegistered

(* Before the first polls nobody holds a reference and every future holds  *)
(* its buffers.                                                            *)
LEMMA InitIInv == Init => IInv
BY DEF Init, IInv, TypeOK, RefsAreHolders, BufferHeld, Shape, InPort,
       WaiterRegistered, CountsOnIt, StillToNotify

(* A poll, the first or a later one, preserves the invariant.              *)
LEMMA PollIInv == ASSUME IInv, NEW o \in Ops, Poll(o) PROVE IInv'
<1> USE OverlappedAssumption
<1> USE DEF IInv, TypeOK, RefsAreHolders, BufferHeld, Shape, InPort, polls,
            WaiterRegistered, CountsOnIt, StillToNotify
<1>1. CASE SubmitFails(o)
  BY <1>1 DEF SubmitFails, Submitting
<1>2. CASE SubmitCompletes(o)
  BY <1>2 DEF SubmitCompletes, Submitting, HandsOver
<1>3. CASE SubmitPends(o)
  BY <1>3 DEF SubmitPends, Submitting, HandsOver
<1>4. CASE Register(o)
  BY <1>4 DEF Register, Registers
<1>5. CASE PollNotReady(o)
  BY <1>5 DEF PollNotReady, HasEnded
<1>6. CASE PollReady(o)
  BY <1>6 DEF PollReady, Finish, HasEnded
<1> QED BY <1>1, <1>2, <1>3, <1>4, <1>5, <1>6 DEF Poll

(* A future moved or dropped preserves the invariant.                      *)
LEMMA OwnerIInv ==
  ASSUME IInv, NEW o \in Ops, Drop(o) \/ \E t \in Tasks : Move(o, t)
  PROVE  IInv'
<1> USE OverlappedAssumption
<1> USE DEF IInv, TypeOK, RefsAreHolders, BufferHeld, Shape, InPort, polls,
            WaiterRegistered, CountsOnIt, StillToNotify
<1>1. CASE Drop(o)
  BY <1>1 DEF Drop, Finish
<1>2. ASSUME NEW t \in Tasks, Move(o, t) PROVE IInv'
  BY <1>2 DEF Move
<1> QED BY <1>1, <1>2

(* The kernel and poll_iocp preserve the invariant.                        *)
LEMMA PortIInv ==
  ASSUME IInv, NEW o \in Ops, End(o) \/ QueuePacket(o) \/ PollIocp(o)
  PROVE  IInv'
<1> USE OverlappedAssumption
<1> USE DEF IInv, TypeOK, RefsAreHolders, BufferHeld, Shape, InPort, polls,
            WaiterRegistered, CountsOnIt, StillToNotify, Progresses
<1>1. CASE End(o)
  BY <1>1 DEF End
<1>2. CASE QueuePacket(o)
  BY <1>2 DEF QueuePacket
<1>3. CASE Dequeue(o)
  BY <1>3 DEF Dequeue
<1>4. CASE NotifyTask(o)
  <2>1. TypeOK' /\ RefsAreHolders' /\ BufferHeld' /\ Shape'
    BY <1>4 DEF NotifyTask
  <2>2. operation[o] = "dequeued" /\ operation'[o] = "notified"
    BY <1>4 DEF NotifyTask
  <2>3. notified'[o] = (notified[o] \/ registered[o] = owner[o])
    <3> DEFINE woken == notified[o] \/ registered[o] = owner[o]
    <3>1. notified \in [Ops -> BOOLEAN]
      OBVIOUS
    <3>2. notified' = [notified EXCEPT ![o] = woken]
      BY <1>4, Zenon DEF NotifyTask
    <3> HIDE DEF woken
    <3>3. notified'[o] = woken
      BY <3>1, <3>2
    <3> QED BY <3>3 DEF woken
  <2>4. \A p \in Ops \ {o} : /\ operation'[p] = operation[p]
                             /\ notified'[p] = notified[p]
                             /\ registered'[p] = registered[p]
    BY <1>4 DEF NotifyTask
  <2>5. WaiterRegistered!(o)'
    <3>1. CASE registered[o] = owner[o]
      BY <1>4, <2>2, <2>3, <3>1 DEF NotifyTask
    <3>2. CASE registered[o] # owner[o]
      <4>1. ~CountsOnIt(o)
        BY <2>2, <3>2
      <4> QED BY <1>4, <2>2, <2>3, <3>2, <4>1 DEF NotifyTask
    <3> QED BY <3>1, <3>2
  <2>6. \A p \in Ops \ {o} : WaiterRegistered!(p)'
    BY <1>4, <2>4 DEF NotifyTask
  <2> QED BY <2>1, <2>5, <2>6
<1>5. CASE Release(o)
  BY <1>5 DEF Release
<1> QED BY <1>1, <1>2, <1>3, <1>4, <1>5 DEF PollIocp

(* The invariant is inductive.                                             *)
THEOREM Inductive == Spec => []IInv
<1>1. IInv /\ [Next]_vars => IInv'
  <2> SUFFICES ASSUME IInv, [Next]_vars PROVE IInv'
    OBVIOUS
  <2>1. CASE Next
    BY <2>1, PollIInv, OwnerIInv, PortIInv DEF Next
  <2>2. CASE UNCHANGED vars
    BY <2>2 DEF vars, polls, IInv, TypeOK, RefsAreHolders, BufferHeld,
                Shape, WaiterRegistered, CountsOnIt, StillToNotify
  <2> QED BY <2>1, <2>2
<1> QED BY <1>1, InitIInv, PTL DEF Spec

(* Every variable keeps its type.                                          *)
THEOREM TypeCorrect == Spec => []TypeOK
<1>1. IInv => TypeOK
  BY DEF IInv
<1> QED BY <1>1, Inductive, PTL

(* The reference count of every OverlappedTask is the number of those who  *)
(* will still use it, through submission, cancellation and completion.     *)
THEOREM RefsExact == Spec => []RefsAreHolders
<1>1. IInv => RefsAreHolders
  BY DEF IInv
<1> QED BY <1>1, Inductive, PTL

(* No future gives its buffers away while the kernel may write to them,    *)
(* unless it is dropped.                                                   *)
THEOREM BuffersHeld == Spec => []BufferHeld
<1>1. IInv => BufferHeld
  BY DEF IInv
<1> QED BY <1>1, Inductive, PTL

(* A future that waits for its operation is notified when it ends, though  *)
(* it was moved to another task, or polled in vain, as often as may be:    *)
(* registering before looking leaves no moment for a completion to miss.   *)
THEOREM CompletionsKept == Spec => []NoLostCompletion
<1>1. IInv => NoLostCompletion
  BY DEF IInv, WaiterRegistered, CountsOnIt, StillToNotify, NoLostCompletion
<1> QED BY <1>1, Inductive, PTL
=============================================================================
