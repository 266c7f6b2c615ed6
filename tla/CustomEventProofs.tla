-------------------------- MODULE CustomEventProofs --------------------------
(***************************************************************************)
(* Proofs about CustomEvent, for every set of posting and turning threads  *)
(* and every size of the eventfd.                                          *)
(*                                                                         *)
(* The argument: one-shot arming is a mutex (HandlerExclusive).  While a   *)
(* turner holds it no other turner changes count or takes from the queue,  *)
(* so the token it was woken for is there to read, and what it has taken   *)
(* out is the front of the channel.                                        *)
(***************************************************************************)
EXTENDS CustomEvent, QueueLemmas

(* Until the tag is returned nothing is posted, and nobody is woken.       *)
QuietUntilReady ==
  created # "ready" =>
    /\ count = 0 /\ queue = <<>>
    /\ \A p \in Posters : posting[p] = NoData
    /\ \A w \in Turners : pc[w] = "turn"

(* The one-shot event is never mislaid: it is with the kernel, or with the *)
(* turner that will re-arm it.                                             *)
EventIsSomewhere ==
  created # "none" =>
    registration = "armed" \/ \E w \in Turners : pc[w] \in Busy

(* The inductive invariant.                                                *)
IInv ==
  /\ TypeOK
  /\ HandlerExclusive
  /\ QuietUntilReady
  /\ ReadSucceeds
  /\ EventIsSomewhere
  /\ NoStrandedDatum

(* It holds before new_custom_event.                                       *)
LEMMA InitInv == Init => IInv
<1> SUFFICES ASSUME Init PROVE IInv
  OBVIOUS
<1>1. TypeOK
  BY DEF Init, TypeOK, Busy
<1>2. /\ HandlerExclusive /\ QuietUntilReady /\ ReadSucceeds
      /\ EventIsSomewhere /\ NoStrandedDatum
  BY DEF Init, HandlerExclusive, QuietUntilReady, ReadSucceeds,
         EventIsSomewhere, NoStrandedDatum, Busy
<1> QED BY <1>1, <1>2 DEF IInv

(* Every step keeps it.                                                    *)
LEMMA NextInv == IInv /\ [Next]_vars => IInv'
<1> SUFFICES ASSUME IInv, [Next]_vars PROVE IInv'
  OBVIOUS
<1> USE DEF IInv, TypeOK, HandlerExclusive, QuietUntilReady,
        ReadSucceeds, EventIsSomewhere, NoStrandedDatum, Busy, Goto, event, turner
<1>c. (count \in Nat)'
  BY DEF Next, Register, InitialCount, SetEventPointer, Write, CanWrite, Push,
         EpollWait, Handle, ReadEventFd, TryPop, TryPopNone, CallHandler,
         HandlerReturns, Rearm, HandlerPanics, vars
<1>1. CASE Register
  <2>1. TypeOK'
    BY <1>1, <1>c DEF Register
  <2>2. (QuietUntilReady /\ ReadSucceeds /\ EventIsSomewhere)' /\ queue' = <<>>
    BY <1>1 DEF Register, InitialCount
  <2>3. HandlerExclusive'
    <3>1. \A w \in Turners : pc'[w] \notin Busy
      BY <1>1 DEF Register
    <3> QED BY <3>1
  <2> QED BY <2>1, <2>2, <2>3
<1>2. CASE SetEventPointer
  BY <1>2, <1>c DEF SetEventPointer
<1>3. ASSUME NEW p \in Posters, Write(p) PROVE IInv'
  <2>1. count' > 0 /\ created = "ready"
    BY <1>3, CustomEventAssumption DEF Write, CanWrite
  <2>2. TypeOK'
    BY <1>c, <1>3 DEF Write
  <2> QED BY <1>3, <2>1, <2>2 DEF Write
<1>4. ASSUME NEW p \in Posters, NEW d \in Data, Push(p, d) PROVE IInv'
  <2>1. TypeOK'
    BY <1>4, <1>c DEF Push
  <2>2. posting'[p] # NoData
    BY <1>4, CustomEventAssumption DEF Push
  <2> QED BY <1>4, <2>1, <2>2 DEF Push
<1>5. ASSUME NEW w \in Turners, EpollWait(w) PROVE IInv'
  <2>1. count > 0 /\ created = "ready" /\ registration' = "disarmed" /\ pc' = [pc EXCEPT ![w] = "read"]
        /\ UNCHANGED <<created, count, queue, posting, datum, handled>>
    BY <1>5 DEF EpollWait, AfterDelivery
  <2>2. TypeOK'
    <3>1. \A v \in Turners : datum'[v] # NoData <=> pc'[v] = "call"
      BY <1>5, <2>1 DEF EpollWait
    <3> QED BY <2>1, <3>1, <1>c
  <2>3. HandlerExclusive'
    BY <1>5, <2>1 DEF EpollWait
  <2>4. (QuietUntilReady /\ ReadSucceeds /\ EventIsSomewhere /\ NoStrandedDatum)'
    BY <1>5, <2>1 DEF EpollWait
  <2> QED BY <2>2, <2>3, <2>4
<1>6. ASSUME NEW w \in Turners, Handle(w) PROVE IInv'
  <2>1. CASE ReadEventFd(w) BY <2>1, <1>c DEF ReadEventFd
  <2>2. CASE TryPop(w) BY <2>2, <1>c, CustomEventAssumption DEF TryPop
  <2>3. CASE TryPopNone(w) BY <2>3, <1>c DEF TryPopNone
  <2>4. CASE CallHandler(w) BY <2>4, <1>c DEF CallHandler
  <2>5. CASE HandlerReturns(w) BY <2>5, <1>c DEF HandlerReturns, AfterHandler
  <2>6. CASE Rearm(w) BY <2>6, <1>c DEF Rearm, AfterModify
  <2> QED BY <1>6, <2>1, <2>2, <2>3, <2>4, <2>5, <2>6 DEF Handle
<1>7. ASSUME NEW w \in Turners, HandlerPanics(w) PROVE IInv'
  BY <1>7, <1>c DEF HandlerPanics
<1>8. CASE UNCHANGED vars
  BY <1>8, <1>c DEF vars
<1> QED BY <1>1, <1>2, <1>3, <1>4, <1>5, <1>6, <1>7, <1>8 DEF Next

(* The inductive invariant holds in every reachable state.                 *)
THEOREM Inductive == Spec => []IInv
BY InitInv, NextInv, PTL DEF Spec

(* At the call of the handler, what was taken is at the front.             *)
LEMMA TakenIs ==
  ASSUME HandlerExclusive
  PROVE  /\ \A w \in Turners : pc[w] = "call" => Taken = <<datum[w]>>
         /\ (\A w \in Turners : pc[w] # "call") => Taken = <<>>
<1>1. ASSUME NEW w \in Turners, pc[w] = "call"
      PROVE  (CHOOSE v \in Turners : pc[v] = "call") = w
  BY <1>1 DEF HandlerExclusive, Busy
<1> QED BY <1>1 DEF Taken

(* A step that leaves queue, datum and the turners at "call" alone is a    *)
(* stutter of the channel.                                                 *)
LEMMA Stutter ==
  ASSUME UNCHANGED <<queue, datum, handled>>,
         \A w \in Turners : pc'[w] = "call" <=> pc[w] = "call"
  PROVE  UNCHANGED Channel!vars
<1>1. Taken' = Taken
  BY DEF Taken
<1> QED BY <1>1 DEF Channel!vars

(* Each step of the custom event is a step of the channel, or a stutter.   *)
LEMMA StepSimulation ==
  ASSUME IInv, IInv', [Next]_vars
  PROVE  [Channel!Next]_(Channel!vars)
<1> USE DEF IInv, TypeOK, Goto, event, turner
<1>1. ASSUME NEW p \in Posters, NEW d \in Data, Push(p, d)
      PROVE  Channel!Post(d)
  <2>1. queue' = Append(queue, d) /\ UNCHANGED <<pc, datum, handled>>
    BY <1>1 DEF Push
  <2>2. Taken' = Taken /\ Taken \in Seq(Data)
    <3>1. Taken' = Taken
      BY <2>1 DEF Taken
    <3>2. CASE \A w \in Turners : pc[w] # "call"
      <4>1. Taken = <<>>
        BY <3>2, TakenIs
      <4> QED BY <3>1, <4>1
    <3>3. ASSUME NEW w \in Turners, pc[w] = "call"
          PROVE  Taken' = Taken /\ Taken \in Seq(Data)
      <4>1. Taken = <<datum[w]>> /\ datum[w] \in Data
        BY <3>3, TakenIs
      <4> QED BY <3>1, <4>1
    <3> QED BY <3>1, <3>2, <3>3
  <2>3. Taken \o Append(queue, d) = Append(Taken \o queue, d)
    BY <2>2
  <2> QED BY <2>1, <2>2, <2>3 DEF Channel!Post
<1>2. ASSUME NEW w \in Turners, CallHandler(w) PROVE Channel!Deliver
  <2>1. /\ pc[w] = "call" /\ pc'[w] = "handler" /\ datum[w] \in Data
        /\ queue' = queue /\ handled' = Append(handled, datum[w])
    BY <1>2 DEF CallHandler
  <2>2. Taken = <<datum[w]>>
    BY <2>1, TakenIs
  <2>3. Taken' = <<>>
    <3>1. \A v \in Turners : pc'[v] # "call"
      BY <1>2, <2>1 DEF CallHandler, HandlerExclusive, Busy
    <3> QED BY <3>1 DEF Taken
  <2>4. /\ Taken \o queue # <<>> /\ Head(Taken \o queue) = datum[w]
        /\ Tail(Taken \o queue) = queue /\ Taken' \o queue' = queue
    BY <2>1, <2>2, <2>3
  <2> QED BY <2>1, <2>4 DEF Channel!Deliver
<1>3. ASSUME NEW w \in Turners, TryPop(w) PROVE UNCHANGED Channel!vars
  <2>1. /\ queue # <<>> /\ queue' = Tail(queue) /\ handled' = handled
        /\ pc'[w] = "call" /\ pc[w] = "drain" /\ datum'[w] = Head(queue)
    BY <1>3 DEF TryPop
  <2>2. Taken = <<>>
    BY <2>1, TakenIs DEF HandlerExclusive, Busy
  <2>3. Taken' = <<Head(queue)>>
    <3>1. \A v \in Turners : pc'[v] = "call" => v = w
      BY <2>1 DEF HandlerExclusive, Busy
    <3>2. (CHOOSE v \in Turners : pc'[v] = "call") = w
      BY <2>1, <3>1
    <3> QED BY <2>1, <3>2 DEF Taken
  <2>4. <<Head(queue)>> \o Tail(queue) = <<>> \o queue
    BY <2>1
  <2> QED BY <2>1, <2>2, <2>3, <2>4 DEF Channel!vars
<1>4. ASSUME NEW w \in Turners,
             \/ EpollWait(w) \/ ReadEventFd(w) \/ TryPopNone(w)
             \/ HandlerReturns(w) \/ HandlerPanics(w) \/ Rearm(w)
      PROVE  UNCHANGED Channel!vars
  <2>1. /\ UNCHANGED <<queue, datum, handled>>
        /\ \E label : label # "call" /\ pc[w] # "call" /\ pc' = [pc EXCEPT ![w] = label]
    BY <1>4 DEF EpollWait, ReadEventFd, TryPopNone, HandlerReturns, AfterHandler,
                HandlerPanics, Rearm
  <2> QED BY <2>1, Stutter
<1>5. ASSUME Register \/ SetEventPointer \/ (\E p \in Posters : Write(p)) \/ UNCHANGED vars
      PROVE  UNCHANGED Channel!vars
  BY <1>5, Stutter DEF Register, SetEventPointer, Write, vars
<1> QED BY <1>1, <1>2, <1>3, <1>4, <1>5 DEF Next, Handle, Channel!Next

(* The one-shot registration is held by one turner at a time.              *)
THEOREM HandlerIsExclusive == Spec => []HandlerExclusive
<1>1. IInv => HandlerExclusive
  BY DEF IInv
<1> QED BY <1>1, Inductive, PTL

(* Every variable keeps its type: the eventfd stays below its maximum, and *)
(* a datum is in a turner's hand exactly before its handler is called.     *)
THEOREM TypeCorrect == Spec => []TypeOK
<1>1. IInv => TypeOK
  BY DEF IInv
<1> QED BY <1>1, Inductive, PTL

(* No queued datum is left without a write to come, a turner that drains,  *)
(* or a token that the kernel can report, at once or when the turner that  *)
(* holds the event re-arms it; not even when writes to the eventfd fail.   *)
THEOREM NothingStranded == Spec => []NoStrandedDatum
<1>1. IInv => NoStrandedDatum
  BY DEF IInv
<1> QED BY <1>1, Inductive, PTL

(* The token and the pointer a delivered event relies on are there.        *)
THEOREM ReadsSucceed == Spec => []ReadSucceeds
<1>1. IInv => ReadSucceeds
  BY DEF IInv
<1> QED BY <1>1, Inductive, PTL

(* An eventfd, a SegQueue and a one-shot registration together implement   *)
(* the first-in, first-out channel of PostChannel.                         *)
THEOREM CustomEventIsChannel == Spec => ImplementsChannel
<1>1. Init => Channel!Init
  <2> SUFFICES ASSUME Init PROVE Channel!Init
    OBVIOUS
  <2>1. Taken = <<>> /\ queue = <<>> /\ handled = <<>>
    BY DEF Init, Taken
  <2> QED BY <2>1 DEF Channel!Init
<1> QED BY <1>1, StepSimulation, Inductive, PTL
        DEF Spec, ImplementsChannel, Channel!Spec
=============================================================================
