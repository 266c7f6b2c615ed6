----------------------------- MODULE CustomEvent -----------------------------
(***************************************************************************)
(* One custom event of an Epoll queue (src/epoll/mod.rs): posting pushes a *)
(* datum on a SegQueue and adds a token to an eventfd; the eventfd is      *)
(* registered level-triggered and one-shot, so the kernel gives it to one  *)
(* turning thread, which takes a token, drains the queue through the       *)
(* handler and re-arms the registration.                                   *)
(*                                                                         *)
(* Posters are the calls of post_custom_event under way, on any threads    *)
(* (the handler's own included); Turners are the threads that keep calling *)
(* turn.  The kernel's part is external: an eventfd of EFD_SEMAPHORE and   *)
(* EFD_NONBLOCK is a counter from which a read takes 1, a write that would *)
(* overflow it fails; EPOLLONESHOT disarms a registration when its event   *)
(* is returned, and EPOLL_CTL_MOD arms it and looks at the level again.    *)
(***************************************************************************)
EXTENDS Naturals, Sequences, Functions

CONSTANTS
  Posters,       \* calls of post_custom_event that may be under way at once
  Turners,       \* threads that call turn
  Data,          \* what is posted; each datum once (pointers from into_raw)
  EventFdMax,    \* the largest value of an eventfd, 2^64 - 2
  NoData

ASSUME CustomEventAssumption ==
  /\ NoData \notin Data
  /\ EventFdMax \in Nat \ {0}

VARIABLES
  created,       \* how far new_custom_event is
  count,         \* the eventfd's counter
  registration,  \* is the eventfd's one-shot registration "armed"?
  queue,         \* _CustomEvent.queue
  posting,       \* the datum of a post that has pushed and not yet written
  pc,            \* where a turner is
  datum,         \* what try_pop gave it
  handled        \* the calls of the handler so far (history)

event  == <<created, count, registration>>
turner == <<pc, datum>>
vars   == <<event, queue, posting, turner, handled>>

(* From the return of epoll_wait with the event to the end of its re-arming*)
(* modify; for ever, if the handler panicked.                              *)
Busy == {"read", "drain", "call", "handler", "rearm", "panicked"}

InitialCountOne == 1
InitialCount == 0

Init ==
  /\ created = "none"
  /\ count = 0
  /\ registration = "disarmed"
  /\ queue = <<>>
  /\ posting = [p \in Posters |-> NoData]
  /\ pc = [w \in Turners |-> "turn"]
  /\ datum = [w \in Turners |-> NoData]
  /\ handled = <<>>

Goto(w, label) == pc' = [pc EXCEPT ![w] = label]

CanWrite == count < EventFdMax

(* EPOLLONESHOT: the kernel disarms the registration it reports.           *)
StaysArmed == "armed"
AfterDelivery == "disarmed"

StaysDisarmed == "disarmed"
AfterModify == "armed"

(* Mutation: the loop goes round without another try_pop.                  *)
CalledAgain == "call"

(* The handler is called in a loop, until the queue is empty.              *)
OneDatumPerEvent == "rearm"
AfterHandler == "drain"

-----------------------------------------------------------------------------
(* new_custom_event: the eventfd is registered, and armed, before the      *)
(* handler's pointer to the _CustomEvent is set and the tag returned.      *)
Register ==
  /\ created = "none"
  /\ created' = "registered"
  /\ count' = InitialCount
  /\ registration' = "armed"
  /\ UNCHANGED <<queue, posting, turner, handled>>

SetEventPointer ==
  /\ created = "registered"
  /\ created' = "ready"
  /\ UNCHANGED <<count, registration, queue, posting, turner, handled>>

-----------------------------------------------------------------------------
(* post_custom_event.                                                      *)

Fresh(d) ==
  /\ d \notin Range(queue) \cup Range(handled)
  /\ \A w \in Turners : datum[w] # d

Push(p, d) ==
  /\ created = "ready"
  /\ posting[p] = NoData
  /\ Fresh(d)
  /\ queue' = Append(queue, d)
  /\ posting' = [posting EXCEPT ![p] = d]
  /\ UNCHANGED <<event, turner, handled>>

(* The write to the eventfd.  One that would overflow the counter fails,   *)
(* and post_custom_event returns the error: the datum stays queued.        *)
Write(p) ==
  /\ posting[p] # NoData
  /\ count' = IF CanWrite THEN count + 1 ELSE count
  /\ posting' = [posting EXCEPT ![p] = NoData]
  /\ UNCHANGED <<created, registration, queue, turner, handled>>

-----------------------------------------------------------------------------
(* turn and CustomEventRegistrationHandler::handle_event.                  *)

(* epoll_wait returns the event of the armed, readable eventfd.            *)
EpollWait(w) ==
  /\ pc[w] = "turn"
  /\ registration = "armed" /\ count > 0
  /\ registration' = AfterDelivery
  /\ Goto(w, "read")
  /\ UNCHANGED <<created, count, queue, posting, datum, handled>>

(* The token, or WouldBlock, which leaves the queue to a later event.      *)
ReadEventFd(w) ==
  /\ pc[w] = "read"
  /\ count' = IF count > 0 THEN count - 1 ELSE 0
  /\ Goto(w, IF count > 0 THEN "drain" ELSE "rearm")
  /\ UNCHANGED <<created, registration, queue, posting, datum, handled>>

TryPop(w) ==
  /\ pc[w] = "drain"
  /\ queue # <<>>
  /\ datum' = [datum EXCEPT ![w] = Head(queue)]
  /\ queue' = Tail(queue)
  /\ Goto(w, "call")
  /\ UNCHANGED <<event, posting, handled>>

TryPopNone(w) ==
  /\ pc[w] = "drain"
  /\ queue = <<>>
  /\ Goto(w, "rearm")
  /\ UNCHANGED <<event, queue, posting, datum, handled>>

CallHandler(w) ==
  /\ pc[w] = "call"
  /\ handled' = Append(handled, datum[w])
  /\ datum' = [datum EXCEPT ![w] = NoData]
  /\ Goto(w, "handler")
  /\ UNCHANGED <<event, queue, posting>>

HandlerReturns(w) ==
  /\ pc[w] = "handler"
  /\ Goto(w, AfterHandler)
  /\ UNCHANGED <<event, queue, posting, datum, handled>>

(* A handler that panics unwinds out of turn: nothing is re-armed.         *)
HandlerPanics(w) ==
  /\ pc[w] = "handler"
  /\ Goto(w, "panicked")
  /\ UNCHANGED <<event, queue, posting, datum, handled>>

(* registration.modify, the last thing the handler of the event does.      *)
Rearm(w) ==
  /\ pc[w] = "rearm"
  /\ registration' = AfterModify
  /\ Goto(w, "turn")
  /\ UNCHANGED <<created, count, queue, posting, datum, handled>>

-----------------------------------------------------------------------------
Handle(w) ==
  \/ ReadEventFd(w) \/ TryPop(w) \/ TryPopNone(w)
  \/ CallHandler(w) \/ HandlerReturns(w) \/ Rearm(w)

Next ==
  \/ Register
  \/ SetEventPointer
  \/ \E p \in Posters : Write(p) \/ \E d \in Data : Push(p, d)
  \/ \E w \in Turners : EpollWait(w) \/ Handle(w) \/ HandlerPanics(w)

Spec == Init /\ [][Next]_vars

(* Threads run, handlers return, and an eventfd that is readable and armed *)
(* is reported to some thread that waits in turn.                          *)
FairSpec ==
  /\ Spec
  /\ \A p \in Posters : WF_vars(Write(p))
  /\ \A w \in Turners : WF_vars(Handle(w))
  /\ WF_vars(\E w \in Turners : EpollWait(w))
-----------------------------------------------------------------------------
(* The values of every variable; a datum is in hand exactly from its       *)
(* try_pop to the one call of the handler with it.                         *)
TypeOK ==
  /\ count \in Nat
  /\ created \in {"none", "registered", "ready"}
  /\ registration \in {"armed", "disarmed"}
  /\ queue \in Seq(Data)
  /\ posting \in [Posters -> Data \cup {NoData}]
  /\ pc \in [Turners -> Busy \cup {"turn"}]
  /\ datum \in [Turners -> Data \cup {NoData}]
  /\ handled \in Seq(Data)
  /\ \A w \in Turners : datum[w] # NoData <=> pc[w] = "call"

(* One-shot arming makes the handler exclusive: the event is with one      *)
(* turner at most, and with none while it is armed.                        *)
HandlerExclusive ==
  \A w \in Turners : pc[w] \in Busy =>
    /\ registration = "disarmed"
    /\ \A v \in Turners \ {w} : pc[v] = "turn"

(* handle_event finds a token and the pointer: its WouldBlock branch is    *)
(* dead code, and the null of new_custom_event is never dereferenced.      *)
ReadSucceeds ==
  \A w \in Turners : pc[w] = "read" => count > 0 /\ created = "ready"

(* A queued datum is about to be drained: by a turner that drains, or for  *)
(* a token that is to be, or has been, written and that the kernel can     *)
(* deliver or will when its turner re-arms; also after a write that failed.*)
NoStrandedDatum ==
  queue # <<>> =>
    \/ \E p \in Posters : posting[p] # NoData
    \/ \E w \in Turners : pc[w] \in {"drain", "call", "handler", "panicked"}
    \/ /\ count > 0
       /\ \/ registration = "armed"
          \/ \E w \in Turners : pc[w] \in {"read", "rearm"}

(* Every datum that is pushed reaches the handler, whether or not the post *)
(* reported an error, unless a handler panics.                             *)
EveryPostHandled ==
  \A d \in Data :
    d \in Range(queue) ~> \/ d \in Range(handled)
                          \/ \E w \in Turners : pc[w] = "panicked"

(* The channel of PostChannel: what is queued, behind what try_pop has     *)
(* just taken out.                                                         *)
Taken == IF \E w \in Turners : pc[w] = "call"
         THEN <<datum[CHOOSE w \in Turners : pc[w] = "call"]>>
         ELSE <<>>

Channel == INSTANCE PostChannel WITH chan <- Taken \o queue

(* The custom event is a first-in, first-out channel: no datum is handled  *)
(* twice, out of order or without having been posted.                      *)
ImplementsChannel == Channel!Spec
=============================================================================
