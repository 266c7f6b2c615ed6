------------------------------ MODULE Interests ------------------------------
(***************************************************************************)
(* The readiness half of src/epoll: one FuturesRegistration (epoll/mod.rs) *)
(* of one socket, and the futures of epoll/net.rs that wait on it: Accept, *)
(* TcpRead and RecvFrom for READ, TcpWrite, SendTo and Connect for WRITE.  *)
(* They share their poll, which tries the socket and, when that would      *)
(* block, adds an interest to the registration.                            *)
(*                                                                         *)
(* An element of Ops is a place for one future at a time; when its future  *)
(* has resolved another may start there.  Several Ops are futures on       *)
(* clones of one socket, or several accepts of a listener.  One of them    *)
(* may be the Connect that the others wait for.                            *)
(* Turners are the threads that turn the Epoll.  Executor and kernel are   *)
(* external: a notified task is polled again; a registration with EPOLLET  *)
(* and EPOLLONESHOT reports once, and EPOLL_CTL_MOD looks at the level.    *)
(***************************************************************************)
EXTENDS FiniteSets, Naturals

CONSTANTS
  Ops,
  Mask,      \* the direction each of Ops waits for
  Connects,  \* the Connect, if the socket is not connected to begin with
  MayDrop,   \* are pending futures dropped (select, timeouts)?
  MayMove,   \* do futures move from one task to another between polls?
  Turners

Directions == {"read", "write"}

ASSUME InterestsAssumption ==
  /\ Mask \in [Ops -> Directions]
  /\ Connects \subseteq Ops
  /\ \A c, d \in Connects : c = d /\ Mask[c] = "write"
  /\ MayDrop \in BOOLEAN /\ MayMove \in BOOLEAN

VARIABLES
  level,      \* the directions in which the socket would not block
  hup,        \* has the peer gone, or is there none yet?
  connection, \* what has become of the connection
  stale,      \* was an event under way when the connection was begun?
  armed,      \* is the one-shot registration enabled in the kernel?
  mask,       \* its event mask
  event,      \* what epoll_wait gave each turner, until handle_event; or {}
  interests,  \* the futures with an entry in the handler's list
  orphans,    \* the directions of entries whose future was dropped
  interest,   \* does the future hold a FutureInterest?
  fired,      \* its flag
  registered, \* does the interest hold the task the future is in now?
  notified,   \* that task has a notification to act on
  pc          \* of the future's poll; "pending" and "done" between polls

socket  == <<level, hup, connection, stale>>
kernel  == <<socket, armed, mask>>
handler == <<interests, orphans>>
future  == <<interest, registered, notified, pc>>
vars    == <<kernel, event, handler, future, fired>>

Labels == {"pending", "io", "register", "add", "done", "failed"}
Connection == {"none", "started", "up", "refused"}

(* An unconnected stream reports EPOLLHUP, and nobody else has it yet.     *)
Init ==
  /\ level = {} /\ stale = FALSE
  /\ hup = (Connects # {})
  /\ connection = IF Connects = {} THEN "up" ELSE "none"
  /\ armed = TRUE /\ mask = {}
  /\ event = [w \in Turners |-> {}]
  /\ interests = {} /\ orphans = {}
  /\ interest = [o \in Ops |-> FALSE]
  /\ fired = [o \in Ops |-> FALSE]
  /\ registered = [o \in Ops |-> FALSE]
  /\ notified = [o \in Ops |-> TRUE]
  /\ pc = [o \in Ops |-> IF Connects \subseteq {o} THEN "pending" ELSE "done"]

-----------------------------------------------------------------------------
Goto(o, label) == pc' = [pc EXCEPT ![o] = label]

Wanted(list, extra) == {Mask[o] : o \in list} \cup extra

(* Registration::modify, always with EDGE and ONE_SHOT.                    *)
Modify(events) ==
  /\ armed' = TRUE
  /\ mask' = events
  /\ UNCHANGED socket

Reportable == (level \cap mask) \cup (IF hup THEN {"hup"} ELSE {})

(* Mutation: any event fires every interest.                               *)
FiresOnAny(dir, events) == events # {}

(* interest_mask.contains(events), or something is wrong with the socket.  *)
Fires(dir, events) == events \subseteq {dir} \/ "hup" \in events

(* What is left in the list when those in fire have been fired.            *)
KeptFired(fire) == interests          \* mutation: swap_remove forgotten
Unfired(fire)   == interests \ fire

(* What add_interest arms: every direction in the list and the new one.    *)
OnlyNewMask(o) == {Mask[o]}           \* mutation: the old mask forgotten
NewMask(o)     == Wanted(interests, orphans) \cup {Mask[o]}

(* The end of handle_event: re-arm for what is still listed.               *)
NoRearm(rest) == UNCHANGED kernel     \* mutation
Rearm(rest)   == IF rest # {} THEN Modify(rest) ELSE UNCHANGED kernel

Ready(o) == Mask[o] \in level \/ hup
-----------------------------------------------------------------------------
(* The socket, moved by the peer.                                          *)

BecomeReady(dir) ==
  /\ connection = "up"
  /\ dir \notin level
  /\ level' = level \cup {dir}
  /\ UNCHANGED <<hup, connection, stale, armed, mask, event, handler, future,
                 fired>>

HangUp ==
  /\ connection = "up" /\ ~hup
  /\ hup' = TRUE
  /\ level' = Directions
  /\ UNCHANGED <<connection, stale, armed, mask, event, handler, future, fired>>

(* The peer accepts the connection or refuses it.                          *)
PeerAnswers(answer) ==
  /\ connection = "started"
  /\ connection' = answer
  /\ hup' = (answer = "refused")
  /\ level' = IF answer = "refused" THEN Directions ELSE {"write"}
  /\ UNCHANGED <<stale, armed, mask, event, handler, future, fired>>

-----------------------------------------------------------------------------
(* turn, and FuturesRegistrationHandler::handle_event.                     *)

EpollWait(w) ==
  /\ armed
  /\ event[w] = {}
  /\ Reportable # {}
  /\ event' = [event EXCEPT ![w] = Reportable]
  /\ armed' = FALSE
  /\ UNCHANGED <<socket, mask, handler, future, fired>>

(* With the list locked: fire and remove what the event satisfies, notify  *)
(* the tasks that are registered, re-arm for the rest if there is any.     *)
HandleEvent(w) ==
  LET fire  == {o \in interests : Fires(Mask[o], event[w])}
      left  == {dir \in orphans : ~Fires(dir, event[w])}
      rest  == Wanted(Unfired(fire), left)
  IN
  /\ event[w] # {}
  /\ event' = [event EXCEPT ![w] = {}]
  /\ interests' = Unfired(fire)
  /\ orphans' = left
  /\ fired' = [o \in Ops |-> fired[o] \/ o \in fire]
  /\ notified' = [o \in Ops |-> notified[o] \/ (o \in fire /\ registered[o])]
  /\ Rearm(rest)
  /\ UNCHANGED <<interest, registered, pc>>

-----------------------------------------------------------------------------
(* The poll of a future.                                                   *)

(* FutureInterest::poll first looks at fired; without one, try the socket. *)
Poll(o) ==
  /\ pc[o] = "pending"
  /\ notified[o]
  /\ notified' = [notified EXCEPT ![o] = FALSE]
  /\ Goto(o, IF interest[o] /\ ~fired[o] THEN "register" ELSE "io")
  /\ UNCHANGED <<kernel, event, handler, interest, registered, fired>>

(* The future is over and its FutureInterest, fired or none, goes with it. *)
Resolve(o, label) ==
  /\ interest' = [interest EXCEPT ![o] = FALSE]
  /\ fired' = [fired EXCEPT ![o] = FALSE]
  /\ registered' = [registered EXCEPT ![o] = FALSE]
  /\ Goto(o, label)

(* The system call succeeds: it may or may not use the readiness up.       *)
IoReady(o) ==
  /\ pc[o] = "io"
  /\ o \notin Connects
  /\ Ready(o)
  /\ level' \in IF hup THEN {level} ELSE {level, level \ {Mask[o]}}
  /\ Resolve(o, "done")
  /\ UNCHANGED <<hup, connection, stale, armed, mask, event, handler, notified>>

(* WouldBlock: a future that has an interest only registers its task with  *)
(* it again; one that has none adds one.                                   *)
IoWouldBlock(o) ==
  /\ pc[o] = "io"
  /\ o \notin Connects
  /\ ~Ready(o)
  /\ Goto(o, IF interest[o] THEN "register" ELSE "add")
  /\ UNCHANGED <<kernel, event, handler, interest, registered, fired, notified>>

OnlyWouldBlock(outcome) == FALSE     \* mutation: EINPROGRESS not recognised

(* EINPROGRESS counts as WouldBlock.                                       *)
WouldBlock(outcome) == outcome = "started"

(* The first connect(2): EINPROGRESS, the peer's answer at once, or an     *)
(* error.  From now on the socket reports what the connection does.        *)
FirstConnect(o, outcome) ==
  /\ pc[o] = "io"
  /\ o \in Connects
  /\ connection = "none"
  /\ connection' = outcome
  /\ level' = [started |-> {}, up |-> {"write"}, refused |-> Directions][outcome]
  /\ hup' = (outcome = "refused")
  /\ stale' = \E w \in Turners : event[w] # {}
  /\ IF WouldBlock(outcome)
     THEN Goto(o, "add") /\ UNCHANGED <<interest, registered, fired>>
     ELSE Resolve(o, IF outcome = "up" THEN "done" ELSE "failed")
  /\ UNCHANGED <<armed, mask, event, handler, notified>>

(* The second connect(2) reports the outcome, or EALREADY if there is none *)
(* yet, which is an error like any other.                                  *)
SecondConnect(o) ==
  /\ pc[o] = "io"
  /\ o \in Connects
  /\ connection # "none"
  /\ \/ connection = "up" /\ Resolve(o, "done")
     \/ (connection # "up" \/ hup) /\ Resolve(o, "failed")
  /\ UNCHANGED <<kernel, event, handler, notified>>

OnlyAtAdd(o) == registered           \* mutation: the task is never updated

(* AtomicTask::register, of the task that polls the future now.            *)
PresentTask(o) == [registered EXCEPT ![o] = TRUE]

(* FutureInterest::register.                                               *)
Register(o) ==
  /\ pc[o] = "register"
  /\ registered' = PresentTask(o)
  /\ Goto(o, "pending")
  /\ UNCHANGED <<kernel, event, handler, interest, fired, notified>>

(* FuturesRegistration::add_interest, with the list locked.                *)
AddInterest(o) ==
  /\ pc[o] = "add"
  /\ interests' = interests \cup {o}
  /\ interest' = [interest EXCEPT ![o] = TRUE]
  /\ registered' = [registered EXCEPT ![o] = TRUE]
  /\ IF Mask[o] \in Wanted(interests, orphans)
     THEN UNCHANGED kernel
     ELSE Modify(NewMask(o))
  /\ Goto(o, "pending")
  /\ UNCHANGED <<event, orphans, fired, notified>>

(* The program starts another operation on the connected socket.           *)
Start(o) ==
  /\ pc[o] = "done"
  /\ o \notin Connects
  /\ \A c \in Connects : pc[c] = "done"
  /\ notified' = [notified EXCEPT ![o] = TRUE]
  /\ Goto(o, "pending")
  /\ UNCHANGED <<kernel, event, handler, interest, registered, fired>>

(* The future goes to another task, whose first poll comes by itself; the  *)
(* interest still holds the old one.                                       *)
Move(o) ==
  /\ MayMove
  /\ pc[o] = "pending"
  /\ registered' = [registered EXCEPT ![o] = FALSE]
  /\ notified' = [notified EXCEPT ![o] = TRUE]
  /\ UNCHANGED <<kernel, event, handler, interest, fired, pc>>

(* A pending future is dropped: nothing takes its entry off the list.      *)
Drop(o) ==
  /\ MayDrop
  /\ pc[o] = "pending"
  /\ orphans' = orphans \cup (IF o \in interests THEN {Mask[o]} ELSE {})
  /\ interests' = interests \ {o}
  /\ notified' = [notified EXCEPT ![o] = FALSE]
  /\ Resolve(o, IF o \in Connects THEN "failed" ELSE "done")
  /\ UNCHANGED <<kernel, event>>

-----------------------------------------------------------------------------
TrySocket(o) ==
  \/ IoReady(o) \/ IoWouldBlock(o)
  \/ \E outcome \in {"started", "up", "refused"} : FirstConnect(o, outcome)
  \/ SecondConnect(o)

RunPoll(o) ==
  Poll(o) \/ TrySocket(o) \/ Register(o) \/ AddInterest(o)

Next ==
  \/ \E o \in Ops : RunPoll(o) \/ Start(o) \/ Move(o) \/ Drop(o)
  \/ \E w \in Turners : EpollWait(w) \/ HandleEvent(w)
  \/ \E dir \in Directions : BecomeReady(dir)
  \/ HangUp
  \/ \E answer \in {"up", "refused"} : PeerAnswers(answer)

Spec == Init /\ [][Next]_vars

(* Notified tasks are polled, threads run, and some thread keeps turning.  *)
FairSpec ==
  /\ Spec
  /\ \A o \in Ops : WF_vars(RunPoll(o))
  /\ \A w \in Turners : WF_vars(HandleEvent(w))
  /\ WF_vars(\E w \in Turners : EpollWait(w))
-----------------------------------------------------------------------------
(* The values of every variable; only a future that has an interest is in  *)
(* the list or fired, and not both.                                        *)
TypeOK ==
  /\ level \subseteq Directions /\ mask \subseteq Directions
  /\ orphans \subseteq Directions
  /\ hup \in BOOLEAN /\ armed \in BOOLEAN
  /\ connection \in Connection /\ stale \in BOOLEAN
  /\ event \in [Turners -> SUBSET (Directions \cup {"hup"})]
  /\ interest \in [Ops -> BOOLEAN] /\ fired \in [Ops -> BOOLEAN]
  /\ registered \in [Ops -> BOOLEAN]
  /\ notified \in [Ops -> BOOLEAN] /\ pc \in [Ops -> Labels]
  /\ interests \subseteq Ops
  /\ \A o \in Ops : interest[o] <=> (o \in interests \/ fired[o])
  /\ \A o \in interests : ~fired[o]

Waiting(o) == pc[o] = "pending" /\ ~notified[o]

Unresolved(o) == pc[o] \notin {"done", "failed"}

(* Every entry of the list is looked after: the kernel is armed for its    *)
(* direction, or an event is on its way whose handler fires it or re-arms  *)
(* for it.  So it is in whatever order turners, new interests and dropped  *)
(* futures interleave, and although add_interest does not arm for what it  *)
(* finds already listed.                                                   *)
InterestCovered ==
  \A dir \in Wanted(interests, orphans) :
    \/ armed /\ dir \in mask
    \/ \E w \in Turners : event[w] # {}

(* A future that waits has its present task with its interest: no stale    *)
(* task is notified in its place, however futures move.                    *)
PresentTaskRegistered ==
  \A o \in Ops : Waiting(o) => interest[o] /\ registered[o]

(* With one future per direction, none dropped or moved, and one turner, a *)
(* fired interest finds the socket ready: a future never registers again   *)
(* with an interest that is out of the list, where no event would find it. *)
(* The exception is an event from before the connection.                   *)
WaitersAreListed == \A o \in Ops : Waiting(o) => stale \/ o \in interests

(* Under the same conditions, Connect reports EALREADY or any other error  *)
(* only if the peer refused or went away.                                  *)
ConnectFailsForAReason ==
  \A o \in Connects : pc[o] = "failed" => stale \/ connection = "refused" \/ hup

(* A future does not wait for ever while its own direction, and no other,  *)
(* is ready.                                                               *)
LoneDirectionServed ==
  \A o \in Ops : ~<>[](Unresolved(o) /\ level = {Mask[o]} /\ ~stale)

(* "Registers the current task to be notified for this interest": a future *)
(* does not wait for ever while the socket is ready for it.                *)
ReadyIsServed == \A o \in Ops : ~<>[](Unresolved(o) /\ Ready(o))
=============================================================================
