---------------------------- MODULE Registrations ----------------------------
(***************************************************************************)
(* The life of an epoll registration: from the EPOLL_CTL_ADD of            *)
(* Handle::register_fd_raw, through the events that Inner::poll dispatches *)
(* to it, to the EPOLL_CTL_DEL in the drop of its last reference           *)
(* (epoll/mod.rs), as the sockets of epoll/net.rs create and drop it.      *)
(*                                                                         *)
(* The kernel stores a raw Weak<_Registration> and hands it out with each  *)
(* event.  An element of Sockets is one socket with its one registration,  *)
(* and stands for that pointer too; Fds are descriptor numbers, which the  *)
(* kernel gives out again as soon as they are closed, and so before the    *)
(* EPOLL_CTL_DEL.  Turners are the threads in turn.  What the handlers do  *)
(* with an event is in Interests; here they only re-arm or do not.  The    *)
(* kernel is external: it drops an entry when the descriptor is closed,    *)
(* and knows descriptors by number only.                                   *)
(***************************************************************************)
EXTENDS FiniteSets, Integers

CONSTANTS
  Sockets, Fds, Turners,
  BufferSize,  \* EVENT_BUFFER_SIZE: what one epoll_wait returns at most
  Waits,       \* the Durations that turn is given, as seconds and millis
  Word,        \* one more than the greatest u32
  None

ASSUME RegistrationsAssumption ==
  /\ BufferSize \in Nat \ {0}
  /\ Waits \subseteq [secs : Nat, millis : 0 .. 999]
  /\ None \notin Sockets \cup Fds \cup Waits

ASSUME WordAssumption == Word \in Nat /\ Word > 1 /\ Word % 2 = 0

VARIABLES
  phase,     \* of the socket, as far as its owner has come
  number,    \* its descriptor number, kept by the registration
  reused,    \* <<r, s>>: s got the number of r while r was registered (history)
  entry,     \* the kernel's interest list: a pointer for each number
  armed,     \* the numbers whose one-shot entry is enabled
  freed,     \* the pointers whose weak reference has been given back
  listed,    \* the sockets whose handler's list holds an interest
  poisoned,  \* the sockets with a poisoned mutex around that list
  pc,        \* of each turner
  wait,      \* the max_wait it was called with, while it waits
  buffer,    \* the events it has yet to dispatch
  handling   \* the registration it has upgraded

numbers == <<number, reused>>
socket == <<phase, numbers>>
kernel == <<entry, armed>>
list   == <<listed, poisoned>>
turner == <<pc, wait, buffer, handling>>
vars   == <<socket, kernel, freed, list, turner>>

Phases == {"new", "created", "registered", "open", "closed", "gone",
           "failed", "aborted"}
Labels == {"idle", "wait", "again", "dispatch", "handle", "drop", "unwind",
           "panicked", "undefined"}

Init ==
  /\ phase = [s \in Sockets |-> "new"]
  /\ number = [s \in Sockets |-> None]
  /\ reused = {}
  /\ entry = [f \in Fds |-> None]
  /\ armed = {} /\ freed = {} /\ listed = {} /\ poisoned = {}
  /\ pc = [w \in Turners |-> "idle"]
  /\ wait = [w \in Turners |-> None]
  /\ buffer = [w \in Turners |-> {}]
  /\ handling = [w \in Turners |-> None]

-----------------------------------------------------------------------------
HasFd(s) == phase[s] \in {"created", "registered", "open", "failed"}

(* The owner's reference to the registration.                              *)
Owned(s) == phase[s] \in {"registered", "open", "closed"}

Holders(s) == {w \in Turners : handling[w] = s}

(* Weak::upgrade succeeds while there is a strong reference.               *)
Alive(s) == Owned(s) \/ Holders(s) # {}

Enter(s, p) == phase' = [phase EXCEPT ![s] = p]

Goto(w, label) == pc' = [pc EXCEPT ![w] = label]

(* close(2) takes the descriptor off the interest list.                    *)
CloseFd(s) ==
  /\ entry' = [entry EXCEPT ![number[s]] = None]
  /\ armed' = armed \ {number[s]}

(* EPOLL_CTL_MOD, of whatever is registered under the number: EBADF or     *)
(* ENOENT if there is nothing.                                             *)
ModifyFails(s) == entry[number[s]] = None

Modify(s) ==
  /\ entry' = [entry EXCEPT ![number[s]] = s]
  /\ armed' = armed \cup {number[s]}

(* The drop of _Registration: EPOLL_CTL_DEL by number.  Only if it         *)
(* succeeds is the weak reference, which the kernel held, given back.      *)
Unregister(s) ==
  IF entry[number[s]] = None
  THEN UNCHANGED <<kernel, freed>>
  ELSE /\ entry' = [entry EXCEPT ![number[s]] = None]
       /\ armed' = armed \ {number[s]}
       /\ freed' = freed \cup {s}

(* Mutation: the first reference to go unregisters.                        *)
AnyReference(s, others) == TRUE

(* The reference that goes was the last.                                   *)
LastReference(s, others) == others = {}

(* Mutation: no wait at all taken for an unlimited one.                    *)
ZeroIsForever(d) == IF d.secs = 0 /\ d.millis = 0 THEN -1 ELSE d.millis

(* (as_secs() as u32 * 1000 + subsec_nanos() / 1_000_000) as i32, with     *)
(* the wrapping arithmetic of a release build.                             *)
TimeoutMs(d) ==
  LET u32 == ((((d.secs % Word) * 1000) % Word) + d.millis) % Word
  IN  IF u32 < Word \div 2 THEN u32 ELSE u32 - Word

(* epoll_wait returns by itself unless its timeout is negative.            *)
Expires(w) == wait[w] # None /\ TimeoutMs(wait[w]) >= 0
-----------------------------------------------------------------------------
(* The owner of a socket: a thread of the program, or a future.            *)

(* socket(2) or accept(2): any number not in use, though a registration    *)
(* may still remember it.                                                  *)
Create(s, f) ==
  /\ phase[s] = "new"
  /\ \A r \in Sockets : number[r] = f => ~HasFd(r)
  /\ Enter(s, "created")
  /\ number' = [number EXCEPT ![s] = f]
  /\ reused' = reused \cup {<<r, s>> : r \in {q \in Sockets : number[q] = f /\ Alive(q)}}
  /\ UNCHANGED <<kernel, freed, list, turner>>

(* register_fd_raw, from FuturesRegistration::new.                         *)
Register(s) ==
  /\ phase[s] = "created"
  /\ Enter(s, "registered")
  /\ Modify(s)
  /\ UNCHANGED <<numbers, freed, list, turner>>

(* EPOLL_CTL_ADD fails: the weak reference is dropped, the registration    *)
(* forgotten without an EPOLL_CTL_DEL, and the caller drops the socket.    *)
RegisterFails(s) ==
  /\ phase[s] = "created"
  /\ Enter(s, "gone")
  /\ UNCHANGED <<numbers, kernel, freed, list, turner>>

SetNonblocking(s) ==
  /\ phase[s] = "registered"
  /\ Enter(s, "open")
  /\ UNCHANGED <<numbers, kernel, freed, list, turner>>

(* The early return drops the registration, a local variable, before the   *)
(* socket, a parameter.                                                    *)
NonblockingFails(s) ==
  /\ phase[s] = "registered"
  /\ Enter(s, "failed")
  /\ IF LastReference(s, Holders(s))
     THEN Unregister(s)
     ELSE UNCHANGED <<kernel, freed>>
  /\ UNCHANGED <<numbers, list, turner>>

DropFailed(s) ==
  /\ phase[s] = "failed"
  /\ Enter(s, "aborted")
  /\ CloseFd(s)
  /\ UNCHANGED <<numbers, freed, list, turner>>

(* The last clone of the socket is dropped: first its field std ...        *)
DropStd(s) ==
  /\ phase[s] = "open"
  /\ Enter(s, "closed")
  /\ CloseFd(s)
  /\ UNCHANGED <<numbers, freed, list, turner>>

(* ... then its field registration.                                        *)
DropRegistration(s) ==
  /\ phase[s] = "closed"
  /\ Enter(s, "gone")
  /\ IF LastReference(s, Holders(s))
     THEN Unregister(s)
     ELSE UNCHANGED <<kernel, freed>>
  /\ UNCHANGED <<numbers, list, turner>>

(* A future of the socket puts an interest on the list, then re-arms.  If  *)
(* EPOLL_CTL_MOD fails the future resolves to the error.                   *)
AddInterest(s) ==
  /\ phase[s] = "open"
  /\ s \notin poisoned
  /\ listed' = listed \cup {s}
  /\ IF ModifyFails(s) THEN UNCHANGED kernel ELSE Modify(s)
  /\ UNCHANGED <<socket, freed, poisoned, turner>>

-----------------------------------------------------------------------------
(* Inner::poll, without an Interrupt (QueueRun has that).                  *)

Turn(w, max_wait) ==
  /\ pc[w] = "idle"
  /\ wait' = [wait EXCEPT ![w] = max_wait]
  /\ Goto(w, "wait")
  /\ UNCHANGED <<socket, kernel, freed, list, buffer, handling>>

(* epoll_wait returns some of the events, in any order, and disarms.       *)
EpollWait(w, fds) ==
  /\ pc[w] = "wait"
  /\ fds # {} /\ fds \subseteq armed /\ Cardinality(fds) <= BufferSize
  /\ buffer' = [buffer EXCEPT ![w] = {entry[f] : f \in fds}]
  /\ armed' = armed \ fds
  /\ wait' = [wait EXCEPT ![w] = None]
  /\ Goto(w, "dispatch")
  /\ UNCHANGED <<socket, entry, freed, list, handling>>

(* EINTR: the loop calls epoll_wait again, with the whole timeout.         *)
Interrupted(w) ==
  /\ pc[w] = "wait"
  /\ Goto(w, "again")
  /\ UNCHANGED <<socket, kernel, freed, list, wait, buffer, handling>>

WaitAgain(w) ==
  /\ pc[w] = "again"
  /\ Goto(w, "wait")
  /\ UNCHANGED <<socket, kernel, freed, list, wait, buffer, handling>>

TimesOut(w) ==
  /\ pc[w] = "wait"
  /\ Expires(w)
  /\ wait' = [wait EXCEPT ![w] = None]
  /\ Goto(w, "idle")
  /\ UNCHANGED <<socket, kernel, freed, list, buffer, handling>>

(* Mutation: the rest of the buffer goes with the first event.             *)
OnlyFirst(events, s) == {}

(* One round of the loop over the buffer takes one event.                  *)
Rest(events, s) == events \ {s}

(* Weak::upgrade of a pointer whose memory is still there.                 *)
Upgrade(w, s) ==
  /\ pc[w] = "dispatch"
  /\ s \in buffer[w] \ freed
  /\ buffer' = [buffer EXCEPT ![w] = Rest(@, s)]
  /\ IF Alive(s)
     THEN Goto(w, "handle") /\ handling' = [handling EXCEPT ![w] = s]
     ELSE UNCHANGED <<pc, handling>>
  /\ UNCHANGED <<socket, kernel, freed, list, wait>>

(* Weak::upgrade of a pointer whose memory is gone: the program is lost.   *)
UpgradeFreed(w, s) ==
  /\ pc[w] = "dispatch"
  /\ s \in buffer[w] \cap freed
  /\ Goto(w, "undefined")
  /\ UNCHANGED <<socket, kernel, freed, list, wait, buffer, handling>>

(* Mutation: a poisoned mutex is locked all the same.                      *)
LastDespitePoison(w) ==
  /\ pc[w] = "handle"
  /\ listed' = listed \ {handling[w]}
  /\ Goto(w, "drop")
  /\ UNCHANGED <<socket, kernel, freed, poisoned, wait, buffer, handling>>

(* handle_event, with the list locked, fires all the interests ...         *)
HandleLast(w) ==
  /\ pc[w] = "handle"
  /\ handling[w] \notin poisoned
  /\ listed' = listed \ {handling[w]}
  /\ Goto(w, "drop")
  /\ UNCHANGED <<socket, kernel, freed, poisoned, wait, buffer, handling>>

(* ... or re-arms for those that are left ...                              *)
HandleRearm(w) ==
  /\ pc[w] = "handle"
  /\ handling[w] \in listed \ poisoned
  /\ ~ModifyFails(handling[w])
  /\ Modify(handling[w])
  /\ Goto(w, "drop")
  /\ UNCHANGED <<socket, freed, list, wait, buffer, handling>>

(* ... or panics: the list's mutex is poisoned, or the re-arming fails and *)
(* poisons it.                                                             *)
HandlePanics(w) ==
  /\ pc[w] = "handle"
  /\ \/ handling[w] \in poisoned
     \/ handling[w] \in listed /\ ModifyFails(handling[w])
  /\ poisoned' = poisoned \cup {handling[w]}
  /\ Goto(w, "unwind")
  /\ UNCHANGED <<socket, kernel, freed, listed, wait, buffer, handling>>

(* The upgraded reference is dropped, by the loop or by the unwinding,     *)
(* which leaves the loop: what is in the buffer then is lost.              *)
DropUpgraded(w) ==
  LET s == handling[w] IN
  /\ pc[w] \in {"drop", "unwind"}
  /\ handling' = [handling EXCEPT ![w] = None]
  /\ IF LastReference(s, (Holders(s) \ {w})
                           \cup (IF Owned(s) THEN {s} ELSE {}))
     THEN Unregister(s)
     ELSE UNCHANGED <<kernel, freed>>
  /\ Goto(w, IF pc[w] = "drop" THEN "dispatch" ELSE "panicked")
  /\ UNCHANGED <<socket, list, wait, buffer>>

Return(w) ==
  /\ pc[w] = "dispatch"
  /\ buffer[w] = {}
  /\ Goto(w, "idle")
  /\ UNCHANGED <<socket, kernel, freed, list, wait, buffer, handling>>

-----------------------------------------------------------------------------
OwnerStep(s) ==
  \/ \E f \in Fds : Create(s, f)
  \/ Register(s) \/ RegisterFails(s)
  \/ SetNonblocking(s) \/ NonblockingFails(s) \/ DropFailed(s)
  \/ DropStd(s) \/ DropRegistration(s)
  \/ AddInterest(s)

Handle(w) == HandleLast(w) \/ HandleRearm(w) \/ HandlePanics(w)

Dispatch(w) ==
  \/ \E s \in Sockets : Upgrade(w, s) \/ UpgradeFreed(w, s)
  \/ Handle(w) \/ DropUpgraded(w) \/ Return(w)

Next ==
  \/ \E s \in Sockets : OwnerStep(s)
  \/ \E w \in Turners :
       \/ \E max_wait \in Waits \cup {None} : Turn(w, max_wait)
       \/ \E fds \in SUBSET Fds : EpollWait(w, fds)
       \/ Interrupted(w) \/ WaitAgain(w) \/ TimesOut(w)
       \/ Dispatch(w)

Spec == Init /\ [][Next]_vars

(* Threads run, handlers return, and the timer of a wait goes off if no    *)
(* signal ends that wait before.                                           *)
FairSpec ==
  /\ Spec
  /\ \A w \in Turners :
       WF_vars(Dispatch(w)) /\ WF_vars(WaitAgain(w)) /\ WF_vars(TimesOut(w))
-----------------------------------------------------------------------------
(* The values of every variable.                                           *)
TypeOK ==
  /\ phase \in [Sockets -> Phases]
  /\ number \in [Sockets -> Fds \cup {None}]
  /\ \A s \in Sockets : phase[s] # "new" => number[s] \in Fds
  /\ reused \subseteq Sockets \X Sockets
  /\ entry \in [Fds -> Sockets \cup {None}]
  /\ armed \in SUBSET {f \in Fds : entry[f] # None}
  /\ freed \subseteq Sockets
  /\ listed \subseteq Sockets /\ poisoned \subseteq listed
  /\ pc \in [Turners -> Labels]
  /\ wait \in [Turners -> Waits \cup {None}]
  /\ buffer \in [Turners -> SUBSET Sockets]
  /\ handling \in [Turners -> Sockets \cup {None}]
  /\ \A w \in Turners :
       pc[w] \in {"handle", "drop", "unwind"} <=> handling[w] # None

(* The sockets that had the number of s before and were still registered   *)
(* when s was given it.                                                    *)
Before(s) == {r \in Sockets : <<r, s>> \in reused}

(* A turner may hold the pointer of a registration that another thread is  *)
(* dropping, yet the memory is there when it is upgraded: because the      *)
(* socket is closed first, EPOLL_CTL_DEL fails and the weak reference is   *)
(* never given back.  It is for a socket that cannot be made nonblocking,  *)
(* which is dropped the other way round, and for one whose number another  *)
(* socket has been given before the EPOLL_CTL_DEL, which then succeeds.    *)
UpgradesLive ==
  \A w \in Turners : \A s \in buffer[w] :
    s \in freed => \/ phase[s] \in {"failed", "aborted"}
                  \/ \E t \in Sockets : s \in Before(t)

(* The kernel has the entry of every open socket and it leads to the       *)
(* socket's own registration, but for what a socket that had the number    *)
(* before may still do: re-arm, which makes the entry its own, and drop    *)
(* its registration, which takes the entry away.                           *)
OpenSocketsRegistered ==
  \A s \in Sockets : phase[s] = "open" =>
    \/ entry[number[s]] \in {s} \cup Before(s)
    \/ /\ entry[number[s]] = None
       /\ \E r \in Before(s) : ~Alive(r)

(* "failed to re-arm epoll registration" is no panic of a socket in use:   *)
(* the handler of an open socket has not panicked and its mutex is sound,  *)
(* unless the drop of a socket that had the number before took its entry.  *)
PanicsOnlyAfterClose ==
  \A s \in poisoned :
    \/ phase[s] \in {"closed", "gone"}
    \/ \E r \in Before(s) : ~Alive(r)

(* The interests of an open socket that has its entry are waited for: the  *)
(* kernel is armed for them, or a turner has the event in its handler or   *)
(* in its buffer.  An event is lost only in the buffer of a turner that    *)
(* panicked, or came upon freed memory, in the handling of another.        *)
InterestsAwaited ==
  \A s \in listed : phase[s] = "open" /\ entry[number[s]] = s =>
    \/ number[s] \in armed
    \/ \E w \in Turners :
         s \in buffer[w] \/ (handling[w] = s /\ pc[w] = "handle")

(* An event of an open socket reaches its handler, unless the turner that  *)
(* fetched it panics or comes upon freed memory in the handling of another.*)
EventsHandled ==
  \A w \in Turners, s \in Sockets :
    (s \in buffer[w] /\ phase[s] = "open") ~>
      \/ handling[w] = s
      \/ phase[s] # "open"
      \/ pc[w] \in {"panicked", "undefined"}

Millis(d) == d.secs * 1000 + d.millis

(* turn blocks "for at most `max_wait`", which the code keeps if the wait  *)
(* is less than 2^31 milliseconds, as a longer one may be taken for no     *)
(* limit, and if signals do not keep coming, as each starts it again.      *)
TurnsReturn ==
  \A w \in Turners :
    <>[](pc[w] # "again") =>
      (pc[w] = "wait" /\ wait[w] # None /\ Millis(wait[w]) < Word \div 2
        ~> pc[w] \notin {"wait", "again"})

(* "epoll_event is gone, we can drop the weak reference": what             *)
(* EPOLL_CTL_DEL removed was the registration's own entry.                 *)
OwnEventGone ==
  [][\A s \in freed' \ freed : entry[number[s]] = s]_vars
=============================================================================
