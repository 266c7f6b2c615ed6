------------------------- MODULE RegistrationsProofs -------------------------
(***************************************************************************)
(* Proofs about Registrations, for any sets of sockets, descriptor numbers *)
(* and turners, and any size of the event buffer, and however numbers are  *)
(* given out again: what an open socket can suffer from others is what a   *)
(* registration that outlived the close of the same number does to it.     *)
(*                                                                         *)
(* The argument: the sockets that share a number are the one with the open *)
(* descriptor and the registrations it found alive (HeirsKnow), so an      *)
(* entry leads to one of these (EntriesHaveOwners), and a re-arming or an  *)
(* EPOLL_CTL_DEL that is not the socket's own is of a socket in Before.    *)
(* Those are past their close, so the dead among them stay dead.           *)
(* TimeoutExact is about the conversion of durations alone.                *)
(***************************************************************************)
EXTENDS Registrations, TLAPS

(* Numbers of open descriptors are unique.                                 *)
OneSocketPerNumber ==
  \A s, t \in Sockets :
    HasFd(s) /\ HasFd(t) /\ number[s] = number[t] => s = t

(* A registration that outlives its descriptor is known to the socket that *)
(* has the number now.                                                     *)
HeirsKnow ==
  \A r, s \in Sockets :
    Alive(r) /\ ~HasFd(r) /\ HasFd(s) /\ number[r] = number[s] => r \in Before(s)

(* Sockets in Before have been closed.                                     *)
BeforeIsPast ==
  \A r, s \in Sockets : r \in Before(s) =>
    phase[r] \in {"closed", "gone", "aborted"} /\ phase[s] # "new"

(* The kernel has entries only under numbers of registered sockets, and    *)
(* they lead to that socket or to one that had the number before.          *)
EntriesHaveOwners ==
  \A f \in Fds : entry[f] # None =>
    /\ number[entry[f]] = f
    /\ \E s \in Sockets : /\ phase[s] \in {"registered", "open", "failed"}
                          /\ number[s] = f
                          /\ entry[f] \in {s} \cup Before(s)

(* OpenSocketsRegistered, for sockets that are not yet nonblocking too.    *)
Registered(s) ==
  \/ entry[number[s]] \in {s} \cup Before(s)
  \/ entry[number[s]] = None /\ \E r \in Before(s) : ~Alive(r)

RegisteredHaveEntries ==
  \A s \in Sockets : phase[s] \in {"registered", "open"} => Registered(s)

FreedHadHeirs ==
  \A s \in freed : \/ phase[s] \in {"failed", "aborted"}
                   \/ \E t \in Sockets : s \in Before(t)

(* A pointer is given to the kernel, and by it to the turners, when its    *)
(* socket is registered: TypeOK needs this, for a handler re-arms by the   *)
(* number that the registration keeps.                                     *)
PointersRegistered ==
  \A s \in Sockets : phase[s] \in {"new", "created"} =>
    /\ \A f \in Fds : entry[f] # s
    /\ \A w \in Turners : s \notin buffer[w] /\ handling[w] # s

ListedAfterOpen == \A s \in listed : phase[s] \in {"open", "closed", "gone"}

(* The handler of an open socket panics only when the entry is gone, which *)
(* then never comes back.                                                  *)
PoisonedHaveNone ==
  \A s \in poisoned : phase[s] = "open" => entry[number[s]] = None

(* What the inductive invariant adds to types.                             *)
Safe ==
  /\ OneSocketPerNumber
  /\ HeirsKnow
  /\ BeforeIsPast
  /\ EntriesHaveOwners
  /\ RegisteredHaveEntries
  /\ FreedHadHeirs
  /\ ListedAfterOpen
  /\ PoisonedHaveNone

IInv == TypeOK /\ PointersRegistered /\ Safe

-----------------------------------------------------------------------------
(* Initially no socket has a number and the kernel has no entry.           *)
LEMMA InitHolds == Init => IInv
  BY RegistrationsAssumption
     DEF Init, IInv, Safe, TypeOK, OneSocketPerNumber, HeirsKnow, BeforeIsPast,
         EntriesHaveOwners, RegisteredHaveEntries, FreedHadHeirs,
         PointersRegistered, ListedAfterOpen, PoisonedHaveNone, HasFd, Before,
         Phases, Labels

(* The variables keep their types.                                         *)
LEMMA TypeStep ==
  TypeOK /\ PointersRegistered /\ [Next]_vars => TypeOK' /\ PointersRegistered'
<1> SUFFICES ASSUME TypeOK, PointersRegistered, [Next]_vars
             PROVE  TypeOK' /\ PointersRegistered'
  OBVIOUS
<1> USE RegistrationsAssumption
    DEF TypeOK, PointersRegistered, Phases, Labels, numbers, socket, kernel,
        list, turner, Enter, Goto
<1>1. CASE UNCHANGED vars
  BY <1>1 DEF vars
<1>2. ASSUME NEW s \in Sockets, OwnerStep(s) PROVE TypeOK' /\ PointersRegistered'
  <2>1. ASSUME NEW f \in Fds, Create(s, f) PROVE TypeOK' /\ PointersRegistered'
    BY <2>1 DEF Create
  <2>2. CASE Register(s)
    BY <2>2 DEF Register, Modify
  <2>3. CASE RegisterFails(s)
    BY <2>3 DEF RegisterFails
  <2>4. CASE SetNonblocking(s)
    BY <2>4 DEF SetNonblocking
  <2>5. CASE NonblockingFails(s)
    BY <2>5 DEF NonblockingFails, Unregister
  <2>6. CASE DropFailed(s)
    BY <2>6 DEF DropFailed, CloseFd
  <2>7. CASE DropStd(s)
    BY <2>7 DEF DropStd, CloseFd
  <2>8. CASE DropRegistration(s)
    BY <2>8 DEF DropRegistration, Unregister
  <2>9. CASE AddInterest(s)
    BY <2>9 DEF AddInterest, Modify
  <2> QED BY <1>2, <2>1, <2>2, <2>3, <2>4, <2>5, <2>6, <2>7, <2>8, <2>9
          DEF OwnerStep
<1>3. ASSUME NEW w \in Turners, NEW max_wait \in Waits \cup {None},
             Turn(w, max_wait)
      PROVE  TypeOK' /\ PointersRegistered'
  BY <1>3 DEF Turn
<1>4. ASSUME NEW w \in Turners, NEW fds \in SUBSET Fds, EpollWait(w, fds)
      PROVE  TypeOK' /\ PointersRegistered'
  <2>1. {entry[f] : f \in fds} \subseteq Sockets
    BY <1>4 DEF EpollWait
  <2> QED BY <1>4, <2>1 DEF EpollWait
<1>5. ASSUME NEW w \in Turners, Interrupted(w) \/ WaitAgain(w) \/ TimesOut(w)
      PROVE  TypeOK' /\ PointersRegistered'
  BY <1>5 DEF Interrupted, WaitAgain, TimesOut
<1>6. ASSUME NEW w \in Turners, Dispatch(w) PROVE TypeOK' /\ PointersRegistered'
  <2>1. ASSUME NEW s \in Sockets, Upgrade(w, s) PROVE TypeOK' /\ PointersRegistered'
    BY <2>1 DEF Upgrade, Rest
  <2>2. ASSUME NEW s \in Sockets, UpgradeFreed(w, s) PROVE TypeOK' /\ PointersRegistered'
    BY <2>2 DEF UpgradeFreed
  <2>3. CASE HandleLast(w)
    BY <2>3 DEF HandleLast
  <2>4. CASE HandleRearm(w)
    <3>1. handling[w] \in Sockets /\ number[handling[w]] \in Fds
      BY <2>4 DEF HandleRearm
    <3> QED BY <2>4, <3>1 DEF HandleRearm, Modify, ModifyFails
  <2>5. CASE HandlePanics(w)
    BY <2>5 DEF HandlePanics
  <2>6. CASE DropUpgraded(w)
    <3>1. handling[w] \in Sockets /\ number[handling[w]] \in Fds
      BY <2>6 DEF DropUpgraded
    <3> QED BY <2>6, <3>1 DEF DropUpgraded, Unregister
  <2>7. CASE Return(w)
    BY <2>7 DEF Return
  <2> QED BY <1>6, <2>1, <2>2, <2>3, <2>4, <2>5, <2>6, <2>7
          DEF Dispatch, Handle
<1> QED BY <1>1, <1>2, <1>3, <1>4, <1>5, <1>6 DEF Next

-----------------------------------------------------------------------------
(* Who has a number.                                                       *)

(* What may still use the number of an open descriptor is its own socket   *)
(* or one in Before.                                                       *)
LEMMA NumberUsers ==
  ASSUME IInv, NEW s \in Sockets, HasFd(s), NEW r \in Sockets,
         HasFd(r) \/ Alive(r), number[r] = number[s]
  PROVE  r \in {s} \cup Before(s)
BY DEF IInv, Safe, OneSocketPerNumber, HeirsKnow

(* The step of one socket's owner.                                         *)
LEMMA OwnerNumbers ==
  ASSUME IInv, NEW s \in Sockets, OwnerStep(s)
  PROVE  OneSocketPerNumber' /\ HeirsKnow' /\ BeforeIsPast'
<1> USE RegistrationsAssumption
    DEF IInv, Safe, TypeOK, PointersRegistered, numbers, socket, turner, Enter,
        OneSocketPerNumber, HeirsKnow, BeforeIsPast, Before,
        HasFd, Alive, Owned, Holders, Phases
<1>1. ASSUME NEW f \in Fds, Create(s, f)
      PROVE  OneSocketPerNumber' /\ HeirsKnow' /\ BeforeIsPast'
  BY <1>1 DEF Create
<1>2. CASE Register(s)
  BY <1>2 DEF Register
<1>3. CASE RegisterFails(s)
  BY <1>3 DEF RegisterFails
<1>4. CASE SetNonblocking(s)
  BY <1>4 DEF SetNonblocking
<1>5. CASE NonblockingFails(s)
  BY <1>5 DEF NonblockingFails
<1>6. CASE DropFailed(s)
  BY <1>6 DEF DropFailed
<1>7. CASE DropStd(s)
  BY <1>7 DEF DropStd
<1>8. CASE DropRegistration(s)
  BY <1>8 DEF DropRegistration
<1>9. CASE AddInterest(s)
  BY <1>9 DEF AddInterest
<1> QED BY <1>1, <1>2, <1>3, <1>4, <1>5, <1>6, <1>7, <1>8, <1>9 DEF OwnerStep

(* The steps of a turner.                                                  *)
TurnerStep(w) ==
  \/ \E max_wait \in Waits \cup {None} : Turn(w, max_wait)
  \/ \E fds \in SUBSET Fds : EpollWait(w, fds)
  \/ Interrupted(w) \/ WaitAgain(w) \/ TimesOut(w)
  \/ Dispatch(w)

(* No step of a turner opens or closes a descriptor, and none brings a     *)
(* dead registration back.                                                 *)
LEMMA TurnerNumbers ==
  ASSUME IInv, NEW w \in Turners, TurnerStep(w)
  PROVE  /\ UNCHANGED socket
         /\ \A r \in Sockets : Alive(r)' => Alive(r)
         /\ OneSocketPerNumber' /\ HeirsKnow' /\ BeforeIsPast'
<1>1. UNCHANGED socket
  BY DEF TurnerStep, Dispatch, Handle, Turn, EpollWait, Interrupted, WaitAgain,
     TimesOut, Upgrade, UpgradeFreed, HandleLast, HandleRearm, HandlePanics,
     DropUpgraded, Return
<1>2. \A r \in Sockets : Alive(r)' => Alive(r)
  <2>1. ASSUME NEW s \in Sockets, Upgrade(w, s)
        PROVE  \A r \in Sockets : Alive(r)' => Alive(r)
    BY <1>1, <2>1 DEF Upgrade, Alive, Owned, Holders, socket, IInv, TypeOK
  <2>2. CASE DropUpgraded(w)
    BY <1>1, <2>2, RegistrationsAssumption
       DEF DropUpgraded, Alive, Owned, Holders, socket, IInv, TypeOK
  <2>3. CASE UNCHANGED handling
    BY <1>1, <2>3 DEF Alive, Owned, Holders, socket
  <2> QED BY <2>1, <2>2, <2>3
          DEF TurnerStep, Dispatch, Handle, Turn, EpollWait, Interrupted,
              WaitAgain, TimesOut, UpgradeFreed, HandleLast, HandleRearm,
              HandlePanics, Return
<1> QED BY <1>1, <1>2
        DEF IInv, Safe, socket, numbers, OneSocketPerNumber, HeirsKnow,
            BeforeIsPast, Before, HasFd

(* A socket in Before stays there, and stays dead.                         *)
LEMMA DeadStayDead ==
  ASSUME IInv, NEW r \in Sockets, NEW s \in Sockets, r \in Before(s), ~Alive(r),
         \/ \E t \in Sockets : OwnerStep(t)
         \/ \E w \in Turners : TurnerStep(w)
  PROVE  r \in Before(s)' /\ ~Alive(r)'
<1>1. phase[r] \in {"gone", "aborted"}
  BY DEF IInv, Safe, BeforeIsPast, Alive, Owned
<1>2. ASSUME NEW t \in Sockets, OwnerStep(t) PROVE r \in Before(s)' /\ ~Alive(r)'
  BY <1>1, <1>2
     DEF IInv, TypeOK, OwnerStep, Create, Register, RegisterFails,
         SetNonblocking, NonblockingFails, DropFailed, DropStd,
         DropRegistration, AddInterest, Enter, numbers, socket, turner,
         Before, Alive, Owned, Holders
<1>3. ASSUME NEW w \in Turners, TurnerStep(w) PROVE r \in Before(s)' /\ ~Alive(r)'
  BY <1>3, TurnerNumbers DEF Before, socket, numbers
<1> QED BY <1>2, <1>3
-----------------------------------------------------------------------------
(* What a step may do to the kernel's list.                                *)

Step == \/ \E s \in Sockets : OwnerStep(s)
        \/ \E w \in Turners : TurnerStep(w)

Led == EntriesHaveOwners /\ RegisteredHaveEntries /\ FreedHadHeirs

(* A registered or open socket keeps what it has if its entry stays, or is *)
(* one of a socket before it.                                              *)
LEMMA StaysRegistered ==
  ASSUME IInv, Step, NEW s \in Sockets, Registered(s),
         number'[s] = number[s],
         entry'[number[s]] \in {entry[number[s]], s} \cup Before(s)
  PROVE  Registered(s)'
<1>1. Before(s) \subseteq Before(s)'
  BY DEF Step, OwnerStep, TurnerStep, Dispatch, Handle, Turn, EpollWait,
     Interrupted, WaitAgain, TimesOut, Upgrade, UpgradeFreed, HandleLast,
     HandleRearm, HandlePanics, DropUpgraded, Return, Create, Register,
     RegisterFails, SetNonblocking, NonblockingFails, DropFailed, DropStd,
     DropRegistration, AddInterest, socket, numbers, Before
<1>2. CASE entry'[number[s]] \in {s} \cup Before(s)
  BY <1>1, <1>2 DEF Registered
<1>3. CASE entry'[number[s]] = None /\ \E r \in Before(s) : ~Alive(r)
  <2>1. PICK r \in Before(s) : ~Alive(r)
    BY <1>3
  <2>2. r \in Before(s)' /\ ~Alive(r)'
    BY <2>1, DeadStayDead DEF Step, Before
  <2> QED BY <1>3, <2>2 DEF Registered
<1> QED BY <1>2, <1>3 DEF Registered

(* EPOLL_CTL_MOD of a socket or registration that is in use.               *)
LEMMA Rearmed ==
  ASSUME IInv, Step, NEW t \in Sockets, Alive(t),
         ~ModifyFails(t), Modify(t), UNCHANGED <<socket, freed>>
  PROVE  Led'
<1> USE DEF socket, numbers, IInv, Safe, TypeOK
<1>1. number[t] \in Fds /\ phase[t] \notin {"new", "created"}
  BY DEF Alive, Owned, Holders, PointersRegistered
<1>2. EntriesHaveOwners'
  <2>1. PICK s \in Sockets : /\ phase[s] \in {"registered", "open", "failed"}
                             /\ number[s] = number[t]
    BY <1>1 DEF EntriesHaveOwners, ModifyFails
  <2>2. t \in {s} \cup Before(s)
    BY <2>1, NumberUsers DEF HasFd
  <2> QED BY <1>1, <2>1, <2>2 DEF EntriesHaveOwners, Modify, Before
<1>3. ASSUME NEW s \in Sockets, phase[s] \in {"registered", "open"}
      PROVE  Registered(s)'
  <2>1. number[s] = number[t] => t \in {s} \cup Before(s)
    BY <1>3, NumberUsers DEF HasFd
  <2>2. entry'[number[s]] \in {entry[number[s]], s} \cup Before(s)
    BY <1>1, <1>3, <2>1 DEF Modify
  <2> QED BY <1>3, <2>2, StaysRegistered DEF RegisteredHaveEntries
<1> QED BY <1>2, <1>3 DEF Led, RegisteredHaveEntries, FreedHadHeirs, Before

(* The drop of the last reference to a registration, whose socket is       *)
(* closed or could not be made nonblocking.                                *)
LEMMA Unregistered ==
  ASSUME IInv, Step, NEW t \in Sockets, HasFd(t) \/ Alive(t), ~Alive(t)',
         phase[t] \notin {"new", "created"},
         Unregister(t), UNCHANGED numbers,
         phase'[t] \in {"failed", "aborted", "gone"},
         HasFd(t) => phase'[t] = "failed",
         \A s \in Sockets \ {t} : phase'[s] = phase[s],
         phase[t] \in {"failed", "aborted"} => phase'[t] = phase[t]
  PROVE  Led'
<1> USE DEF numbers, IInv, Safe, TypeOK
<1>1. number[t] \in Fds
  OBVIOUS
<1>2. EntriesHaveOwners'
  <2> SUFFICES ASSUME NEW f \in Fds, entry'[f] # None
               PROVE  EntriesHaveOwners!(f)'
    BY DEF EntriesHaveOwners
  <2>1. entry'[f] = entry[f]
    BY <1>1 DEF Unregister, kernel
  <2>2. PICK s \in Sockets : /\ phase[s] \in {"registered", "open", "failed"}
                             /\ number[s] = f
                             /\ entry[f] \in {s} \cup Before(s)
    BY <2>1 DEF EntriesHaveOwners
  <2>3. phase'[s] \in {"registered", "open", "failed"}
    BY <2>2 DEF HasFd
  <2> QED BY <2>1, <2>2, <2>3 DEF EntriesHaveOwners, Before
<1>3. ASSUME NEW s \in Sockets, phase'[s] \in {"registered", "open"}
      PROVE  Registered(s)'
  <2>1. s # t /\ phase[s] = phase'[s] /\ Registered(s) /\ HasFd(s)
    BY <1>3 DEF RegisteredHaveEntries, HasFd
  <2>2. CASE number[s] = number[t] /\ entry[number[t]] # None
    <3>1. t \in Before(s)
      BY <2>1, <2>2, NumberUsers
    <3>2. t \in Before(s)' /\ entry'[number[s]] = None
      BY <1>1, <2>2, <3>1 DEF Before, Unregister
    <3> QED BY <3>2 DEF Registered
  <2>3. CASE ~(number[s] = number[t] /\ entry[number[t]] # None)
    <3>1. entry'[number[s]] = entry[number[s]]
      BY <1>1, <2>1, <2>3 DEF Unregister, kernel, HasFd
    <3> QED BY <2>1, <3>1, StaysRegistered
  <2> QED BY <2>2, <2>3
<1>4. FreedHadHeirs'
  <2>1. ASSUME NEW s \in freed PROVE FreedHadHeirs!(s)'
    <3>1. CASE phase[s] \in {"failed", "aborted"}
      BY <2>1, <3>1 DEF FreedHadHeirs
    <3>2. CASE \E u \in Sockets : s \in Before(u)
      BY <3>2 DEF FreedHadHeirs, Before
    <3> QED BY <2>1, <3>1, <3>2 DEF FreedHadHeirs
  <2>2. ASSUME entry[number[t]] # None
        PROVE  FreedHadHeirs!(t)'
    <3>1. PICK s \in Sockets : /\ phase[s] \in {"registered", "open", "failed"}
                               /\ number[s] = number[t]
      BY <1>1, <2>2 DEF EntriesHaveOwners
    <3>2. t \in {s} \cup Before(s)
      BY <3>1, NumberUsers DEF HasFd
    <3> QED BY <3>1, <3>2 DEF Before, HasFd
  <2> QED BY <2>1, <2>2 DEF FreedHadHeirs, Unregister
<1> QED BY <1>2, <1>3, <1>4 DEF Led, RegisteredHaveEntries

(* close(2) of a socket's descriptor.                                      *)
LEMMA Closed ==
  ASSUME IInv, Step, NEW t \in Sockets, HasFd(t), phase[t] # "created", CloseFd(t),
         UNCHANGED <<numbers, freed>>,
         phase'[t] \in {"closed", "aborted"},
         phase[t] = "failed" => phase'[t] = "aborted",
         \A s \in Sockets \ {t} : phase'[s] = phase[s]
  PROVE  Led'
<1> USE DEF numbers, IInv, Safe, TypeOK, CloseFd
<1>1. number[t] \in Fds
  BY DEF HasFd
<1>2. EntriesHaveOwners'
  <2> SUFFICES ASSUME NEW f \in Fds, entry'[f] # None
               PROVE  EntriesHaveOwners!(f)'
    BY DEF EntriesHaveOwners
  <2>1. entry'[f] = entry[f] /\ f # number[t]
    BY <1>1
  <2>2. PICK s \in Sockets : /\ phase[s] \in {"registered", "open", "failed"}
                             /\ number[s] = f
                             /\ entry[f] \in {s} \cup Before(s)
    BY <2>1 DEF EntriesHaveOwners
  <2>3. phase'[s] = phase[s]
    BY <2>1, <2>2
  <2> QED BY <2>1, <2>2, <2>3 DEF EntriesHaveOwners, Before
<1>3. ASSUME NEW s \in Sockets, phase'[s] \in {"registered", "open"}
      PROVE  Registered(s)'
  <2>1. s # t /\ phase[s] = phase'[s] /\ Registered(s) /\ HasFd(s)
    BY <1>3 DEF RegisteredHaveEntries, HasFd
  <2>2. number[s] # number[t]
    BY <2>1 DEF OneSocketPerNumber
  <2> QED BY <2>1, <2>2, StaysRegistered
<1>4. FreedHadHeirs'
  <2> SUFFICES ASSUME NEW s \in freed PROVE FreedHadHeirs!(s)'
    BY DEF FreedHadHeirs
  <2>1. CASE phase[s] \in {"failed", "aborted"}
    BY <2>1 DEF FreedHadHeirs, HasFd
  <2>2. CASE \E u \in Sockets : s \in Before(u)
    BY <2>2 DEF FreedHadHeirs, Before
  <2> QED BY <2>1, <2>2 DEF FreedHadHeirs
<1> QED BY <1>2, <1>3, <1>4 DEF Led, RegisteredHaveEntries

(* A step that leaves the list alone.                                      *)
LEMMA Untouched ==
  ASSUME IInv, Step, UNCHANGED <<entry, freed>>,
         \A s \in Sockets : number'[s] = number[s] \/ phase'[s] = "created",
         \A s \in Sockets :
           phase[s] # "new" => number'[s] = number[s],
         \A s \in Sockets :
           \/ phase'[s] = phase[s]
           \/ phase[s] \notin {"registered", "open", "failed", "aborted"}
                /\ phase'[s] \notin {"registered", "open"}
           \/ phase[s] = "registered" /\ phase'[s] \in {"open", "failed"},
         reused \subseteq reused'
  PROVE  Led'
<1> USE DEF IInv, Safe, TypeOK
<1>1. EntriesHaveOwners'
  <2> SUFFICES ASSUME NEW f \in Fds, entry[f] # None
               PROVE  EntriesHaveOwners!(f)'
    BY DEF EntriesHaveOwners
  <2>1. PICK s \in Sockets : /\ phase[s] \in {"registered", "open", "failed"}
                             /\ number[s] = f
                             /\ entry[f] \in {s} \cup Before(s)
    BY DEF EntriesHaveOwners
  <2>2. entry[f] \in Sockets /\ number[entry[f]] = f /\ phase[entry[f]] # "new"
    BY DEF EntriesHaveOwners, PointersRegistered
  <2> QED BY <2>1, <2>2 DEF Before
<1>2. RegisteredHaveEntries'
  BY StaysRegistered DEF RegisteredHaveEntries
<1>3. FreedHadHeirs'
  BY DEF FreedHadHeirs, Before
<1> QED BY <1>1, <1>2, <1>3 DEF Led

-----------------------------------------------------------------------------
(* The kernel's list is led by the sockets' owners ...                     *)
LEMMA OwnerKeepsLed ==
  ASSUME IInv, NEW s \in Sockets, OwnerStep(s)
  PROVE  Led'
<1> USE DEF socket, numbers, kernel, list, turner, Enter
<1>0. Step /\ TypeOK /\ PointersRegistered
  BY DEF Step, IInv
<1>1. ASSUME NEW f \in Fds, Create(s, f) PROVE Led'
  BY <1>0, <1>1, Untouched DEF Create, TypeOK, Phases
<1>2. CASE Register(s)
  <2>1. /\ phase[s] = "created" /\ number[s] \in Fds /\ UNCHANGED <<numbers, freed>>
        /\ phase' = [phase EXCEPT ![s] = "registered"]
        /\ entry' = [entry EXCEPT ![number[s]] = s]
    BY <1>0, <1>2 DEF Register, Modify, TypeOK
  <2>2. EntriesHaveOwners'
    <3> SUFFICES ASSUME NEW f \in Fds, entry'[f] # None
                 PROVE  EntriesHaveOwners!(f)'
      BY DEF EntriesHaveOwners
    <3>1. CASE f = number[s]
      BY <1>0, <2>1, <3>1 DEF EntriesHaveOwners, TypeOK
    <3>2. CASE f # number[s]
      <4>1. entry'[f] = entry[f]
        BY <1>0, <2>1, <3>2 DEF TypeOK
      <4>2. PICK u \in Sockets : /\ phase[u] \in {"registered", "open", "failed"}
                                 /\ number[u] = f
                                 /\ entry[f] \in {u} \cup Before(u)
        BY <4>1 DEF IInv, Safe, EntriesHaveOwners
      <4>3. phase'[u] = phase[u]
        BY <1>0, <2>1, <4>2 DEF TypeOK
      <4>4. number'[entry'[f]] = f
        BY <2>1, <4>1 DEF EntriesHaveOwners, IInv, Safe
      <4>5. number'[u] = f /\ entry'[f] \in {u} \cup Before(u)'
        BY <2>1, <4>1, <4>2 DEF Before
      <4> QED BY <4>2, <4>3, <4>4, <4>5 DEF EntriesHaveOwners
    <3> QED BY <3>1, <3>2
  <2>3. ASSUME NEW u \in Sockets, phase'[u] \in {"registered", "open"}
        PROVE  Registered(u)'
    <3>1. CASE u = s
      BY <1>0, <2>1, <3>1 DEF Registered, TypeOK
    <3>2. CASE u # s
      <4>1. phase[u] = phase'[u] /\ Registered(u)
        BY <1>0, <2>1, <2>3, <3>2 DEF TypeOK, IInv, Safe, RegisteredHaveEntries
      <4>2. number[u] # number[s]
        BY <2>1, <2>3, <3>2, <4>1 DEF IInv, Safe, OneSocketPerNumber, HasFd
      <4>3. number'[u] = number[u] /\ entry'[number[u]] = entry[number[u]]
        BY <1>0, <2>1, <2>3, <4>1, <4>2 DEF TypeOK
      <4> QED BY <1>0, <4>1, <4>3, StaysRegistered
    <3> QED BY <3>1, <3>2
  <2>4. FreedHadHeirs'
    BY <1>0, <2>1 DEF FreedHadHeirs, IInv, Safe, TypeOK, Before
  <2> QED BY <2>2, <2>3, <2>4 DEF Led, RegisteredHaveEntries
<1>3. CASE RegisterFails(s)
  BY <1>0, <1>3, Untouched DEF RegisterFails, TypeOK, Phases
<1>4. CASE SetNonblocking(s)
  BY <1>0, <1>4, Untouched DEF SetNonblocking, TypeOK, Phases
<1>5. CASE NonblockingFails(s)
  <2>1. CASE LastReference(s, Holders(s))
    <3>1. ~Alive(s)'
      BY <1>0, <1>5, <2>1
         DEF NonblockingFails, LastReference, Alive, Owned, Holders, TypeOK
    <3>2. Unregister(s)
      BY <1>5, <2>1 DEF NonblockingFails
    <3> QED BY <1>0, <1>5, <3>1, <3>2, Unregistered
            DEF NonblockingFails, TypeOK, HasFd
  <2>2. CASE ~LastReference(s, Holders(s))
    BY <1>0, <1>5, <2>2, Untouched DEF NonblockingFails, TypeOK, Phases
  <2> QED BY <2>1, <2>2
<1>6. CASE DropFailed(s)
  BY <1>0, <1>6, Closed DEF DropFailed, TypeOK, HasFd
<1>7. CASE DropStd(s)
  BY <1>0, <1>7, Closed DEF DropStd, TypeOK, HasFd
<1>8. CASE DropRegistration(s)
  <2>1. CASE LastReference(s, Holders(s))
    <3>1. ~Alive(s)' /\ Alive(s)
      BY <1>0, <1>8, <2>1
         DEF DropRegistration, LastReference, Alive, Owned, Holders, TypeOK
    <3>2. Unregister(s)
      BY <1>8, <2>1 DEF DropRegistration
    <3> QED BY <1>0, <1>8, <3>1, <3>2, Unregistered
            DEF DropRegistration, TypeOK, HasFd
  <2>2. CASE ~LastReference(s, Holders(s))
    BY <1>0, <1>8, <2>2, Untouched DEF DropRegistration, TypeOK, Phases
  <2> QED BY <2>1, <2>2
<1>9. CASE AddInterest(s)
  <2>1. CASE ModifyFails(s)
    BY <1>0, <1>9, <2>1, Untouched DEF AddInterest
  <2>2. CASE ~ModifyFails(s)
    BY <1>0, <1>9, <2>2, Rearmed DEF AddInterest, Alive, Owned
  <2> QED BY <2>1, <2>2
<1> QED BY <1>1, <1>2, <1>3, <1>4, <1>5, <1>6, <1>7, <1>8, <1>9 DEF OwnerStep

(* ... and by the turners that re-arm or drop a registration.              *)
LEMMA TurnerKeepsLed ==
  ASSUME IInv, NEW w \in Turners, TurnerStep(w)
  PROVE  Led'
<1> USE DEF socket, numbers, kernel
<1>0. Step /\ TypeOK /\ UNCHANGED socket
  BY TurnerNumbers DEF Step, IInv
<1>1. CASE UNCHANGED <<entry, freed>>
  BY <1>0, <1>1, Untouched
<1>2. CASE HandleRearm(w)
  <2>1. handling[w] \in Sockets /\ Alive(handling[w])
    BY <1>0, <1>2, RegistrationsAssumption
       DEF HandleRearm, TypeOK, Alive, Holders
  <2> QED BY <1>0, <1>2, <2>1, Rearmed DEF HandleRearm
<1>3. CASE DropUpgraded(w)
  <2> PICK s : s = handling[w]
    OBVIOUS
  <2>1. /\ s \in Sockets /\ Alive(s) /\ number[s] \in Fds
        /\ phase[s] \in Phases \ {"new", "created"}
    BY <1>0, <1>3, RegistrationsAssumption
       DEF DropUpgraded, TypeOK, Alive, Holders, IInv, PointersRegistered
  <2> DEFINE others == (Holders(s) \ {w}) \cup (IF Owned(s) THEN {s} ELSE {})
  <2>2. CASE LastReference(s, others)
    <3>1. ~Owned(s) /\ Holders(s) \subseteq {w}
      BY <2>2 DEF LastReference
    <3>2. ~Alive(s)'
      BY <1>0, <1>3, <3>1, RegistrationsAssumption
         DEF DropUpgraded, Alive, Owned, Holders, TypeOK
    <3>3. Unregister(s)
      BY <1>3, <2>2 DEF DropUpgraded
    <3>4. phase[s] \in {"failed", "aborted", "gone"}
      BY <2>1, <3>1 DEF Owned, Phases
    <3> QED BY <1>0, <2>1, <3>2, <3>3, <3>4, Unregistered DEF HasFd
  <2>3. CASE ~LastReference(s, others)
    BY <1>1, <1>3, <2>3 DEF DropUpgraded
  <2> QED BY <2>2, <2>3
<1> QED BY <1>1, <1>2, <1>3
        DEF TurnerStep, Dispatch, Handle, Turn, EpollWait, Interrupted,
            WaitAgain, TimesOut, Upgrade, UpgradeFreed, HandleLast,
            HandlePanics, Return

-----------------------------------------------------------------------------
(* The lists of interests: a mutex of an open socket is poisoned only when *)
(* the entry is gone, and nothing brings it back.                          *)
LEMMA ListsStep ==
  ASSUME IInv, Step
  PROVE  ListedAfterOpen' /\ PoisonedHaveNone'
<1> USE RegistrationsAssumption
    DEF IInv, Safe, TypeOK, ListedAfterOpen, PoisonedHaveNone,
        socket, numbers, kernel, list, turner, Enter, Modify, ModifyFails
<1>1. ASSUME NEW s \in Sockets, OwnerStep(s)
      PROVE  ListedAfterOpen' /\ PoisonedHaveNone'
  <2>1. CASE Register(s)
    BY <2>1 DEF Register, OneSocketPerNumber, HasFd
  <2>2. CASE NonblockingFails(s) \/ DropRegistration(s)
    BY <2>2 DEF NonblockingFails, DropRegistration, Unregister
  <2>3. CASE DropFailed(s) \/ DropStd(s)
    BY <2>3 DEF DropFailed, DropStd, CloseFd
  <2>4. CASE AddInterest(s)
    BY <2>4 DEF AddInterest, OneSocketPerNumber, HasFd
  <2>5. CASE RegisterFails(s) \/ SetNonblocking(s) \/ \E f \in Fds : Create(s, f)
    BY <2>5 DEF RegisterFails, SetNonblocking, Create
  <2> QED BY <1>1, <2>1, <2>2, <2>3, <2>4, <2>5 DEF OwnerStep
<1>2. ASSUME NEW w \in Turners, TurnerStep(w)
      PROVE  ListedAfterOpen' /\ PoisonedHaveNone'
  <2>0. UNCHANGED socket
    BY <1>2, TurnerNumbers
  <2>1. CASE HandleLast(w)
    BY <2>0, <2>1 DEF HandleLast
  <2>2. CASE HandleRearm(w)
    BY <2>0, <2>2 DEF HandleRearm
  <2>3. CASE HandlePanics(w)
    BY <2>0, <2>3 DEF HandlePanics
  <2>4. CASE DropUpgraded(w)
    BY <2>0, <2>4 DEF DropUpgraded, Unregister
  <2>5. CASE UNCHANGED <<entry, list>>
    BY <2>0, <2>5
  <2> QED BY <1>2, <2>1, <2>2, <2>3, <2>4, <2>5
          DEF TurnerStep, Dispatch, Handle, Turn, EpollWait, Interrupted,
              WaitAgain, TimesOut, Upgrade, UpgradeFreed, Return
<1> QED BY <1>1, <1>2 DEF Step

(* The invariant is kept by every step.                                    *)
LEMMA InvariantStep == IInv /\ [Next]_vars => IInv'
<1> SUFFICES ASSUME IInv, [Next]_vars PROVE IInv'
  OBVIOUS
<1>1. TypeOK' /\ PointersRegistered'
  BY TypeStep DEF IInv
<1>2. CASE UNCHANGED vars
  <2> USE <1>2 DEF vars, socket, numbers, kernel, list, turner, IInv, Safe,
                   Before, HasFd
  <2>1. \A s \in Sockets : Alive(s)' <=> Alive(s)
    BY DEF Alive, Owned, Holders
  <2>2. OneSocketPerNumber' /\ HeirsKnow' /\ BeforeIsPast'
    BY <2>1 DEF OneSocketPerNumber, HeirsKnow, BeforeIsPast
  <2>3. EntriesHaveOwners'
    BY DEF EntriesHaveOwners
  <2>4. RegisteredHaveEntries' /\ FreedHadHeirs'
    BY <2>1 DEF RegisteredHaveEntries, Registered, FreedHadHeirs
  <2>5. ListedAfterOpen' /\ PoisonedHaveNone'
    BY DEF ListedAfterOpen, PoisonedHaveNone
  <2> QED BY <1>1, <2>2, <2>3, <2>4, <2>5
<1>3. CASE Step
  BY <1>1, <1>3, OwnerNumbers, TurnerNumbers, OwnerKeepsLed, TurnerKeepsLed,
     ListsStep DEF Step, IInv, Safe, Led
<1> QED BY <1>2, <1>3 DEF Next, Step, TurnerStep

-----------------------------------------------------------------------------
(* The variables have their types.                                         *)
THEOREM TypeCorrect == Spec => []TypeOK
<1>1. Init => TypeOK /\ PointersRegistered
  BY InitHolds DEF IInv
<1> QED BY <1>1, TypeStep, PTL DEF Spec

(* Descriptor numbers, registrations and the kernel's entries stay in the  *)
(* relation that the header describes, at every moment.                    *)
THEOREM Invariant == Spec => []IInv
BY InitHolds, InvariantStep, PTL DEF Spec

(* No turner upgrades a pointer whose memory is gone, but that of a socket *)
(* that could not be made nonblocking, or whose number was given out again *)
(* before its EPOLL_CTL_DEL.                                               *)
THEOREM PointersLive == Spec => []UpgradesLive
<1>1. IInv => UpgradesLive
  BY DEF IInv, Safe, TypeOK, FreedHadHeirs, UpgradesLive
<1> QED BY <1>1, Invariant, PTL

(* An open socket is deaf, or hears for another, only if its number was    *)
(* given out while the registration that had it before was alive.          *)
THEOREM SocketsHeard == Spec => []OpenSocketsRegistered
<1>1. IInv => OpenSocketsRegistered
  BY DEF IInv, Safe, RegisteredHaveEntries, Registered, OpenSocketsRegistered
<1> QED BY <1>1, Invariant, PTL

(* The expect of handle_event fails only for sockets that were closed, or  *)
(* whose entry the drop of an older registration took.                     *)
THEOREM OpenSocketsDoNotPanic == Spec => []PanicsOnlyAfterClose
<1>1. ASSUME IInv PROVE PanicsOnlyAfterClose
  <2> SUFFICES ASSUME NEW s \in poisoned, phase[s] = "open"
               PROVE  \E r \in Before(s) : ~Alive(r)
    BY <1>1 DEF IInv, Safe, TypeOK, ListedAfterOpen, PanicsOnlyAfterClose
  <2>1. entry[number[s]] = None /\ Registered(s)
    BY <1>1 DEF IInv, Safe, TypeOK, PoisonedHaveNone, RegisteredHaveEntries
  <2>2. None \notin {s} \cup Before(s)
    BY <1>1, RegistrationsAssumption DEF Before, IInv, TypeOK
  <2> QED BY <2>1, <2>2 DEF Registered
<1> QED BY <1>1, Invariant, PTL

-----------------------------------------------------------------------------
(* Events are in the buffer of a turner only until it has dispatched them  *)
(* or has stopped for good, so none is overwritten by the next epoll_wait. *)
BuffersDispatched ==
  \A w \in Turners : buffer[w] # {} => pc[w] \notin {"idle", "wait", "again"}

LEMMA BuffersStep ==
  TypeOK /\ BuffersDispatched /\ [Next]_vars => BuffersDispatched'
<1> SUFFICES ASSUME TypeOK, BuffersDispatched, [Next]_vars
             PROVE  BuffersDispatched'
  OBVIOUS
<1> USE DEF TypeOK, BuffersDispatched, turner, Goto
<1>1. CASE UNCHANGED turner
  BY <1>1
<1>2. ASSUME NEW w \in Turners, TurnerStep(w) PROVE BuffersDispatched'
  BY <1>2 DEF TurnerStep, Turn, EpollWait, Interrupted, WaitAgain, TimesOut,
     Dispatch, Upgrade, Rest, UpgradeFreed, Handle, HandleLast, HandleRearm,
     HandlePanics, DropUpgraded, Return
<1>3. ASSUME NEW s \in Sockets, OwnerStep(s) PROVE UNCHANGED turner
  BY <1>3 DEF OwnerStep, Create, Register, RegisterFails, SetNonblocking,
     NonblockingFails, DropFailed, DropStd, DropRegistration, AddInterest
<1> QED BY <1>1, <1>2, <1>3 DEF Next, TurnerStep, vars

(* The steps of owners disarm no open socket but their own, and leave the  *)
(* turners alone; where they remove its entry, nothing is promised.        *)
LEMMA OwnerKeepsAwaited ==
  ASSUME IInv, InterestsAwaited, NEW s \in Sockets, OwnerStep(s)
  PROVE  InterestsAwaited'
<1> USE RegistrationsAssumption
    DEF IInv, Safe, TypeOK, InterestsAwaited, ListedAfterOpen, HasFd,
        numbers, socket, kernel, list, turner, Enter
<1>1. ASSUME NEW f \in Fds, Create(s, f) PROVE InterestsAwaited'
  BY <1>1 DEF Create
<1>2. CASE Register(s)
  BY <1>2 DEF Register, Modify
<1>3. CASE RegisterFails(s)
  BY <1>3 DEF RegisterFails
<1>4. CASE SetNonblocking(s)
  BY <1>4 DEF SetNonblocking
<1>5. CASE NonblockingFails(s)
  BY <1>5 DEF NonblockingFails, Unregister
<1>6. CASE DropFailed(s)
  BY <1>6 DEF DropFailed, CloseFd
<1>7. CASE DropStd(s)
  BY <1>7 DEF DropStd, CloseFd
<1>8. CASE DropRegistration(s)
  BY <1>8 DEF DropRegistration, Unregister
<1>9. CASE AddInterest(s)
  BY <1>9 DEF AddInterest, Modify, ModifyFails
<1> QED BY <1>1, <1>2, <1>3, <1>4, <1>5, <1>6, <1>7, <1>8, <1>9
        DEF OwnerStep

(* A turner passes the event on: out of epoll_wait into its buffer, from   *)
(* there to the handler, and from that back to the kernel.                 *)
LEMMA TurnerKeepsAwaited ==
  ASSUME IInv, BuffersDispatched, InterestsAwaited, NEW w \in Turners,
         TurnerStep(w)
  PROVE  InterestsAwaited'
<1> USE RegistrationsAssumption
    DEF IInv, Safe, TypeOK, InterestsAwaited, numbers, socket, kernel, list,
        turner, Goto
<1>1. ASSUME NEW max_wait \in Waits \cup {None}, Turn(w, max_wait)
      PROVE  InterestsAwaited'
  BY <1>1 DEF Turn
<1>2. ASSUME NEW fds \in SUBSET Fds, EpollWait(w, fds)
      PROVE  InterestsAwaited'
  <2> SUFFICES ASSUME NEW s \in listed, phase[s] = "open", entry[number[s]] = s
               PROVE  InterestsAwaited!(s)'
    BY <1>2 DEF EpollWait
  <2>1. CASE number[s] \in fds
    <3>1. s \in buffer'[w]
      BY <1>2, <2>1 DEF EpollWait
    <3> QED BY <3>1
  <2>2. CASE number[s] \in armed \ fds
    BY <1>2, <2>2 DEF EpollWait
  <2>3. CASE number[s] \notin armed
    <3>1. PICK v \in Turners : \/ s \in buffer[v]
                               \/ handling[v] = s /\ pc[v] = "handle"
      BY <2>3
    <3>2. v # w
      BY <1>2, <3>1 DEF EpollWait, BuffersDispatched
    <3> QED BY <1>2, <3>1, <3>2 DEF EpollWait
  <2> QED BY <1>2, <2>1, <2>2, <2>3 DEF EpollWait
<1>3. CASE Interrupted(w) \/ WaitAgain(w) \/ TimesOut(w)
  BY <1>3 DEF Interrupted, WaitAgain, TimesOut
<1>4. ASSUME NEW s \in Sockets, Upgrade(w, s) PROVE InterestsAwaited'
  BY <1>4 DEF Upgrade, Rest, Alive, Owned
<1>5. ASSUME NEW s \in Sockets, UpgradeFreed(w, s) PROVE InterestsAwaited'
  BY <1>5 DEF UpgradeFreed
<1>6. CASE HandleLast(w)
  BY <1>6 DEF HandleLast
<1>7. CASE HandleRearm(w)
  BY <1>7 DEF HandleRearm, Modify
<1>8. CASE HandlePanics(w)
  BY <1>8 DEF HandlePanics, ModifyFails, PoisonedHaveNone
<1>9. CASE DropUpgraded(w)
  BY <1>9 DEF DropUpgraded, Unregister
<1>10. CASE Return(w)
  BY <1>10 DEF Return
<1> QED BY <1>1, <1>2, <1>3, <1>4, <1>5, <1>6, <1>7, <1>8, <1>9, <1>10
        DEF TurnerStep, Dispatch, Handle

(* The interests of an open socket that has its entry are waited for,      *)
(* however registrations, drops and turners interleave.                    *)
THEOREM InterestsAreAwaited == Spec => []InterestsAwaited
<1>1. Init => BuffersDispatched /\ InterestsAwaited
  BY DEF Init, BuffersDispatched, InterestsAwaited
<1>2. IInv => TypeOK
  BY DEF IInv
<1>3. IInv /\ BuffersDispatched /\ InterestsAwaited /\ [Next]_vars
      => InterestsAwaited'
  <2> SUFFICES ASSUME IInv, BuffersDispatched, InterestsAwaited, [Next]_vars
               PROVE  InterestsAwaited'
    OBVIOUS
  <2>1. CASE Next
    BY <2>1, OwnerKeepsAwaited, TurnerKeepsAwaited DEF Next, TurnerStep
  <2>2. CASE UNCHANGED vars
    BY <2>2 DEF vars, socket, numbers, kernel, list, turner, InterestsAwaited
  <2> QED BY <2>1, <2>2
<1> QED BY <1>1, <1>2, <1>3, BuffersStep, Invariant, PTL DEF Spec

-----------------------------------------------------------------------------
(* What fits is its own remainder.                                         *)
LEMMA Fits == \A n \in Nat : n < Word => n % Word = n
  BY WordAssumption, SMT

(* For any width of the word, a wait of less than half of it reaches       *)
(* epoll_wait as the milliseconds it stands for: none of the casts, the    *)
(* multiplication and the addition of poll wraps, and the sign is right.   *)
THEOREM TimeoutExact ==
  ASSUME NEW d \in [secs : Nat, millis : 0 .. 999],
         Millis(d) < Word \div 2
  PROVE  TimeoutMs(d) = Millis(d)
<1>1. Word \div 2 < Word /\ Word \div 2 \in Nat /\ Word \in Nat
  BY WordAssumption
<1>2. /\ d.secs \in Nat /\ d.secs * 1000 \in Nat /\ d.millis \in Nat
      /\ d.secs <= d.secs * 1000 /\ Millis(d) \in Nat
      /\ d.secs * 1000 <= Millis(d)
  BY DEF Millis
<1>3. /\ d.secs % Word = d.secs
      /\ (d.secs * 1000) % Word = d.secs * 1000
      /\ Millis(d) % Word = Millis(d)
  BY <1>1, <1>2, Fits
<1> QED BY <1>3 DEF TimeoutMs, Millis
=============================================================================
