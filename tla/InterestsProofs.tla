--------------------------- MODULE InterestsProofs ---------------------------
(***************************************************************************)
(* Proofs about Interests, for any set of futures and any set of turners:  *)
(* type correctness, that no entry of the list is ever left with neither   *)
(* an armed registration nor an event on its way, that a future which      *)
(* waits has its task registered, and, with one future for each direction, *)
(* that it is in the list.                                                 *)
(***************************************************************************)
EXTENDS Interests, TLAPS

(* A future that tries the socket is not in the list, one about to add an  *)
(* interest has none, one about to register has one; a Connect does        *)
(* neither before its first connect(2).  Without this a resolved future    *)
(* could leave an entry behind, and TypeOK would not be inductive.         *)
PollShape ==
  /\ \A o \in Ops :
       /\ pc[o] = "io" => o \notin interests
       /\ pc[o] = "add" => ~interest[o]
       /\ pc[o] = "register" => interest[o]
  /\ connection = "none" =>
       \A c \in Connects : ~interest[c] /\ pc[c] \notin {"add", "register"}

IInv == TypeOK /\ PollShape /\ InterestCovered /\ PresentTaskRegistered

(* Initially there is no entry to look after.                              *)
LEMMA InitHolds == Init => IInv
<1> SUFFICES ASSUME Init PROVE IInv
  OBVIOUS
<1>1. pc \in [Ops -> Labels]
  BY DEF Init, Labels
<1>2. TypeOK
  BY <1>1 DEF Init, TypeOK, Directions, Connection
<1>3. PollShape
  <2>1. \A o \in Ops : pc[o] \in {"pending", "done"}
    BY DEF Init
  <2> QED BY <2>1, InterestsAssumption DEF Init, PollShape
<1>4. InterestCovered
  <2>1. Wanted(interests, orphans) = {}
    BY DEF Init, Wanted
  <2> QED BY <2>1 DEF InterestCovered
<1>5. PresentTaskRegistered
  BY DEF Init, PresentTaskRegistered, Waiting
<1> QED BY <1>2, <1>3, <1>4, <1>5 DEF IInv

(* What is wanted of a list are directions.                                *)
LEMMA WantedDirections ==
  ASSUME NEW list \in SUBSET Ops, NEW extra \in SUBSET Directions
  PROVE  Wanted(list, extra) \subseteq Directions
BY InterestsAssumption DEF Wanted

(* The list, the flags and the places in the polls stay consistent.        *)
LEMMA ShapeStep ==
  TypeOK /\ PollShape /\ [Next]_vars => TypeOK' /\ PollShape'
<1> SUFFICES ASSUME TypeOK, PollShape, [Next]_vars
             PROVE  TypeOK' /\ PollShape'
  OBVIOUS
<1> USE InterestsAssumption
    DEF TypeOK, PollShape, Labels, Directions, Connection, socket, kernel,
        handler, future, Goto
<1>1. ASSUME UNCHANGED vars PROVE TypeOK' /\ PollShape'
  BY <1>1 DEF vars
<1>2. ASSUME NEW o \in Ops, Poll(o) PROVE TypeOK' /\ PollShape'
  BY <1>2 DEF Poll
<1>3. ASSUME NEW o \in Ops, IoReady(o) PROVE TypeOK' /\ PollShape'
  BY <1>3 DEF IoReady, Resolve
<1>4. ASSUME NEW o \in Ops, IoWouldBlock(o) PROVE TypeOK' /\ PollShape'
  BY <1>4 DEF IoWouldBlock
<1>5. ASSUME NEW o \in Ops, Register(o) PROVE TypeOK' /\ PollShape'
  BY <1>5 DEF Register, PresentTask
<1>6. ASSUME NEW o \in Ops, AddInterest(o) PROVE TypeOK' /\ PollShape'
  <2>1. Wanted(interests, orphans) \subseteq Directions /\ Mask[o] \in Directions
    BY WantedDirections
  <2>2. /\ UNCHANGED socket
        /\ <<armed, mask>>' \in {<<TRUE, NewMask(o)>>, <<armed, mask>>}
    BY <1>6 DEF AddInterest, Modify
  <2>3. mask' \subseteq Directions /\ armed' \in BOOLEAN
    BY <2>1, <2>2 DEF NewMask
  <2> QED BY <1>6, <2>2, <2>3 DEF AddInterest
<1>7. ASSUME NEW o \in Ops, Start(o) PROVE TypeOK' /\ PollShape'
  BY <1>7 DEF Start
<1>8. ASSUME NEW o \in Ops, Drop(o) PROVE TypeOK' /\ PollShape'
  <2>1. /\ orphans' \subseteq Directions /\ interests' = interests \ {o}
        /\ UNCHANGED <<kernel, event>>
        /\ pc[o] = "pending" /\ notified' = [notified EXCEPT ![o] = FALSE]
    BY <1>8 DEF Drop
  <2>2. \E label \in {"done", "failed"} : Resolve(o, label)
    BY <1>8 DEF Drop
  <2> QED BY <2>1, <2>2 DEF Resolve
<1>9. ASSUME NEW w \in Turners, EpollWait(w) PROVE TypeOK' /\ PollShape'
  BY <1>9 DEF EpollWait, Reportable
<1>10. ASSUME NEW w \in Turners, HandleEvent(w) PROVE TypeOK' /\ PollShape'
  <2> DEFINE fire == {o \in interests : Fires(Mask[o], event[w])}
             left == {dir \in orphans : ~Fires(dir, event[w])}
             rest == Wanted(Unfired(fire), left)
  <2>1. rest \subseteq Directions
    BY WantedDirections DEF Unfired
  <2>2. /\ UNCHANGED socket
        /\ <<armed, mask>>' \in {<<TRUE, rest>>, <<armed, mask>>}
    BY <1>10 DEF HandleEvent, Rearm, Modify
  <2>3. mask' \subseteq Directions /\ armed' \in BOOLEAN
    <3> HIDE DEF rest
    <3> QED BY <2>1, <2>2
  <2>4. /\ interests' = interests \ fire /\ orphans' = left
        /\ fired' = [o \in Ops |-> fired[o] \/ o \in fire]
        /\ notified' = [o \in Ops |-> notified[o] \/ (o \in fire /\ registered[o])]
        /\ UNCHANGED <<interest, registered, pc>>
    BY <1>10 DEF HandleEvent, Unfired
  <2>5. event' \in [Turners -> SUBSET (Directions \cup {"hup"})]
    BY <1>10 DEF HandleEvent
  <2> QED
    <3> fire \subseteq interests /\ left \subseteq orphans
      OBVIOUS
    <3> HIDE DEF fire, left
    <3> QED BY <2>2, <2>3, <2>4, <2>5
<1>11. ASSUME NEW dir \in Directions, BecomeReady(dir)
       PROVE  TypeOK' /\ PollShape'
  BY <1>11 DEF BecomeReady
<1>12. ASSUME HangUp PROVE TypeOK' /\ PollShape'
  BY <1>12 DEF HangUp
<1>13. ASSUME NEW answer \in {"up", "refused"}, PeerAnswers(answer)
       PROVE  TypeOK' /\ PollShape'
  BY <1>13 DEF PeerAnswers
<1>14. ASSUME NEW o \in Ops, NEW outcome \in {"started", "up", "refused"},
              FirstConnect(o, outcome)
       PROVE  TypeOK' /\ PollShape'
  <2>1. level' \subseteq Directions /\ stale' \in BOOLEAN /\ hup' \in BOOLEAN
    BY <1>14 DEF FirstConnect
  <2>2. connection' = outcome /\ UNCHANGED <<armed, mask, event, handler, notified>>
    BY <1>14 DEF FirstConnect
  <2>3. CASE outcome = "started"
    BY <1>14, <2>1, <2>2, <2>3 DEF FirstConnect, WouldBlock
  <2>4. CASE outcome # "started"
    <3>1. \E label \in {"done", "failed"} : Resolve(o, label)
      BY <1>14, <2>4 DEF FirstConnect, WouldBlock
    <3>2. pc[o] = "io"
      BY <1>14 DEF FirstConnect
    <3> QED BY <2>1, <2>2, <3>1, <3>2 DEF Resolve
  <2> QED BY <2>3, <2>4
<1>15. ASSUME NEW o \in Ops, SecondConnect(o) PROVE TypeOK' /\ PollShape'
  <2>1. \E label \in {"done", "failed"} : Resolve(o, label)
    BY <1>15 DEF SecondConnect
  <2>2. /\ pc[o] = "io" /\ connection # "none"
        /\ UNCHANGED <<kernel, event, handler, notified>>
    BY <1>15 DEF SecondConnect
  <2> QED BY <2>1, <2>2 DEF Resolve
<1>16. ASSUME NEW o \in Ops, Move(o) PROVE TypeOK' /\ PollShape'
  BY <1>16 DEF Move
<1> QED
  BY <1>1, <1>2, <1>3, <1>4, <1>5, <1>6, <1>7, <1>8, <1>9, <1>10, <1>11,
     <1>12, <1>13, <1>14, <1>15, <1>16 DEF Next, RunPoll, TrySocket

(* Only handle_event takes a direction off what is wanted, and it re-arms  *)
(* for all that is left; only add_interest puts one on.                    *)
LEMMA CoveredStep ==
  TypeOK /\ InterestCovered /\ [Next]_vars => InterestCovered'
<1> SUFFICES ASSUME TypeOK, InterestCovered, [Next]_vars
             PROVE  InterestCovered'
  OBVIOUS
<1> DEFINE W == Wanted(interests, orphans)
<1> USE DEF socket, kernel, handler
<1>1. ASSUME W' \subseteq W, armed' = armed, mask' = mask, event' = event
      PROVE  InterestCovered'
  BY <1>1 DEF InterestCovered
<1>2. ASSUME interests' = interests, orphans' = orphans
      PROVE  W' = W
  BY <1>2 DEF Wanted
<1>3. ASSUME W' \subseteq mask', armed' PROVE InterestCovered'
  BY <1>3 DEF InterestCovered
<1>4. CASE UNCHANGED vars
  BY <1>4, <1>1, <1>2 DEF vars
<1>5. ASSUME NEW o \in Ops,
             \/ Poll(o) \/ TrySocket(o) \/ Register(o)
             \/ Start(o) \/ Move(o)
      PROVE  InterestCovered'
  BY <1>5, <1>1, <1>2
     DEF Poll, TrySocket, IoReady, IoWouldBlock, FirstConnect, SecondConnect,
         Register, Start, Move
<1>6. ASSUME NEW o \in Ops, AddInterest(o) PROVE InterestCovered'
  <2>1. W' = W \cup {Mask[o]}
    BY <1>6 DEF AddInterest, Wanted
  <2>2. CASE Mask[o] \in W
    BY <1>6, <1>1, <2>1, <2>2 DEF AddInterest
  <2>3. CASE Mask[o] \notin W
    BY <1>6, <1>3, <2>1, <2>3 DEF AddInterest, Modify, NewMask
  <2> QED BY <2>2, <2>3
<1>7. ASSUME NEW o \in Ops, Drop(o) PROVE InterestCovered'
  <2>1. W' \subseteq W
    BY <1>7 DEF Drop, Wanted
  <2> QED BY <1>7, <1>1, <2>1 DEF Drop
<1>8. ASSUME NEW w \in Turners, EpollWait(w) PROVE InterestCovered'
  <2>1. event'[w] # {}
    BY <1>8 DEF EpollWait, TypeOK
  <2> QED BY <2>1 DEF InterestCovered
<1>9. ASSUME NEW w \in Turners, HandleEvent(w) PROVE InterestCovered'
  <2>1. CASE W' = {}
    BY <2>1 DEF InterestCovered
  <2>2. CASE W' # {}
    <3>1. armed' /\ mask' = W'
      BY <1>9, <2>2 DEF HandleEvent, Rearm, Modify, Unfired
    <3> QED BY <1>3, <3>1
  <2> QED BY <2>1, <2>2
<1>10. ASSUME \/ \E dir \in Directions : BecomeReady(dir)
              \/ HangUp
              \/ \E answer \in {"up", "refused"} : PeerAnswers(answer)
       PROVE  InterestCovered'
  BY <1>10, <1>1, <1>2 DEF BecomeReady, HangUp, PeerAnswers
<1> QED
  BY <1>4, <1>5, <1>6, <1>7, <1>8, <1>9, <1>10 DEF Next, RunPoll

(* A poll that is to wait registers first; only a move forgets the task,   *)
(* and a moved future does not wait.                                       *)
LEMMA PresentStep ==
  TypeOK /\ PollShape /\ PresentTaskRegistered /\ [Next]_vars
    => PresentTaskRegistered'
<1> SUFFICES ASSUME TypeOK, PollShape, PresentTaskRegistered, [Next]_vars
             PROVE  PresentTaskRegistered'
  OBVIOUS
<1> USE DEF TypeOK, PollShape, PresentTaskRegistered, Waiting, future, Goto,
            Resolve
<1>1. ASSUME UNCHANGED future PROVE PresentTaskRegistered'
  BY <1>1
<1>2. CASE UNCHANGED vars
  BY <1>1, <1>2 DEF vars
<1>3. ASSUME NEW o \in Ops, RunPoll(o) PROVE PresentTaskRegistered'
  <2>1. CASE Poll(o)
    BY <2>1 DEF Poll
  <2>2. CASE TrySocket(o)
    <3>1. pc[o] # "pending" /\ UNCHANGED notified
      BY <2>2 DEF TrySocket, IoReady, IoWouldBlock, FirstConnect, SecondConnect
    <3>2. \/ UNCHANGED <<interest, registered>>
          \/ \E label \in {"done", "failed"} : Resolve(o, label)
      BY <2>2 DEF TrySocket, IoReady, IoWouldBlock, FirstConnect, SecondConnect
    <3>3. pc'[o] # "pending" /\ \A p \in Ops \ {o} : pc'[p] = pc[p]
      BY <2>2
         DEF TrySocket, IoReady, IoWouldBlock, FirstConnect, SecondConnect
    <3> QED BY <3>1, <3>2, <3>3
  <2>3. CASE Register(o)
    BY <2>3 DEF Register, PresentTask
  <2>4. CASE AddInterest(o)
    BY <2>4 DEF AddInterest
  <2> QED BY <1>3, <2>1, <2>2, <2>3, <2>4 DEF RunPoll
<1>4. ASSUME NEW o \in Ops, Start(o) \/ Move(o) \/ Drop(o)
      PROVE  PresentTaskRegistered'
  BY <1>4 DEF Start, Move, Drop
<1>5. ASSUME NEW w \in Turners, EpollWait(w) PROVE PresentTaskRegistered'
  BY <1>5, <1>1 DEF EpollWait
<1>6. ASSUME NEW w \in Turners, HandleEvent(w) PROVE PresentTaskRegistered'
  BY <1>6 DEF HandleEvent
<1>7. ASSUME \/ \E dir \in Directions : BecomeReady(dir)
             \/ HangUp
             \/ \E answer \in {"up", "refused"} : PeerAnswers(answer)
      PROVE  PresentTaskRegistered'
  BY <1>7, <1>1 DEF BecomeReady, HangUp, PeerAnswers
<1> QED BY <1>2, <1>3, <1>4, <1>5, <1>6, <1>7 DEF Next

(* The whole invariant holds of every reachable state.                     *)
THEOREM Inductive == Spec => []IInv
<1>1. IInv /\ [Next]_vars => IInv'
  BY ShapeStep, CoveredStep, PresentStep DEF IInv
<1> QED BY InitHolds, <1>1, PTL DEF Spec

(* Every variable has its type; an interest is in the list or fired, never *)
(* both and never neither.                                                 *)
THEOREM TypeCorrect == Spec => []TypeOK
<1>1. IInv => TypeOK
  BY DEF IInv
<1> QED BY Inductive, <1>1, PTL

(* No entry of handle_event's list is ever left without an armed kernel or *)
(* an event on its way, whatever turners, futures and drops do.            *)
THEOREM EntriesAreCovered == Spec => []InterestCovered
<1>1. IInv => InterestCovered
  BY DEF IInv
<1> QED BY Inductive, <1>1, PTL

(* A future that waits has its present task with its interest, however it  *)
(* has moved.                                                              *)
THEOREM PresentTaskIsRegistered == Spec => []PresentTaskRegistered
<1>1. IInv => PresentTaskRegistered
  BY DEF IInv
<1> QED BY Inductive, <1>1, PTL
-----------------------------------------------------------------------------
(* The conditions of the run interests_duplex: nobody moves or drops, one  *)
(* turner, and one future for each direction once the socket is connected. *)
Lone ==
  /\ ~MayDrop /\ ~MayMove
  /\ \A v, w \in Turners : v = w
  /\ \A o, p \in Ops \ Connects : Mask[o] = Mask[p] => o = p

(* Nobody uses the socket beside its Connect; who is done has no interest. *)
ConnectFirst ==
  /\ \A c \in Connects : pc[c] # "done" =>
       \A o \in Ops \ Connects : pc[o] = "done"
  /\ \A o \in Ops : pc[o] \in {"done", "failed"} => ~interest[o]
  /\ connection = "none" =>
       mask = {} /\ Connects # {} /\ \A c \in Connects : pc[c] # "done"
  /\ connection = "started" => level = {} /\ ~hup

(* A fired interest has woken its future, which will find the socket       *)
(* ready.                                                                  *)
FiredFindReady ==
  \A o \in Ops :
    /\ interest[o] => registered[o]
    /\ fired[o] => Ready(o) /\ (notified[o] \/ pc[o] = "io")

(* The event on its way is true and somebody is listed for it; if the      *)
(* registration has been armed again meanwhile, for another direction.     *)
EventTrue ==
  \A w \in Turners :
    /\ "hup" \in event[w] => hup
    /\ ~hup => \A dir \in event[w] : dir \in level /\ dir \in Wanted(interests, {})
    /\ armed /\ event[w] # {} => hup \/ \E p \in interests : Mask[p] \notin event[w]

(* The kernel is armed for nothing but what is listed.                     *)
MaskListed == armed => hup \/ mask \subseteq Wanted(interests, {})

(* A Connect tries again only when fired, so with an answer to report.     *)
ConnectReported ==
  \A c \in Connects :
    /\ connection # "none" /\ pc[c] = "pending" => interest[c]
    /\ connection # "none" /\ pc[c] = "io" => fired[c]
    /\ pc[c] = "failed" => connection = "refused" \/ (connection = "up" /\ hup)

LoneParts ==
  /\ orphans = {}
  /\ ConnectFirst
  /\ FiredFindReady
  /\ EventTrue
  /\ MaskListed
  /\ ConnectReported

LoneInv ==
  /\ IInv
  /\ stale => connection # "none"
  /\ stale \/ LoneParts

(* Initially nothing is fired, listed or under way.                        *)
LEMMA LoneInit == Init => LoneInv
<1> SUFFICES ASSUME Init PROVE LoneInv
  OBVIOUS
<1>1. ConnectFirst
  BY InterestsAssumption DEF Init, ConnectFirst
<1>2. FiredFindReady /\ EventTrue /\ MaskListed /\ orphans = {} /\ ~stale
  BY DEF Init, FiredFindReady, EventTrue, MaskListed
<1>3. ConnectReported
  BY InterestsAssumption DEF Init, ConnectReported
<1> QED BY <1>1, <1>2, <1>3, InitHolds DEF LoneInv, LoneParts

(* A connection is begun once.                                             *)
LEMMA StaleStays ==
  ASSUME LoneInv, [Next]_vars
  PROVE  /\ stale => stale'
         /\ stale' => connection' # "none"
<1> USE DEF LoneInv, socket, kernel, vars
<1>1. CASE \E o \in Ops : \E outcome \in {"started", "up", "refused"} :
             FirstConnect(o, outcome)
  BY <1>1 DEF FirstConnect
<1>2. CASE \E answer \in {"up", "refused"} : PeerAnswers(answer)
  BY <1>2 DEF PeerAnswers
<1>3. CASE UNCHANGED <<connection, stale>>
  BY <1>3
<1>4. \/ \E o \in Ops : \E outcome \in {"started", "up", "refused"} :
             FirstConnect(o, outcome)
      \/ \E answer \in {"up", "refused"} : PeerAnswers(answer)
      \/ UNCHANGED <<connection, stale>>
  BY DEF Next, RunPoll, TrySocket, Poll, IoReady, IoWouldBlock, SecondConnect,
         Register, AddInterest, Modify, Start, Move, Drop, EpollWait,
         HandleEvent, Rearm, BecomeReady, HangUp
<1> QED BY <1>1, <1>2, <1>3, <1>4

(* Each step keeps the parts, as long as no event is stale.                *)
LEMMA LoneStep ==
  ASSUME Lone, LoneInv, [Next]_vars, ~stale'
  PROVE  LoneParts'
<1>1. ~stale /\ LoneParts /\ IInv /\ IInv'
  BY StaleStays, ShapeStep, CoveredStep, PresentStep DEF LoneInv, IInv
<1> USE <1>1, InterestsAssumption
    DEF IInv, TypeOK, PollShape, Lone, LoneParts, ConnectFirst, FiredFindReady,
        EventTrue, MaskListed, ConnectReported, Ready, Goto, Directions, Labels, socket, kernel,
        handler, future, Wanted
<1>2. CASE UNCHANGED vars
  BY <1>2 DEF vars
<1>3. ASSUME NEW o \in Ops, Poll(o) PROVE LoneParts'
  BY <1>3 DEF Poll
<1>4. ASSUME NEW o \in Ops, IoReady(o) PROVE LoneParts'
  BY <1>4 DEF IoReady, Resolve
<1>5. ASSUME NEW o \in Ops, IoWouldBlock(o) PROVE LoneParts'
  BY <1>5 DEF IoWouldBlock
<1>6. ASSUME NEW o \in Ops, NEW outcome \in {"started", "up", "refused"},
             FirstConnect(o, outcome)
      PROVE  LoneParts'
  BY <1>6 DEF FirstConnect, Resolve, WouldBlock
<1>7. ASSUME NEW o \in Ops, SecondConnect(o) PROVE LoneParts'
  <2>1. /\ pc[o] = "io" /\ o \in Connects /\ connection \in {"up", "refused"}
        /\ UNCHANGED <<kernel, event, handler, notified>>
    BY <1>7 DEF SecondConnect, Connection
  <2>2. CASE connection = "up" /\ Resolve(o, "done")
    BY <2>1, <2>2 DEF Resolve
  <2>3. CASE (connection = "refused" \/ hup) /\ Resolve(o, "failed")
    BY <2>1, <2>3 DEF Resolve
  <2> QED BY <1>7, <2>1, <2>2, <2>3 DEF SecondConnect
<1>8. ASSUME NEW o \in Ops, Register(o) PROVE LoneParts'
  BY <1>8 DEF Register, PresentTask
<1>9. ASSUME NEW o \in Ops, AddInterest(o) PROVE LoneParts'
  <2>1. /\ pc[o] = "add" /\ pc' = [pc EXCEPT ![o] = "pending"]
        /\ interests' = interests \cup {o}
        /\ interest' = [interest EXCEPT ![o] = TRUE]
        /\ registered' = [registered EXCEPT ![o] = TRUE]
        /\ UNCHANGED <<socket, event, orphans, fired, notified>>
    BY <1>9 DEF AddInterest, Modify
  <2>2. connection # "none" /\ ~interest[o] /\ o \notin interests
    BY <2>1
  <2>3. \A p \in interests : Mask[p] # Mask[o]
    <3> SUFFICES ASSUME NEW p \in interests, Mask[p] = Mask[o] PROVE FALSE
      OBVIOUS
    <3>1. p # o /\ interest[p] /\ pc[p] \notin {"done", "failed"}
      BY <2>2
    <3> QED BY <2>1, <3>1
  <2>4. Mask[o] \notin Wanted(interests, orphans)
    BY <2>3
  <2>5. armed' /\ mask' = Wanted(interests', {})
    BY <1>9, <2>1, <2>4 DEF AddInterest, Modify, NewMask
  <2>6. /\ ConnectFirst' /\ FiredFindReady' /\ MaskListed' /\ orphans' = {}
        /\ ConnectReported'
    BY <2>1, <2>2, <2>5
  <2>7. EventTrue'
    <3> SUFFICES ASSUME NEW w \in Turners PROVE EventTrue!(w)'
      OBVIOUS
    <3>1. ~hup => \A dir \in event[w] : dir \in Wanted(interests', {}) /\ dir # Mask[o]
      BY <2>1, <2>4
    <3> QED BY <2>1, <3>1
  <2> QED BY <2>6, <2>7
<1>10. ASSUME NEW o \in Ops, Start(o) PROVE LoneParts'
  BY <1>10 DEF Start
<1>11. ASSUME NEW o \in Ops, Move(o) \/ Drop(o) PROVE LoneParts'
  BY <1>11 DEF Move, Drop
<1>12. ASSUME NEW w \in Turners, EpollWait(w) PROVE LoneParts'
  BY <1>12 DEF EpollWait, Reportable
<1>13. ASSUME NEW w \in Turners, HandleEvent(w) PROVE LoneParts'
  <2> DEFINE fire == {o \in interests : Fires(Mask[o], event[w])}
             rest == Wanted(interests \ fire, {})
  <2>1. /\ event[w] # {} /\ event' = [event EXCEPT ![w] = {}]
        /\ interests' = interests \ fire /\ orphans' = {}
        /\ fired' = [o \in Ops |-> fired[o] \/ o \in fire]
        /\ notified' = [o \in Ops |-> notified[o] \/ (o \in fire /\ registered[o])]
        /\ UNCHANGED <<socket, interest, registered, pc>>
    BY <1>13 DEF HandleEvent, Rearm, Modify, Unfired
  <2>2. IF rest # {} THEN armed' /\ mask' = rest ELSE UNCHANGED <<armed, mask>>
    BY <1>13 DEF HandleEvent, Rearm, Modify, Unfired
  <2>3. \A o \in fire : Ready(o)
    BY <2>1 DEF Fires
  <2>4. \A v \in Turners : event'[v] = {}
    BY <2>1
  <2>5. FiredFindReady'
    BY <2>1, <2>3
  <2>6. EventTrue'
    BY <2>4
  <2>7. MaskListed'
    <3>1. CASE rest # {}
      <4>1. rest = Wanted(interests', {})
        BY <2>1
      <4>2. armed' /\ mask' = Wanted(interests', {})
        BY <2>2, <3>1, <4>1
      <4> QED BY <4>2 DEF MaskListed
    <3>2. CASE rest = {} /\ armed /\ ~hup
      <4>1. PICK p \in interests : Mask[p] \notin event[w]
        BY <2>1, <3>2
      <4>2. p \notin fire
        BY <2>1, <3>2, <4>1 DEF Fires
      <4> QED BY <3>2, <4>1, <4>2
    <3>3. CASE rest = {} /\ ~(armed /\ ~hup)
      BY <2>1, <2>2, <3>3
    <3> QED BY <3>1, <3>2, <3>3
  <2>8. ConnectFirst'
    <3>1. connection = "none" => interests = {}
      BY InterestsAssumption
    <3>2. connection = "none" => rest = {}
      BY <3>1
    <3> QED BY <2>1, <2>2, <3>2
  <2>9. ConnectReported'
    BY <2>1
  <2> QED BY <2>1, <2>5, <2>6, <2>7, <2>8, <2>9
<1>14. ASSUME NEW dir \in Directions, BecomeReady(dir) PROVE LoneParts'
  BY <1>14 DEF BecomeReady
<1>15. CASE HangUp
  BY <1>15 DEF HangUp
<1>16. ASSUME NEW answer \in {"up", "refused"}, PeerAnswers(answer)
       PROVE  LoneParts'
  BY <1>16 DEF PeerAnswers
<1> QED
  BY <1>2, <1>3, <1>4, <1>5, <1>6, <1>7, <1>8, <1>9, <1>10, <1>11, <1>12,
     <1>13, <1>14, <1>15, <1>16 DEF Next, RunPoll, TrySocket

(* The invariant holds of every reachable state.                           *)
LEMMA LoneInvariant == Spec /\ []Lone => []LoneInv
<1>1. Lone /\ LoneInv /\ [Next]_vars => LoneInv'
  <2> SUFFICES ASSUME Lone, LoneInv, [Next]_vars PROVE LoneInv'
    OBVIOUS
  <2>1. IInv'
    BY ShapeStep, CoveredStep, PresentStep DEF LoneInv, IInv
  <2> QED BY <2>1, StaleStays, LoneStep DEF LoneInv
<1> QED BY LoneInit, <1>1, PTL DEF Spec

(* A future that waits is in the list, where the event will find it: for   *)
(* any Ops and Mask with one future for each direction, and one turner.    *)
THEOREM LoneWaitersAreListed == Spec /\ []Lone => []WaitersAreListed
<1>1. LoneInv => WaitersAreListed
  BY DEF LoneInv, LoneParts, IInv, TypeOK, PresentTaskRegistered, Waiting,
         FiredFindReady, WaitersAreListed
<1> QED BY LoneInvariant, <1>1, PTL

(* A Connect never fails with EALREADY, but for an event from before the   *)
(* connection was begun.                                                   *)
THEOREM LoneConnectFailsForAReason ==
  Spec /\ []Lone => []ConnectFailsForAReason
<1>1. LoneInv => ConnectFailsForAReason
  BY DEF LoneInv, LoneParts, ConnectReported, ConnectFailsForAReason
<1> QED BY LoneInvariant, <1>1, PTL

(* What LoneDirectionServed rests on: the registration would report, now   *)
(* that the direction of a waiting future alone is ready, what fires its   *)
(* interest, or an event is under way.                                     *)
NextEventFires ==
  \A o \in Ops : Waiting(o) /\ level = {Mask[o]} /\ ~stale =>
    \/ armed /\ Reportable # {} /\ Fires(Mask[o], Reportable)
    \/ \E w \in Turners : event[w] # {}

(* Under the same conditions a future never waits for a socket that is     *)
(* ready in its direction alone with nothing left to wake it.              *)
THEOREM LoneReadyIsReported == Spec /\ []Lone => []NextEventFires
<1>1. InterestCovered /\ WaitersAreListed => NextEventFires
  <2> SUFFICES ASSUME InterestCovered, WaitersAreListed,
                      NEW o \in Ops, Waiting(o), level = {Mask[o]}, ~stale,
                      \A w \in Turners : event[w] = {}
               PROVE  armed /\ Reportable # {} /\ Fires(Mask[o], Reportable)
    BY DEF NextEventFires
  <2>1. armed /\ Mask[o] \in mask
    BY DEF WaitersAreListed, InterestCovered, Wanted
  <2> QED BY <2>1 DEF Reportable, Fires
<1> QED BY <1>1, EntriesAreCovered, LoneWaitersAreListed, PTL
=============================================================================
