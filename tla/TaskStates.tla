------------------------------ MODULE TaskStates ------------------------------
(***************************************************************************)
(* What an executor promises to its root futures, the thread pool to those *)
(* it was given and EventQueue::run to its one: a future is scheduled      *)
(* because it was spawned or notified, and for no other reason; one thread *)
(* at a time polls it; a notification during a poll makes that poll be     *)
(* repeated, and only such a one does.                                     *)
(***************************************************************************)
CONSTANTS
  Tasks,
  Again,     \* is the repeated poll under way at once, "running", or
             \* only "scheduled"?
  MayLose    \* may a notification fail to schedule its task?

(* "new", "scheduled" (to be polled), "running" (being polled),           *)
(* "notified" (being polled, and notified since), "idle" (waiting for a    *)
(* notification), "lost" (idle, but beyond notification), "done"           *)
(* (resolved) or "dropped" (with its queue).                               *)
VARIABLE state

Init == state \in [Tasks -> {"new", "scheduled"}]

Goes(t, from, to) ==
  /\ state[t] = from
  /\ state' = [state EXCEPT ![t] = to]

Spawn(t) == Goes(t, "new", "scheduled")

Poll(t) == Goes(t, "scheduled", "running")

(* A task that is scheduled or notified already has its notification.      *)
Notify(t) == Goes(t, "idle", "scheduled") \/ Goes(t, "running", "notified")

NotReady(t) == Goes(t, "running", "idle") \/ Goes(t, "notified", Again)

Ready(t) == Goes(t, "running", "done") \/ Goes(t, "notified", "done")

(* Outside the pool, its notify panics when it should schedule the task.   *)
Lose(t) == MayLose /\ Goes(t, "idle", "lost")

(* A worker that exits drops the tasks in its queues.                      *)
Discard(S) ==
  /\ \A t \in S : state[t] = "scheduled"
  /\ state' = [t \in Tasks |-> IF t \in S THEN "dropped" ELSE state[t]]

Next ==
  \/ \E t \in Tasks : \/ Spawn(t) \/ Poll(t) \/ Notify(t) \/ NotReady(t)
                     \/ Ready(t) \/ Lose(t)
  \/ \E S \in SUBSET Tasks : Discard(S)

Spec == Init /\ [][Next]_state
===============================================================================
