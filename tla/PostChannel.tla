----------------------------- MODULE PostChannel -----------------------------
(***************************************************************************)
(* What Handle::post_custom_event promises of one custom event: each datum *)
(* posted is passed to the event's handler once, in the order of posting.  *)
(* It does not promise that the datum of a post that failed stays away.    *)
(***************************************************************************)
EXTENDS Sequences

CONSTANT Data    \* the data passed to post_custom_event

VARIABLES
  chan,          \* posted and not yet handled, oldest first
  handled        \* the calls of the handler so far

vars == <<chan, handled>>

Init == chan = <<>> /\ handled = <<>>

Post(d) ==
  /\ chan' = Append(chan, d)
  /\ UNCHANGED handled

Deliver ==
  /\ chan # <<>>
  /\ chan' = Tail(chan)
  /\ handled' = Append(handled, Head(chan))

Next == Deliver \/ \E d \in Data : Post(d)

Spec == Init /\ [][Next]_vars
=============================================================================
