--------------------------- MODULE MCRegistrations ---------------------------
(***************************************************************************)
(* Waits of 0, 1 and 3 seconds, with a word of 4096: the last is beyond    *)
(* half the word and becomes negative.                                     *)
(***************************************************************************)
EXTENDS Registrations

Seconds == {[secs |-> n, millis |-> 0] : n \in {0, 1, 3}}
=============================================================================
