----------------------------- MODULE MCInterests -----------------------------
(* Instances of Interests: what the futures of a run wait for.             *)
EXTENDS Interests, TLC

CONSTANTS r1, r2, w1, c1

Duplex  == (r1 :> "read") @@ (w1 :> "write")
Connecting == Duplex @@ (c1 :> "write")
Clones  == Duplex @@ (r2 :> "read")
Accepts == (r1 :> "read") @@ (r2 :> "read")
=============================================================================
