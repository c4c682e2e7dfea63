---------------------------- MODULE MCDataPlane -----------------------------
(* TLC instance of the data plane: two remotes, one of which reconnects.   *)
EXTENDS DataPlane, TLC

CONSTANTS ra, rb, mac, group, k1, k2, k3, outbound, loop

Ends3 == (k1 :> ra) @@ (k2 :> rb) @@ (k3 :> ra)
=============================================================================
