---------------------------- MODULE MCController ----------------------------
(* TLC instances of the embedded controller. *)
EXTENDS Controller, TLC

CONSTANTS t1, t2, n1, n2, m1, m2, a1, a2, b1, b2

\* Two IPv4 addresses for two members.
TwoAddresses == <<a1, a2>>

\* The candidates of both members collide on the first probe.
Colliding == [n \in Networks |-> [m \in Members |-> IF m = m1 THEN <<b1>> ELSE <<b1, b2>>]]

Payload(authorized, noAuto, ips) == [authorized |-> authorized, noAuto |-> noAuto, ips |-> ips]

Authorize == Payload("on", "keep", Absent)

Deauthorize == Payload("off", "keep", Absent)

\* {"ipAssignments": [], "noAutoAssignIps": true}
Unassign == Payload("keep", "on", {})

Automatic == Payload("keep", "off", Absent)

AdminPatches == {Authorize, Deauthorize, Unassign, Automatic}

OnlyAuthorize == {Authorize}

Setup(private, modes) == [private |-> private, modes |-> modes]

\* A public network with IPv4, a private one with both ranges, IPv4 switched off again.
AllSetups == {Setup("off", {"v4"}), Setup("on", {"v4", "v6", "6plane"}), Setup("keep", {"6plane"})}

TwoSetups == {Setup("on", {"v4"}), Setup("off", {"6plane"})}

\* IPv4 is switched on after members were authorized.
LateSetup == {Setup("on", {}), Setup("keep", {"v4"})}

Symmetry == Permutations(Tasks)
=============================================================================
