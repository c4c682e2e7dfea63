-------------------------- MODULE MCClientDaemon ---------------------------
(* TLC instances of the client daemon: one network, one or two REST        *)
(* requests at a time, a controller that may decide between a few          *)
(* configurations.                                                         *)
EXTENDS ClientDaemon, TLC

CONSTANTS quic, udp, rest1, n1, a1, a2, lan, all

Grant(ips, routes) == [authorized |-> TRUE, ips |-> ips, routes |-> routes]

Deny(ips, routes) == [authorized |-> FALSE, ips |-> ips, routes |-> routes]

\* Readdressing, a default route that comes and goes, a refusal that keeps the address.
RichConfigs ==
  [n \in Networks |-> {Grant({a1}, {lan}), Grant({a2}, {lan, all}), Deny({a1}, {lan})}]

OneConfig == [n \in Networks |-> {Grant({a1}, {lan})}]

\* a1 is an IPv4 address, any other one IPv6; the lengths that removal assumes.
FixedLen == [a \in Addresses |-> IF a = a1 THEN 24 ELSE 128]

\* A network 10.x.y.0/24 without an IPv6 route of its own: removal is right about both.
Lan24 == [R \in SUBSET Targets |-> FixedLen]

Pause == [allowManaged |-> "keep", allowDefault |-> "keep", connected |-> "off"]

Resume == [allowManaged |-> "keep", allowDefault |-> "keep", connected |-> "on"]

PauseResume == {Pause, Resume}

Pauses == {Pause}
=============================================================================
