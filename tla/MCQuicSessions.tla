--------------------------- MODULE MCQuicSessions ---------------------------
(* TLC instances of the sessions: a client behind a NAT and its controller. *)
EXTENDS QuicSessions, TLC

CONSTANTS cli, srv, k1, k2
=============================================================================
