--------------------------- MODULE MCRootResolver ---------------------------
(* TLC instances of the root resolver: the default domain, two callers.    *)
EXTENDS RootResolver, TLC

CONSTANTS root, boot, worker, rest, rest2, ip1, ip2
=============================================================================
