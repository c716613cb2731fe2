---------------------------- MODULE MCLinkServer ----------------------------
(* One slot with a lease of 7 s, of which start wants 4 and keeps 2 for the *)
(* activation: a start, a delayed activation, a server that runs and every  *)
(* order of the stops all fit in the 9 s of the clock.                      *)
EXTENDS LinkServer
=============================================================================
