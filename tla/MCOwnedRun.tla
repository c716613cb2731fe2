----------------------------- MODULE MCOwnedRun -----------------------------
(* A run always has two nodes.  The worker's container is started first,    *)
(* the order in which the calls of a rank are not always those of the other.*)
EXTENDS OwnedRun
=============================================================================
