-------------------------- MODULE MCOwnedContainer --------------------------
(* One container is the whole system: the model needs no bound, the sets of *)
(* receipts, commands and steps are finite.                                 *)
EXTENDS OwnedContainer
=============================================================================
