-------------------------- MODULE MCDirectNetwork --------------------------
(***************************************************************************)
(* Instances of DirectNetwork.  The ports and the commands are the code's, *)
(* so an instance chooses what the fabric service's stop disconnects,      *)
(* whether dispatcher hooks linger, and how often somebody else interferes.*)
(***************************************************************************)
EXTENDS DirectNetwork

OneDisconnect == {"switch2"}
=============================================================================
