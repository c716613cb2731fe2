--------------------------- MODULE MCDirectLease ---------------------------
(***************************************************************************)
(* Small instances of DirectLease: the policy constants are scaled down,   *)
(* with DispatchTimeout + Accuracy = Slack (as 15 + 1 = 16) and            *)
(* LaunchReserve > Slack + 1 (as 60 + ... > 17), so that a broken promise  *)
(* of lease.check is visible inside the reserve.                           *)
(***************************************************************************)
EXTENDS DirectLease
=============================================================================
