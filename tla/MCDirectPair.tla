---------------------------- MODULE MCDirectPair ----------------------------
(***************************************************************************)
(* Instances of DirectPair.  The program, its two nodes and its five       *)
(* processes are fixed by the code, so an instance only chooses the        *)
(* network lifecycles and the faults: who may die or lose a reply (Mortal),*)
(* whether timers race the run (EarlyFire), whether a waiting call may     *)
(* find the lock busy for its 5 s (LockGivesUp), which remote calls may    *)
(* start after nobody waits for them (DelayedActs), and how many at a time *)
(* (MaxLate).                                                              *)
(***************************************************************************)
EXTENDS DirectPair

LateCalls == (LockActs \ {"firewall"}) \cup RawActs

\* A late firewall-ready is safe where entering and restoring are one-shot; in
\* the predeclared lifecycle it leaves rules behind (NoRuleResidue).
AllLate == [l \in Lifecycles |-> IF l = "transient-switched"
                                 THEN LateCalls \cup {"firewall"} ELSE LateCalls]
LateRules == [l \in Lifecycles |-> {"firewall"}]
NoneLate == [l \in Lifecycles |-> {}]
=============================================================================
