------------------------------ MODULE MCStaging ------------------------------
(***************************************************************************)
(* What the head does before and around the direct network: the staging    *)
(* and arming of the pair, and the slots it uses over ssh.  The two share  *)
(* no variable, so nothing is gained by interleaving them: a behaviour     *)
(* runs one of them, chosen in the initial state.                          *)
(***************************************************************************)
EXTENDS DirectStage, LinkTransport

VARIABLE part

stagingVars == <<part, stageVars, transportVars>>

\* Two clocks that differ by more than any lease lasts.
TwoClocks == [r \in Rank |-> IF r = 0 THEN 0 ELSE 20]

ServerAndClient == <<"server", "client">>

StagingInit ==
    /\ part \in {"stage", "transport"}
    /\ StageInit /\ TransportInit

StagingNext ==
    \/ part = "stage" /\ StageNext /\ UNCHANGED <<part, transportVars>>
    \/ part = "transport" /\ TransportNext /\ UNCHANGED <<part, stageVars>>

StagingSpec == StagingInit /\ [][StagingNext]_stagingVars
=============================================================================
