-------------------------- MODULE LinkServerProofs --------------------------
(***************************************************************************)
(* What holds of a link slot for every lease, reserve and budget.  The     *)
(* inductive invariant says what each receipt and each step of the lock's  *)
(* holder knows of the unit (Activation, Holder), that no time limit       *)
(* outlasts the lease (Timing), and what a stop receipt and a completion   *)
(* have settled (Settled).                                                 *)
(***************************************************************************)
EXTENDS LinkServer, TLAPS

(* The one request leads to the one activation, and that to the one end.    *)
Activation ==
    /\ Has("attempted") => Has("prepared")
    /\ ~Has("attempted") => ~request /\ unit = "none" /\ ended = "no"
    /\ request => unit = "none" /\ ended = "no" /\ ~Has("executing")
    /\ Has("executing") => Has("attempted")
    /\ Has("executing") /\ unit = "none" => ended # "no"
    /\ unit \in {"worker", "server"} => ended = "no"
    /\ unit \in {"failed", "expired"} => ended # "no"
    /\ unit = "exited" => ended = "natural"
    /\ unit \in {"server", "exited", "stopping"} => Has("executing")
    /\ unit = "worker" /\ worker \in {"limit", "limited", "guard", "exec"}
          => Has("executing")
    /\ unit = "worker" => worker # "none"
    /\ orphans => unit \in {"exited", "stopping"}

(* What the holder of the lock has made sure of.                            *)
Holder ==
    /\ job = "dispatch" =>
          /\ Has("attempted") /\ ~Has("stopped") /\ ~Has("executing")
          /\ ~request /\ unit = "none" /\ ended = "no"
    /\ job \in {"query", "stop", "confirm"} => Has("canceled")
    /\ job \in {"stop", "confirm"} => Has("before-stop")
    /\ Has("before-stop") => Has("executing")

Timing ==
    /\ since <= now
    /\ unit \in {"worker", "server"} => now <= since + runtime
    /\ unit = "worker" /\ worker # "admit" => since + runtime <= Deadline
    /\ unit = "server" => since + runtime <= Deadline

Settled == ServerInsideLease /\ StoppedStaysTrue /\ CompletedIsNatural

SlotInv == TypeOK /\ Activation /\ Holder /\ Timing /\ Settled

(* The initial state of a slot satisfies every part.                        *)
LEMMA InitSlotInv == Init => SlotInv
<1> SUFFICES ASSUME Init PROVE SlotInv
  OBVIOUS
<1> USE SlotPolicy DEF Init, Has
<1>1. TypeOK
  BY DEF TypeOK, Receipts
<1>2. Activation /\ Holder
  BY DEF Activation, Holder
<1>3. Timing
  BY DEF Timing, Deadline
<1>4. Settled
  BY DEF Settled, ServerInsideLease, StoppedStaysTrue, StoppedState,
     CompletedIsNatural
<1> QED
  BY <1>1, <1>2, <1>3, <1>4 DEF SlotInv

(* Every step keeps the slot well typed.                                    *)
LEMMA NextTypeOK == TypeOK /\ [Next]_vars => TypeOK'
<1> SUFFICES ASSUME TypeOK, [Next]_vars PROVE TypeOK'
  OBVIOUS
<1> USE SlotPolicy DEF TypeOK, Receipts, Write, service, slot
<1>1. CASE StartIntent
  <2> PICK remaining \in {Deadline - now - 1, Deadline - now} :
        remaining >= MinBudget /\ runtime' = remaining - Reserve
    BY <1>1 DEF StartIntent, Enough
  <2>1. runtime' \in Nat
    BY DEF Deadline
  <2> QED
    BY <1>1, <2>1 DEF StartIntent
<1>2. CASE Prepare
  BY <1>2 DEF Prepare
<1>3. CASE StartDispatch \/ StartConfirm
  BY <1>3 DEF StartDispatch, StartConfirm
<1>4. CASE Admit \/ Recheck \/ Record \/ Limit \/ Limited \/ Guard \/ Exec
  BY <1>4 DEF Admit, Recheck, Record, Limit, Limited, Guard, Exec
<1>5. CASE WaitSuccess
  BY <1>5 DEF WaitSuccess
<1>10. CASE StopCancel
  BY <1>10 DEF StopCancel
<1>11. CASE StopNever
  BY <1>11 DEF StopNever
<1>12. CASE StopIntent
  BY <1>12 DEF StopIntent
<1>13. CASE StopRecovered
  BY <1>13 DEF StopRecovered
<1>14. CASE StopAgain
  BY <1>14 DEF StopAgain
<1>15. CASE StopRequest
  BY <1>15 DEF StopRequest
<1>16. CASE StopConfirm
  BY <1>16 DEF StopConfirm
<1>17. CASE Leave
  BY <1>17 DEF Leave
<1>18. CASE Activate
  BY <1>18 DEF Activate
<1>19. CASE Fail
  BY <1>19 DEF Fail
<1>20. CASE Exit
  BY <1>20 DEF Exit
<1>21. CASE OrphansEnd
  BY <1>21 DEF OrphansEnd
<1>22. CASE Expire
  BY <1>22 DEF Expire
<1>23. CASE Stopped
  BY <1>23 DEF Stopped
<1>24. CASE Collect
  BY <1>24 DEF Collect
<1>9. CASE Tick
  BY <1>9 DEF Tick
<1>6. CASE UNCHANGED vars
  BY <1>6 DEF vars
<1> QED
  BY <1>1, <1>2, <1>3, <1>4, <1>5, <1>6, <1>9, <1>10, <1>11, <1>12, <1>13,
     <1>14, <1>15, <1>16, <1>17, <1>18, <1>19, <1>20, <1>21, <1>22, <1>23,
     <1>24 DEF Next

(* Every step keeps the invariant: one case per action.                     *)
LEMMA NextSlotInv == SlotInv /\ [Next]_vars => SlotInv'
<1> SUFFICES ASSUME SlotInv, [Next]_vars PROVE SlotInv'
  OBVIOUS
<1>t. TypeOK /\ TypeOK'
  BY NextTypeOK DEF SlotInv
<1> USE <1>t, SlotPolicy DEF TypeOK, Write, service, slot, Has, Deadline,
        Settled, ServerInsideLease, StoppedStaysTrue, StoppedState,
        CompletedIsNatural
<1>a. Activation /\ Holder /\ Timing /\ Settled
  BY DEF SlotInv
<1> DEFINE Rest == Activation /\ Holder /\ Timing /\ Settled
<1>1. ASSUME Prepare PROVE Rest'
  BY <1>1, <1>a DEF Prepare, Activation, Holder, Timing
<1>2. ASSUME StartIntent PROVE Rest'
  BY <1>2, <1>a DEF StartIntent, Startable, Activation, Holder, Timing
<1>3. ASSUME StartDispatch PROVE Rest'
  BY <1>3, <1>a DEF StartDispatch, Activation, Holder, Timing
<1>4. ASSUME StartConfirm PROVE Rest'
  BY <1>4, <1>a DEF StartConfirm, Activation, Holder, Timing
<1>5. ASSUME Admit PROVE Rest'
  BY <1>5, <1>a DEF Admit, RuntimeFits, Activation, Holder, Timing
<1>6. ASSUME Recheck PROVE Rest'
  BY <1>6, <1>a DEF Recheck, Activation, Holder, Timing
<1>7. ASSUME Record PROVE Rest'
  BY <1>7, <1>a DEF Record, Activation, Holder, Timing
<1>8. ASSUME Limit PROVE Rest'
  BY <1>8, <1>a DEF Limit, Activation, Holder, Timing
<1>9. ASSUME Limited PROVE Rest'
  BY <1>9, <1>a DEF Limited, Activation, Holder, Timing
<1>10. ASSUME Guard PROVE Rest'
  BY <1>10, <1>a DEF Guard, Activation, Holder, Timing
<1>11. ASSUME Exec PROVE Rest'
  BY <1>11, <1>a DEF Exec, Activation, Holder, Timing
<1>12. ASSUME WaitSuccess PROVE Rest'
  <2>1. ended = "natural"
    BY <1>12, <1>a DEF WaitSuccess, NaturalExit, Activation
  <2> QED
    BY <1>12, <1>a, <2>1 DEF WaitSuccess, Activation, Holder, Timing
<1>13. ASSUME StopCancel PROVE Rest'
  BY <1>13, <1>a DEF StopCancel, Activation, Holder, Timing
<1>14. ASSUME StopNever PROVE Rest'
  BY <1>14, <1>a DEF StopNever, NeverAttempted, Activation, Holder, Timing
<1>15. ASSUME StopIntent PROVE Rest'
  BY <1>15, <1>a DEF StopIntent, Identified, Activation, Holder, Timing
<1>16. ASSUME StopRecovered PROVE Rest'
  BY <1>16, <1>a DEF StopRecovered, Activation, Holder, Timing
<1>17. ASSUME StopAgain PROVE Rest'
  BY <1>17, <1>a DEF StopAgain, Activation, Holder, Timing
<1>18. ASSUME StopRequest PROVE Rest'
  BY <1>18, <1>a DEF StopRequest, Activation, Holder, Timing
<1>19. ASSUME StopConfirm PROVE Rest'
  BY <1>19, <1>a DEF StopConfirm, Activation, Holder, Timing
<1>20. ASSUME Leave PROVE Rest'
  BY <1>20, <1>a DEF Leave, Activation, Holder, Timing
<1>21. ASSUME Activate PROVE Rest'
  BY <1>21, <1>a DEF Activate, Activation, Holder, Timing
<1>22. ASSUME Fail PROVE Rest'
  BY <1>22, <1>a DEF Fail, Activation, Holder, Timing
<1>23. ASSUME Exit PROVE Rest'
  BY <1>23, <1>a DEF Exit, Activation, Holder, Timing
<1>24. ASSUME OrphansEnd PROVE Rest'
  BY <1>24, <1>a DEF OrphansEnd, Activation, Holder, Timing
<1>25. ASSUME Expire PROVE Rest'
  BY <1>25, <1>a DEF Expire, Activation, Holder, Timing
<1>26. ASSUME Stopped PROVE Rest'
  BY <1>26, <1>a DEF Stopped, Activation, Holder, Timing
<1>27. ASSUME Collect PROVE Rest'
  BY <1>27, <1>a DEF Collect, Activation, Holder, Timing
<1>28. ASSUME Tick PROVE Rest'
  BY <1>28, <1>a DEF Tick, Activation, Holder, Timing
<1>29. ASSUME UNCHANGED vars PROVE Rest'
  BY <1>29, <1>a DEF vars, Activation, Holder, Timing
<1>30. Rest'
  BY <1>1, <1>2, <1>3, <1>4, <1>5, <1>6, <1>7, <1>8, <1>9, <1>10, <1>11,
     <1>12, <1>13, <1>14, <1>15, <1>16, <1>17, <1>18, <1>19, <1>20, <1>21,
     <1>22, <1>23, <1>24, <1>25, <1>26, <1>27, <1>28, <1>29 DEF Next
<1> QED
  BY <1>30 DEF SlotInv

-----------------------------------------------------------------------------
(* The invariant holds in every reachable state, whatever the policy.       *)
THEOREM SlotInvariant == Spec => []SlotInv
  BY InitSlotInv, NextSlotInv, PTL DEF Spec

(* The slot keeps its types for every policy.                               *)
THEOREM SlotTypeCorrect == Spec => []TypeOK
<1>1. SlotInv => TypeOK
  BY DEF SlotInv
<1> QED
  BY <1>1, SlotInvariant, PTL

(* For every lease, reserve and budget no server runs behind its deadline.  *)
THEOREM ServerInsideLeaseHolds == Spec => []ServerInsideLease
<1>1. SlotInv => ServerInsideLease
  BY DEF SlotInv, Settled
<1> QED
  BY <1>1, SlotInvariant, PTL

(* A positive stop receipt stays true in every interleaving.                *)
THEOREM StoppedStaysTrueHolds == Spec => []StoppedStaysTrue
<1>1. SlotInv => StoppedStaysTrue
  BY DEF SlotInv, Settled
<1> QED
  BY <1>1, SlotInvariant, PTL

(* A completion stands only for a server that ended by itself.              *)
THEOREM CompletedIsNaturalHolds == Spec => []CompletedIsNatural
<1>1. SlotInv => CompletedIsNatural
  BY DEF SlotInv, Settled
<1> QED
  BY <1>1, SlotInvariant, PTL

-----------------------------------------------------------------------------
(* The slot implements the owned resource: only an activation begins a run, *)
(* which can happen before any stop receipt alone, only the last process of *)
(* the service ends it, and a receipt is written only when none is left.    *)
LEMMA InitResource == Init => Resource!Init
  BY DEF Init, Resource!Init, Phase, Live, Has

\* Every step of a link slot is a step of the owned resource, or leaves it alone.
LEMMA StepResource == SlotInv /\ [Next]_vars => [Resource!Next]_(Resource!vars)
<1> SUFFICES ASSUME SlotInv, [Next]_vars PROVE [Resource!Next]_(Resource!vars)
  OBVIOUS
<1>a. TypeOK /\ Activation /\ Holder /\ StoppedStaysTrue
  BY DEF SlotInv, Settled
<1> USE <1>a DEF TypeOK, Activation, Write, service, slot, Has,
        StoppedStaysTrue, StoppedState
(* What neither the receipt nor a process changes is a stutter.             *)
<1>s. ASSUME UNCHANGED <<unit, orphans, ended>>, Has("stopped")' = Has("stopped")
      PROVE  [Resource!Next]_(Resource!vars)
  BY <1>s DEF Resource!vars, Phase, Live
<1>p. ASSUME UNCHANGED <<unit, orphans, ended>>, Has("stopped")', Phase # "running"
      PROVE  [Resource!Next]_(Resource!vars)
  BY <1>p DEF Resource!Next, Resource!Prove, Phase, Live
<1>1. CASE Prepare \/ StartIntent \/ StartDispatch \/ StartConfirm
  BY <1>1, <1>s DEF Prepare, StartIntent, StartDispatch, StartConfirm
<1>2. CASE Admit \/ Recheck \/ Record \/ Limit \/ Limited \/ Guard
  BY <1>2, <1>s DEF Admit, Recheck, Record, Limit, Limited, Guard
<1>3. CASE Exec
  <2>1. Phase' = Phase /\ Has("stopped")' = Has("stopped")
    BY <1>3 DEF Exec, Phase, Live
  <2> QED
    BY <2>1 DEF Resource!vars
<1>4. CASE WaitSuccess \/ StopCancel \/ StopIntent \/ StopAgain \/ Leave \/ Tick
  BY <1>4, <1>s DEF WaitSuccess, StopCancel, StopIntent, StopAgain, Leave, Tick
<1>5. CASE StopNever
  <2>1. Phase # "running"
    BY <1>5 DEF StopNever, NeverAttempted, Phase, Live
  <2> QED
    BY <1>5, <1>p, <2>1 DEF StopNever
<1>6. CASE StopRecovered \/ StopConfirm
  <2>1. StoppedState
    BY <1>6 DEF StopRecovered, StopConfirm
  <2>2. Phase # "running"
    BY <2>1 DEF Phase, Live
  <2> QED
    BY <1>6, <1>p, <2>2 DEF StopRecovered, StopConfirm
<1>7. CASE StopRequest
  <2>1. Phase' = Phase /\ Has("stopped")' = Has("stopped")
    BY <1>7 DEF StopRequest, Phase, Live
  <2> QED
    BY <2>1 DEF Resource!vars
<1>8. CASE Activate
  <2>1. Phase = "new" /\ Phase' = "running"
    BY <1>8 DEF Activate, Phase, Live
  <2>2. ~Has("stopped") /\ Has("stopped")' = Has("stopped")
    BY <1>8 DEF Activate, Holder
  <2> QED
    BY <2>1, <2>2 DEF Resource!Next, Resource!Begin
<1>9. CASE Fail \/ Expire \/ Exit \/ OrphansEnd \/ Stopped \/ Collect
  <2>1. Phase' = Phase \/ (Phase = "running" /\ Phase' = "over")
    BY <1>9 DEF Fail, Expire, Exit, OrphansEnd, Stopped, Collect, Phase, Live
  <2>2. Has("stopped")' = Has("stopped")
    BY <1>9 DEF Fail, Expire, Exit, OrphansEnd, Stopped, Collect
  <2> QED
    BY <2>1, <2>2 DEF Resource!vars, Resource!Next, Resource!End
<1>10. CASE UNCHANGED vars
  BY <1>10, <1>s DEF vars
<1> QED
  BY <1>1, <1>2, <1>3, <1>4, <1>5, <1>6, <1>7, <1>8, <1>9, <1>10 DEF Next

(* For every policy a link slot is an owned resource.                       *)
THEOREM SlotIsOwnedOnce == Spec => OwnedOnce
  BY SlotInvariant, InitResource, StepResource, PTL
  DEF Spec, OwnedOnce, Resource!Spec
=============================================================================
