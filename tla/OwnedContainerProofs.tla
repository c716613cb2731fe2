------------------------ MODULE OwnedContainerProofs ------------------------
(***************************************************************************)
(* What holds of an owned container whatever goes wrong.  The inductive    *)
(* invariant says what the receipts tell of commands that may still be     *)
(* under way (Commands), of the guard (Guarding), what a cleanup has made  *)
(* sure of at each step (Cleaning), and what positive receipts settle for  *)
(* good (Outcome).                                                         *)
(***************************************************************************)
EXTENDS OwnedContainer, TLAPS

(* Canceled, and nothing there that could still come up.                    *)
Settled == Has("canceled") /\ Absent /\ ~group

(* A container is created once and started once, each behind its receipt.   *)
Commands ==
    /\ ~Has("create-attempted") => box = "none" /\ ~Has("cid")
    /\ "create" \in asked => /\ Has("create-attempted")
                             /\ box = "none" /\ ~Has("cid") /\ ~Caller("create")
    /\ Caller("create") => Has("create-attempted") /\ box = "none" /\ ~Has("cid")
    /\ Caller("created") => Has("cid")
    /\ Has("created") => Has("cid")
    /\ Has("start-attempted") => Has("created")
    /\ "start" \in asked => Has("start-attempted") /\ ~ran /\ ~Caller("start")
    /\ Caller("start") => Has("start-attempted") /\ ~ran
    /\ ran => Has("start-attempted") /\ box # "created"
    /\ box \in {"running", "exited"} => ran
    /\ box = "running" => group
    /\ group => ran
    /\ Has("process") => ran

Guarding ==
    /\ ~Has("arm-attempted") => timer = "none"
    /\ "timer" \in asked => Has("arm-attempted") /\ timer = "none"
    /\ Has("armed") => timer # "none"
    /\ Has("disarmed") => Has("armed")
    /\ service = "firing" => timer \in {"elapsed", "gone"}
    /\ Caller("disarm") \/ Caller("stopped") => Has("armed") /\ Settled

Cleaning ==
    /\ job \in {"inspect", "stop", "final", "rm", "verify"} => Has("canceled")
    /\ job \in {"stop", "final", "rm"} => Has("cid")
    /\ job = "rm" => /\ box # "running" /\ ~group
                     /\ Has("process") \/ ~Has("start-attempted")
    /\ Has("removed") => Has("cid") /\ box = "none" /\ ~group
    /\ job = "verify" => Absent

Outcome ==
    /\ Positive => Settled
    /\ timer = "stopped" => Settled
    /\ Has("disarmed") => Settled /\ ~Loaded /\ service # "firing"

BoxInv == TypeOK /\ Commands /\ Guarding /\ Cleaning /\ Outcome

(* The initial state satisfies every part.                                  *)
LEMMA InitBoxInv == Init => BoxInv
  BY FaultsKnown DEF Init, BoxInv, TypeOK, Commands, Guarding, Cleaning,
     Outcome, Has, Caller, Positive, Loaded, Names

(* Every step keeps the container well typed.                               *)
LEMMA NextTypeOK == TypeOK /\ [Next]_vars => TypeOK'
<1> SUFFICES ASSUME TypeOK, [Next]_vars PROVE TypeOK'
  OBVIOUS
<1> USE DEF TypeOK, Names, Jobs, Write, Has, Free, Caller, Begin, Goto, Finish,
        Ask, Answered, container, guard
<1>1. ASSUME Prepare PROVE TypeOK'
  BY <1>1 DEF Prepare
<1>2. ASSUME ArmIntent PROVE TypeOK'
  BY <1>2 DEF ArmIntent
<1>3. ASSUME ArmConfirm PROVE TypeOK'
  BY <1>3 DEF ArmConfirm
<1>4. ASSUME CreateIntent PROVE TypeOK'
  BY <1>4 DEF CreateIntent, TimerOK
<1>5. ASSUME CreateAsk PROVE TypeOK'
  BY <1>5 DEF CreateAsk
<1>6. ASSUME CreateReply PROVE TypeOK'
  BY <1>6 DEF CreateReply
<1>7. ASSUME Created PROVE TypeOK'
  BY <1>7 DEF Created
<1>8. ASSUME StartIntent PROVE TypeOK'
  BY <1>8 DEF StartIntent, TimerOK
<1>9. ASSUME StartAsk PROVE TypeOK'
  BY <1>9 DEF StartAsk
<1>10. ASSUME StartReply PROVE TypeOK'
  BY <1>10 DEF StartReply, Adopted
<1>11. ASSUME Inspect PROVE TypeOK'
  BY <1>11 DEF Inspect, Adopted, Present
<1>12. ASSUME Decide PROVE TypeOK'
  BY <1>12 DEF Decide
<1>13. ASSUME CallerCleanup PROVE TypeOK'
  BY <1>13 DEF CallerCleanup
<1>14. ASSUME GuardCleanup PROVE TypeOK'
  BY <1>14 DEF GuardCleanup
<1>15. ASSUME CleanAbsent PROVE TypeOK'
  BY <1>15 DEF CleanAbsent
<1>16. ASSUME CleanPresent PROVE TypeOK'
  BY <1>16 DEF CleanPresent, Adopted, NeedsStop, Present
<1>17. ASSUME CleanStopped PROVE TypeOK'
  BY <1>17 DEF CleanStopped
<1>18. ASSUME CleanRemove PROVE TypeOK'
  BY <1>18 DEF CleanRemove
<1>19. ASSUME CleanRemoved PROVE TypeOK'
  BY <1>19 DEF CleanRemoved
<1>20. ASSUME CleanPass PROVE TypeOK'
  BY <1>20 DEF CleanPass, Report
<1>21. ASSUME CleanFail PROVE TypeOK'
  BY <1>21 DEF CleanFail, Report, Abandoned
<1>22. ASSUME DisarmIntent PROVE TypeOK'
  BY <1>22 DEF DisarmIntent, MayDisarm
<1>23. ASSUME DisarmStop PROVE TypeOK'
  BY <1>23 DEF DisarmStop
<1>24. ASSUME DisarmConfirm PROVE TypeOK'
  BY <1>24 DEF DisarmConfirm, Quiet
<1>25. ASSUME DisarmCollected PROVE TypeOK'
  BY <1>25 DEF DisarmCollected, MayDisarm
<1>26. ASSUME Die PROVE TypeOK'
  BY <1>26 DEF Die, Abandoned
<1>27. ASSUME GuardDies PROVE TypeOK'
  BY <1>27 DEF GuardDies, Abandoned
<1>28. ASSUME Arms PROVE TypeOK'
  BY <1>28 DEF Arms, Served
<1>29. ASSUME Creates PROVE TypeOK'
  BY <1>29 DEF Creates, Served
<1>30. ASSUME Starts PROVE TypeOK'
  <2>1. CASE box = "created"
    BY <1>30, <2>1 DEF Starts, Served
  <2>2. CASE box # "created"
    BY <1>30, <2>2 DEF Starts, Served
  <2> QED
    BY <2>1, <2>2
<1>31. ASSUME Stops PROVE TypeOK'
  BY <1>31 DEF Stops, Served
<1>32. ASSUME Removes PROVE TypeOK'
  BY <1>32 DEF Removes, Served
<1>33. ASSUME Exits PROVE TypeOK'
  BY <1>33 DEF Exits
<1>34. ASSUME GroupEnds PROVE TypeOK'
  BY <1>34 DEF GroupEnds
<1>35. ASSUME Shorten PROVE TypeOK'
  BY <1>35 DEF Shorten
<1>36. ASSUME Fire PROVE TypeOK'
  BY <1>36 DEF Fire
<1>37. ASSUME Collect PROVE TypeOK'
  BY <1>37 DEF Collect
<1>38. ASSUME UNCHANGED vars PROVE TypeOK'
  BY <1>38 DEF vars
<1> QED
  BY <1>1, <1>2, <1>3, <1>4, <1>5, <1>6, <1>7, <1>8, <1>9, <1>10, <1>11,
     <1>12, <1>13, <1>14, <1>15, <1>16, <1>17, <1>18, <1>19, <1>20, <1>21,
     <1>22, <1>23, <1>24, <1>25, <1>26, <1>27, <1>28, <1>29, <1>30, <1>31,
     <1>32, <1>33, <1>34, <1>35, <1>36, <1>37, <1>38 DEF Next, CleanStep,
     Effect

(* Every step keeps the invariant: one case per action.                     *)
LEMMA NextBoxInv == BoxInv /\ [Next]_vars => BoxInv'
<1> SUFFICES ASSUME BoxInv, [Next]_vars PROVE BoxInv'
  OBVIOUS
<1>t. TypeOK /\ TypeOK'
  BY NextTypeOK DEF BoxInv
<1>a. TypeOK /\ Commands /\ Guarding /\ Cleaning /\ Outcome
  BY DEF BoxInv
<1> DEFINE Rest == Commands /\ Guarding /\ Cleaning /\ Outcome
<1> USE DEF TypeOK, Write, Has, Free, Caller, Begin, Goto, Finish, Ask, Answered,
        container, guard, Absent, Empty, Settled, Positive, Loaded
<1>1. ASSUME Prepare PROVE Rest'
  BY <1>1, <1>a DEF Prepare, Commands, Guarding, Cleaning, Outcome
<1>2. ASSUME ArmIntent PROVE Rest'
  BY <1>2, <1>a DEF ArmIntent, Commands, Guarding, Cleaning, Outcome
<1>3. ASSUME ArmConfirm PROVE Rest'
  BY <1>3, <1>a DEF ArmConfirm, Commands, Guarding, Cleaning, Outcome
<1>4. ASSUME CreateIntent PROVE Rest'
  BY <1>4, <1>a DEF CreateIntent, TimerOK, Commands, Guarding, Cleaning,
     Outcome
<1>5. ASSUME CreateAsk PROVE Rest'
  BY <1>5, <1>a DEF CreateAsk, Commands, Guarding, Cleaning, Outcome
<1>6. ASSUME CreateReply PROVE Rest'
  BY <1>6, <1>a DEF CreateReply, Commands, Guarding, Cleaning, Outcome
<1>7. ASSUME Created PROVE Rest'
  BY <1>7, <1>a DEF Created, Commands, Guarding, Cleaning, Outcome
<1>8. ASSUME StartIntent PROVE Rest'
  BY <1>8, <1>a DEF StartIntent, TimerOK, Commands, Guarding, Cleaning,
     Outcome
<1>9. ASSUME StartAsk PROVE Rest'
  BY <1>9, <1>a DEF StartAsk, Commands, Guarding, Cleaning, Outcome
<1>10. ASSUME StartReply PROVE Rest'
  BY <1>10, <1>a DEF StartReply, Adopted, Commands, Guarding, Cleaning,
     Outcome
<1>11. ASSUME Inspect PROVE Rest'
  BY <1>11, <1>a DEF Inspect, Adopted, Present, Commands, Guarding, Cleaning,
     Outcome
<1>12. ASSUME Decide PROVE Rest'
  BY <1>12, <1>a DEF Decide, Commands, Guarding, Cleaning, Outcome
<1>13. ASSUME CallerCleanup PROVE Rest'
  BY <1>13, <1>a DEF CallerCleanup, Commands, Guarding, Cleaning, Outcome
<1>14. ASSUME GuardCleanup PROVE Rest'
  BY <1>14, <1>a DEF GuardCleanup, Commands, Guarding, Cleaning, Outcome
<1>15. ASSUME CleanAbsent PROVE Rest'
  BY <1>15, <1>a DEF CleanAbsent, Commands, Guarding, Cleaning, Outcome
<1>16. ASSUME CleanPresent PROVE Rest'
  BY <1>16, <1>a DEF CleanPresent, Adopted, NeedsStop, Present, Commands,
     Guarding, Cleaning, Outcome
<1>17. ASSUME CleanStopped PROVE Rest'
  BY <1>17, <1>a DEF CleanStopped, Commands, Guarding, Cleaning, Outcome
<1>18. ASSUME CleanRemove PROVE Rest'
  BY <1>18, <1>a DEF CleanRemove, Commands, Guarding, Cleaning, Outcome
<1>19. ASSUME CleanRemoved PROVE Rest'
  BY <1>19, <1>a DEF CleanRemoved, Commands, Guarding, Cleaning, Outcome
<1>20. ASSUME CleanPass PROVE Rest'
  BY <1>20, <1>a DEF CleanPass, Report, Commands, Guarding, Cleaning, Outcome
<1>21. ASSUME CleanFail PROVE Rest'
  BY <1>21, <1>a DEF CleanFail, Report, Abandoned, Commands, Guarding,
     Cleaning, Outcome
<1>22. ASSUME DisarmIntent PROVE Rest'
  BY <1>22, <1>a DEF DisarmIntent, MayDisarm, Commands, Guarding, Cleaning,
     Outcome
<1>23. ASSUME DisarmStop PROVE Rest'
  BY <1>23, <1>a DEF DisarmStop, Commands, Guarding, Cleaning, Outcome
<1>24. ASSUME DisarmConfirm PROVE Rest'
  BY <1>24, <1>a DEF DisarmConfirm, Quiet, Commands, Guarding, Cleaning,
     Outcome
<1>25. ASSUME DisarmCollected PROVE Rest'
  BY <1>25, <1>a DEF DisarmCollected, MayDisarm, Commands, Guarding, Cleaning,
     Outcome
<1>26. ASSUME Die PROVE Rest'
  BY <1>26, <1>a DEF Die, Abandoned, Commands, Guarding, Cleaning, Outcome
<1>27. ASSUME GuardDies PROVE Rest'
  BY <1>27, <1>a DEF GuardDies, Abandoned, Commands, Guarding, Cleaning,
     Outcome
<1>28. ASSUME Arms PROVE Rest'
  BY <1>28, <1>a DEF Arms, Served, Commands, Guarding, Cleaning, Outcome
<1>29. ASSUME Creates PROVE Rest'
  BY <1>29, <1>a DEF Creates, Served, Commands, Guarding, Cleaning, Outcome
<1>30. ASSUME Starts PROVE Rest'
  BY <1>30, <1>a DEF Starts, Served, Commands, Guarding, Cleaning, Outcome
<1>31. ASSUME Stops PROVE Rest'
  BY <1>31, <1>a DEF Stops, Served, Commands, Guarding, Cleaning, Outcome
<1>32. ASSUME Removes PROVE Rest'
  BY <1>32, <1>a DEF Removes, Served, Commands, Guarding, Cleaning, Outcome
<1>33. ASSUME Exits PROVE Rest'
  BY <1>33, <1>a DEF Exits, Commands, Guarding, Cleaning, Outcome
<1>34. ASSUME GroupEnds PROVE Rest'
  BY <1>34, <1>a DEF GroupEnds, Commands, Guarding, Cleaning, Outcome
<1>35. ASSUME Shorten PROVE Rest'
  BY <1>35, <1>a DEF Shorten, Commands, Guarding, Cleaning, Outcome
<1>36. ASSUME Fire PROVE Rest'
  BY <1>36, <1>a DEF Fire, Commands, Guarding, Cleaning, Outcome
<1>37. ASSUME Collect PROVE Rest'
  BY <1>37, <1>a DEF Collect, Commands, Guarding, Cleaning, Outcome
<1>38. ASSUME UNCHANGED vars PROVE Rest'
  BY <1>38, <1>a DEF vars, Commands, Guarding, Cleaning, Outcome
<1>39. Rest'
  BY <1>1, <1>2, <1>3, <1>4, <1>5, <1>6, <1>7, <1>8, <1>9, <1>10, <1>11,
     <1>12, <1>13, <1>14, <1>15, <1>16, <1>17, <1>18, <1>19, <1>20, <1>21,
     <1>22, <1>23, <1>24, <1>25, <1>26, <1>27, <1>28, <1>29, <1>30, <1>31,
     <1>32, <1>33, <1>34, <1>35, <1>36, <1>37, <1>38 DEF Next, CleanStep,
     Effect
<1> QED
  BY <1>39, <1>t DEF BoxInv

-----------------------------------------------------------------------------
(* The invariant holds in every reachable state, whatever goes wrong.       *)
THEOREM BoxInvariant == Spec => []BoxInv
  BY InitBoxInv, NextBoxInv, PTL DEF Spec

(* The container's state keeps its types; the lock is held by a job only.   *)
THEOREM BoxTypeCorrect == Spec => []TypeOK
<1>1. BoxInv => TypeOK
  BY DEF BoxInv
<1> QED
  BY <1>1, BoxInvariant, PTL

(* A positive cleanup stays true, whatever podman still carries out.        *)
THEOREM PositiveStaysTrueHolds == Spec => []PositiveStaysTrue
<1>1. BoxInv => PositiveStaysTrue
  BY DEF BoxInv, Outcome, Settled, Absent, PositiveStaysTrue
<1> QED
  BY <1>1, BoxInvariant, PTL

(* A guard that never fired was stopped only with nothing left to guard.    *)
THEOREM StoppedGuardsNothingHolds == Spec => []StoppedGuardsNothing
<1>1. BoxInv => StoppedGuardsNothing
  BY DEF BoxInv, Outcome, Settled, Absent, StoppedGuardsNothing
<1> QED
  BY <1>1, BoxInvariant, PTL

(* Behind a positive disarm no cleanup runs or will run.                    *)
THEOREM DisarmedIsQuietHolds == Spec => []DisarmedIsQuiet
<1>1. BoxInv => DisarmedIsQuiet
  BY DEF BoxInv, Outcome, DisarmedIsQuiet
<1> QED
  BY <1>1, BoxInvariant, PTL

-----------------------------------------------------------------------------
(* The container implements the owned resource: the one start begins its    *)
(* run, the last process ends it, disarm proves that it is over.            *)
LEMMA InitResource == Init => Resource!Init
  BY DEF Init, Resource!Init, Phase, Has

\* Every step of the container is a step of the owned resource, or leaves it alone.
LEMMA StepResource == BoxInv /\ [Next]_vars => [Resource!Next]_(Resource!vars)
<1> SUFFICES ASSUME BoxInv, [Next]_vars PROVE [Resource!Next]_(Resource!vars)
  OBVIOUS
<1>a. TypeOK /\ Commands /\ Guarding /\ Outcome
  BY DEF BoxInv
<1> USE DEF Write, Has, container, guard
(* What neither the receipt nor a process changes is a stutter.             *)
<1>s. ASSUME UNCHANGED container, Has("disarmed")' = Has("disarmed")
      PROVE  [Resource!Next]_(Resource!vars)
  BY <1>s DEF Resource!vars, Phase
<1>p. ASSUME UNCHANGED container, Has("disarmed")', Settled
      PROVE  [Resource!Next]_(Resource!vars)
  BY <1>p DEF Resource!Next, Resource!Prove, Phase, Settled, Absent
<1>1. CASE Prepare \/ ArmIntent \/ ArmConfirm \/ CreateIntent \/ CreateAsk
        \/ CreateReply \/ Created \/ StartIntent \/ StartAsk
  BY <1>1, <1>s DEF Prepare, ArmIntent, ArmConfirm, CreateIntent, CreateAsk,
     CreateReply, Created, StartIntent, StartAsk
<1>2. CASE StartReply \/ Inspect \/ CleanPresent
  BY <1>2, <1>s DEF StartReply, Inspect, CleanPresent, Adopted
<1>3. CASE Decide \/ CallerCleanup \/ GuardCleanup \/ CleanAbsent
        \/ CleanStopped \/ CleanRemove \/ CleanRemoved
  BY <1>3, <1>s DEF Decide, CallerCleanup, GuardCleanup, CleanAbsent,
     CleanStopped, CleanRemove, CleanRemoved
<1>4. CASE CleanPass \/ CleanFail
  BY <1>4, <1>s DEF CleanPass, CleanFail, Report
<1>5. CASE DisarmIntent \/ DisarmStop
  BY <1>5, <1>s DEF DisarmIntent, DisarmStop
<1>6. CASE DisarmConfirm
  <2>1. Settled
    BY <1>6, <1>a DEF DisarmConfirm, Guarding
  <2> QED
    BY <1>6, <2>1, <1>p DEF DisarmConfirm
<1>7. CASE DisarmCollected
  <2>1. Settled
    BY <1>7, <1>a DEF DisarmCollected, MayDisarm, Outcome
  <2> QED
    BY <1>7, <2>1, <1>p DEF DisarmCollected
<1>8. CASE Die \/ GuardDies \/ Arms \/ Shorten \/ Fire \/ Collect
  BY <1>8, <1>s DEF Die, GuardDies, Arms, Served, Shorten, Fire, Collect
<1>9. CASE Starts /\ box = "created"
  <2>1. Phase = "new" /\ Phase' = "running"
    BY <1>9, <1>a DEF Starts, Phase, Commands, Served
  <2>2. ~Has("disarmed") /\ Has("disarmed")' = Has("disarmed")
    BY <1>9, <1>a DEF Starts, Served, Outcome, Settled, Absent
  <2> QED
    BY <2>1, <2>2 DEF Resource!Next, Resource!Begin
<1>10. CASE Starts /\ box # "created"
  BY <1>10, <1>s DEF Starts, Served
<1>11. CASE Creates \/ Stops \/ Removes \/ Exits \/ GroupEnds
  <2>1. Phase' = Phase \/ (Phase = "running" /\ Phase' = "over")
    BY <1>11, <1>a DEF Creates, Stops, Removes, Exits, GroupEnds, Served, Phase,
       Commands, TypeOK
  <2>2. Has("disarmed")' = Has("disarmed")
    BY <1>11 DEF Creates, Stops, Removes, Exits, GroupEnds, Served
  <2> QED
    BY <2>1, <2>2 DEF Resource!vars, Resource!Next, Resource!End
<1>12. CASE UNCHANGED vars
  BY <1>12, <1>s DEF vars
<1> QED
  BY <1>1, <1>2, <1>3, <1>4, <1>5, <1>6, <1>7, <1>8, <1>9, <1>10, <1>11, <1>12
  DEF Next, CleanStep, Effect

(* A container slot is an owned resource.                                   *)
THEOREM BoxIsOwnedOnce == Spec => OwnedOnce
  BY BoxInvariant, InitResource, StepResource, PTL
  DEF Spec, OwnedOnce, Resource!Spec
=============================================================================
