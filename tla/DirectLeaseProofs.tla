------------------------- MODULE DirectLeaseProofs -------------------------
(***************************************************************************)
(* What holds of a rollback lease for every policy (every value of the     *)
(* constants that LeasePolicy admits), from an inductive invariant in      *)
(* three parts: who may be between which steps (Stopping), which bounds    *)
(* the pending dispatch and the timer carry (Timing), and what a disarmed  *)
(* receipt has settled (Settled).                                          *)
(***************************************************************************)
EXTENDS DirectLease, TLAPS

Entered == Has(IF Predeclared THEN "idle" ELSE "transition-started")

(* While disarm is between its steps no other handler writes, so the        *)
(* terminal proof it read still stands.                                     *)
Stopping ==
    handler.at \in {"stop", "readback"} => (Entered => Has("restored"))

Timing ==
    /\ Has("armed") => Has("prepared") /\ Has("arm-intent")
    /\ handler.at \in {"dispatch", "reply"} =>
          Has("arm-intent") /\ ~Has("armed")
    /\ handler.at \in {"stop", "readback"} => Has("armed")
    /\ handler.at \in {"dispatch", "reply", "check"} => Has("prepared")
    /\ handler.at = "dispatch" =>
          /\ handler.seconds >= MinBudget
          /\ deadline - Slack - 1 <= now + handler.seconds
    /\ request # NoRequest =>
          /\ Has("prepared")
          /\ request >= MinBudget
          /\ deadline - Slack - 1 <= now + request
    /\ timer.state = "waiting" => /\ Has("prepared")
                                  /\ now <= timer.elapse + Accuracy
    /\ ~Has("armed") /\ timer.state # "absent" =>
          deadline - Slack - 1 <= timer.elapse
    /\ Has("armed") => /\ saved.elapse <= deadline
                       /\ deadline - Slack - 1 <= saved.elapse
    /\ promised <= IF Has("armed") THEN deadline ELSE 0

Settled == DisarmedNeverFires /\ DisarmedMeansReturned

LeaseInv == TypeOK /\ Stopping /\ Timing /\ Settled
(* Initially every part holds.                                              *)
LEMMA InitLeaseInv == Init => LeaseInv
<1> SUFFICES ASSUME Init PROVE LeaseInv
  OBVIOUS
<1> USE LeasePolicy DEF Init, Has, Idle, NoTimer, NoRequest
<1>1. TypeOK
  BY DEF TypeOK, TimerType, Receipts
<1>2. Stopping
  BY DEF Stopping
<1>3. Timing
  BY DEF Timing
<1>4. Settled
  BY DEF Settled, DisarmedNeverFires, DisarmedMeansReturned, Predeclared
<1> QED
  BY <1>1, <1>2, <1>3, <1>4 DEF LeaseInv

(* Every step keeps the lease state well typed.                             *)
LEMMA NextTypeOK == TypeOK /\ [Next]_vars => TypeOK'
<1> SUFFICES ASSUME TypeOK, [Next]_vars PROVE TypeOK'
  OBVIOUS
<1> USE LeasePolicy DEF TypeOK
<1>1. CASE Prepare
  BY <1>1 DEF Prepare, NewDeadline, TimerType, Receipts, Idle, NoRequest
<1>2. CASE ArmIntent
  BY <1>2 DEF ArmIntent, TimerType, Receipts, Idle, NoRequest
<1>3. CASE ArmDispatch
  BY <1>3 DEF ArmDispatch, TimerType, Receipts, Idle, NoRequest
<1>4. CASE ArmReadback
  BY <1>4 DEF ArmReadback, TimerType, Receipts, Idle, NoRequest
<1>5. CASE ArmCheck
  BY <1>5 DEF ArmCheck, Promise, Later, TimerType, Receipts, Idle, NoRequest
<1>6. CASE Check
  BY <1>6 DEF Check, Promise, Later, TimerType, Receipts, Idle, NoRequest
<1>7. CASE DisarmIntent
  BY <1>7 DEF DisarmIntent, TimerType, Receipts, Idle, NoRequest
<1>8. CASE DisarmStop
  BY <1>8 DEF DisarmStop, TimerType, Receipts, Idle, NoRequest
<1>9. CASE DisarmConfirm
  BY <1>9 DEF DisarmConfirm, TimerType, Receipts, Idle, NoRequest
<1>10. CASE Die
  BY <1>10 DEF Die, TimerType, Receipts, Idle, NoRequest
<1>11. CASE EnterIdle
  <2>1. receipts' \subseteq Receipts
    BY <1>11 DEF EnterIdle, Receipts
  <2>2. promised' \in Nat
    BY <1>11 DEF EnterIdle, Promise, Later
  <2> QED
    BY <1>11, <2>1, <2>2 DEF EnterIdle
<1>12. CASE Restore
  BY <1>12 DEF Restore, RestoreUnentered, RestoreEntered, TimerType, Receipts, Idle, NoRequest
<1>13. CASE StartTimer
  BY <1>13 DEF StartTimer, TimerType, Receipts, Idle, NoRequest
<1>14. CASE Fire
  BY <1>14 DEF Fire, TimerType, Receipts, Idle, NoRequest
<1>15. CASE ServiceEnds
  BY <1>15 DEF ServiceEnds, TimerType, Receipts, Idle, NoRequest
<1>16. CASE ReplaceTimer
  <2>1. now + MinBudget \in Int /\ timer.id + 1 \in Nat
    BY DEF TimerType
  <2>2. timer' \in TimerType
    BY <1>16, <2>1 DEF ReplaceTimer, TimerType
  <2> QED
    BY <1>16, <2>2 DEF ReplaceTimer
<1>17. CASE Tick
  BY <1>17 DEF Tick, TimerType, Receipts, Idle, NoRequest
<1>18. CASE UNCHANGED vars
  BY <1>18 DEF vars, TimerType, Receipts, Idle, NoRequest
<1> QED
  BY <1>1, <1>2, <1>3, <1>4, <1>5, <1>6, <1>7, <1>8, <1>9, <1>10,
     <1>11, <1>12, <1>13, <1>14, <1>15, <1>16, <1>17, <1>18 DEF Next

(* Every step keeps the terminal proof of a disarm in progress.             *)
LEMMA NextStopping == LeaseInv /\ [Next]_vars => Stopping'
<1> SUFFICES ASSUME LeaseInv, [Next]_vars PROVE Stopping'
  OBVIOUS
<1> USE DEF LeaseInv, TypeOK, Stopping, Entered, Predeclared,
            Has, Idle
<1>1. CASE Prepare
  BY <1>1 DEF Prepare, NewDeadline
<1>2. CASE ArmIntent
  BY <1>2 DEF ArmIntent
<1>3. CASE ArmDispatch
  BY <1>3 DEF ArmDispatch
<1>4. CASE ArmReadback
  BY <1>4 DEF ArmReadback
<1>5. CASE ArmCheck
  BY <1>5 DEF ArmCheck, Promise, Later
<1>6. CASE Check
  BY <1>6 DEF Check, Promise, Later
<1>7. CASE DisarmIntent
  BY <1>7 DEF DisarmIntent, TerminalProof
<1>8. CASE DisarmStop
  BY <1>8 DEF DisarmStop
<1>9. CASE DisarmConfirm
  BY <1>9 DEF DisarmConfirm
<1>10. CASE Die
  BY <1>10 DEF Die
<1>11. CASE EnterIdle
  BY <1>11 DEF EnterIdle, Promise, Later
<1>12. CASE Restore
  BY <1>12 DEF Restore, RestoreUnentered, RestoreEntered
<1>13. CASE StartTimer
  BY <1>13 DEF StartTimer
<1>14. CASE Fire
  BY <1>14 DEF Fire
<1>15. CASE ServiceEnds
  BY <1>15 DEF ServiceEnds
<1>16. CASE ReplaceTimer
  BY <1>16 DEF ReplaceTimer
<1>17. CASE Tick
  BY <1>17 DEF Tick
<1>18. CASE UNCHANGED vars
  BY <1>18 DEF vars
<1> QED
  BY <1>1, <1>2, <1>3, <1>4, <1>5, <1>6, <1>7, <1>8, <1>9, <1>10,
     <1>11, <1>12, <1>13, <1>14, <1>15, <1>16, <1>17, <1>18 DEF Next

(* Every step keeps the bounds of the dispatch, the timer and the promises. *)
LEMMA NextTiming == LeaseInv /\ [Next]_vars => Timing'
<1> SUFFICES ASSUME LeaseInv, [Next]_vars PROVE Timing'
  OBVIOUS
<1> USE LeasePolicy DEF LeaseInv, TypeOK, TimerType, Timing, Has, Idle,
                         NoRequest
<1>1. CASE Prepare
  BY <1>1 DEF Prepare, NewDeadline
<1>2. CASE ArmIntent
  BY <1>2 DEF ArmIntent
<1>3. CASE ArmDispatch
  BY <1>3 DEF ArmDispatch
<1>4. CASE ArmReadback
  BY <1>4 DEF ArmReadback, ElapsesInTime
<1>5. CASE ArmCheck
  BY <1>5 DEF ArmCheck, Promise, Later, Valid, Fits
<1>6. CASE Check
  BY <1>6 DEF Check, Promise, Later, Valid, Fits
<1>7. CASE DisarmIntent
  BY <1>7 DEF DisarmIntent
<1>8. CASE DisarmStop
  BY <1>8 DEF DisarmStop
<1>9. CASE DisarmConfirm
  BY <1>9 DEF DisarmConfirm
<1>10. CASE Die
  BY <1>10 DEF Die
<1>11. CASE EnterIdle
  BY <1>11 DEF EnterIdle, Promise, Later, Valid, Fits
<1>12. CASE Restore
  BY <1>12 DEF Restore, RestoreUnentered, RestoreEntered
<1>13. CASE StartTimer
  BY <1>13 DEF StartTimer
<1>14. CASE Fire
  BY <1>14 DEF Fire
<1>15. CASE ServiceEnds
  BY <1>15 DEF ServiceEnds
<1>16. CASE ReplaceTimer
  BY <1>16 DEF ReplaceTimer
<1>17. CASE Tick
  BY <1>17 DEF Tick
<1>18. CASE UNCHANGED vars
  BY <1>18 DEF vars
<1> QED
  BY <1>1, <1>2, <1>3, <1>4, <1>5, <1>6, <1>7, <1>8, <1>9, <1>10,
     <1>11, <1>12, <1>13, <1>14, <1>15, <1>16, <1>17, <1>18 DEF Next

(* Every step keeps what a disarmed receipt has settled.                    *)
LEMMA NextSettled == LeaseInv /\ [Next]_vars => Settled'
<1> SUFFICES ASSUME LeaseInv, [Next]_vars PROVE Settled'
  OBVIOUS
<1> USE DEF Entered, Predeclared, Has, Settled, DisarmedNeverFires, DisarmedMeansReturned
<1>0. Settled /\ Stopping /\ TypeOK
  BY DEF LeaseInv
<1>1. CASE Prepare
  BY <1>0, <1>1 DEF Prepare
<1>2. CASE ArmIntent
  BY <1>0, <1>2 DEF ArmIntent
<1>3. CASE ArmDispatch
  BY <1>0, <1>3 DEF ArmDispatch
<1>4. CASE ArmReadback
  BY <1>0, <1>4 DEF ArmReadback
<1>5. CASE ArmCheck
  BY <1>0, <1>5 DEF ArmCheck
<1>6. CASE Check
  BY <1>0, <1>6 DEF Check
<1>7. CASE DisarmIntent
  BY <1>0, <1>7 DEF DisarmIntent
<1>8. CASE DisarmStop
  BY <1>0, <1>8 DEF DisarmStop, TypeOK, TimerType
<1>9. CASE DisarmConfirm
  BY <1>0, <1>9 DEF DisarmConfirm, Stopping, NothingFired
<1>10. CASE Die
  BY <1>0, <1>10 DEF Die
<1>11. CASE EnterIdle
  BY <1>0, <1>11 DEF EnterIdle, Idle, Valid, ExactTimerWaiting
<1>12. CASE Restore
  BY <1>0, <1>12 DEF Restore, RestoreUnentered, RestoreEntered
<1>13. CASE StartTimer
  BY <1>0, <1>13 DEF StartTimer
<1>14. CASE Fire
  BY <1>0, <1>14 DEF Fire
<1>15. CASE ServiceEnds
  BY <1>0, <1>15 DEF ServiceEnds
<1>16. CASE ReplaceTimer
  BY <1>0, <1>16 DEF ReplaceTimer
<1>17. CASE Tick
  BY <1>0, <1>17 DEF Tick
<1>18. CASE UNCHANGED vars
  BY <1>0, <1>18 DEF vars
<1> QED
  BY <1>1, <1>2, <1>3, <1>4, <1>5, <1>6, <1>7, <1>8, <1>9, <1>10,
     <1>11, <1>12, <1>13, <1>14, <1>15, <1>16, <1>17, <1>18 DEF Next

(* The inductive invariant holds in every reachable state.                  *)
THEOREM LeaseInvariant == Spec => []LeaseInv
<1>1. LeaseInv /\ [Next]_vars => LeaseInv'
  BY NextTypeOK, NextStopping, NextTiming, NextSettled DEF LeaseInv
<1> QED
  BY InitLeaseInv, <1>1, PTL DEF Spec

(* Type correctness of the lease.                                           *)
THEOREM TypeCorrect == Spec => []TypeOK
<1>1. LeaseInv => TypeOK
  BY DEF LeaseInv
<1> QED
  BY LeaseInvariant, <1>1, PTL

(* For every policy: an acknowledged lease is never overdue.                *)
THEOREM ArmedNeverOverdueHolds == Spec => []ArmedNeverOverdue
<1>1. LeaseInv => ArmedNeverOverdue
  BY LeasePolicy DEF LeaseInv, TypeOK, TimerType, Timing, ArmedNeverOverdue,
                     ExactTimerWaiting, Has
<1> QED
  BY LeaseInvariant, <1>1, PTL

(* For every policy and every sequence of checks: the recorded timer is no  *)
(* earlier than the last promised second, short of the dispatch reserve.    *)
THEOREM RollbackKeepsPromiseHolds == Spec => []RollbackKeepsPromise
<1>1. LeaseInv => RollbackKeepsPromise
  BY LeasePolicy DEF LeaseInv, TypeOK, TimerType, Timing,
                     RollbackKeepsPromise, Has
<1> QED
  BY LeaseInvariant, <1>1, PTL

(* A lease that was given up never rolls back.                              *)
THEOREM DisarmedNeverFiresHolds == Spec => []DisarmedNeverFires
<1>1. LeaseInv => DisarmedNeverFires
  BY DEF LeaseInv, Settled
<1> QED
  BY LeaseInvariant, <1>1, PTL

(* A lease is given up only for a network that was returned.                *)
THEOREM DisarmedMeansReturnedHolds == Spec => []DisarmedMeansReturned
<1>1. LeaseInv => DisarmedMeansReturned
  BY DEF LeaseInv, Settled
<1> QED
  BY LeaseInvariant, <1>1, PTL
============================================================================
