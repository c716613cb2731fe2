---------------------------- MODULE DirectLease ----------------------------
(***************************************************************************)
(* The rollback lease of one node (scripts/deuces-direct-lease.py).        *)
(*                                                                         *)
(* Before a run borrows the node's network it arms a transient systemd     *)
(* timer whose one-shot service runs `guard recover'.  The deadline is     *)
(* fixed by lease-prepare; lease-arm may dispatch `systemd-run' once;      *)
(* lease.check(r) admits work that needs r more seconds; lease-disarm      *)
(* stops the timer once a terminal network receipt exists.                 *)
(*                                                                         *)
(* Every guard handler that writes runs under the node's flock (state.py   *)
(* lock), so at most one of them is between two of its steps; it may die   *)
(* at any of them (exception, killed client, lost reply) and its receipts, *)
(* which are written once and never changed, stay.  systemd is not bound   *)
(* by the lock: it starts the timer when the request reaches it, also      *)
(* after the 15 s its client waits, and fires it within AccuracySec.       *)
(*                                                                         *)
(* Time is in whole seconds of the node's monotonic clock; the fractions   *)
(* that int(deadline-clock) drops are the choice in ArmIntent.  Network    *)
(* entry and return are the receipts network.py leaves behind, each        *)
(* handler whole: DirectPair and DirectNetwork model what they do.         *)
(***************************************************************************)
EXTENDS Integers, FiniteSets

CONSTANTS
    Lifecycles,         \* the network lifecycles a guard may be staged with
    Delay,              \* rollbackDelaySeconds
    Slack,              \* seconds reserved for dispatch and accuracy (16)
    DispatchTimeout,    \* seconds run() waits for systemd-run (15)
    Accuracy,           \* AccuracySec (1)
    MinBudget,          \* least remaining budget arm and its check accept (120)
    LaunchReserve,      \* launchReserveSeconds, checked by every launch handler
    MaxTime,            \* bound: the clock stops here, and no lease starts
                        \* whose deadline it would not reach
    MaxReplaced         \* bound: times an operator restarts the timer

ASSUME LeasePolicy ==
    /\ Lifecycles \subseteq {"transient-switched", "predeclared-direct"}
    /\ Delay \in Nat /\ Slack \in Nat /\ DispatchTimeout \in Nat
    /\ Accuracy \in Nat /\ MinBudget \in Nat /\ LaunchReserve \in Nat
    /\ MaxTime \in Nat /\ MaxReplaced \in Nat
    /\ MinBudget > 0

VARIABLES
    lifecycle,  \* networkLifecycle of the guard's config, never changed
    now,        \* this node's monotonic clock
    deadline,   \* deadline of lease-prepared.json
    receipts,   \* names of the receipts in the state root
    handler,    \* the handler holding the state lock, and its step
    request,    \* a systemd-run request on its way to systemd
    timer,      \* the rollback timer as systemd has it
    service,    \* the rollback service as systemd has it
    saved,      \* the timer recorded in lease-armed.json
    replaced,   \* timer restarts by somebody else so far
    promised    \* latest time to which a passed check(r) promised no rollback

vars == <<lifecycle, now, deadline, receipts, handler, request, timer, service,
          saved, replaced, promised>>

Receipts == {"prepared", "arm-intent", "armed", "disarm-intent", "disarmed",
             "transition-started", "idle", "restore-started",
             "restored", "unchanged"}

Idle == [at |-> "idle", seconds |-> 0, since |-> 0]
NoTimer == [state |-> "absent", id |-> 0, elapse |-> 0]
NoRequest == -1

Has(name) == name \in receipts

Predeclared == lifecycle = "predeclared-direct"

-----------------------------------------------------------------------------
(* lease.py check(): the exact timer that was recorded is still waiting,     *)
(* the service has not started, and r more seconds fit before the deadline.  *)

ExactTimerWaiting == /\ timer.state = "waiting"
                     /\ timer.id = saved.id
                     /\ timer.elapse = saved.elapse

(* Mutant: any waiting timer will do, whatever the deadline.                *)
FitsAnyTime(reserve) == now + reserve > 0

Fits(reserve) == now + reserve < deadline

Valid(reserve) == /\ Has("prepared") /\ Has("armed")
                  /\ Fits(reserve)
                  /\ ExactTimerWaiting
                  /\ service = "inactive"

Later(a, b) == IF a < b THEN b ELSE a

Promise(reserve) == Later(promised, now + reserve)

Init ==
    /\ lifecycle \in Lifecycles
    /\ now = 0
    /\ deadline = 0
    /\ receipts = {}
    /\ handler = Idle
    /\ request = NoRequest
    /\ timer = NoTimer
    /\ service = "inactive"
    /\ saved = NoTimer
    /\ replaced = 0
    /\ promised = 0

-----------------------------------------------------------------------------
(* Guard handlers, each step under the state lock.                          *)

NewDeadline == now + Delay

Prepare ==
    /\ handler = Idle
    /\ timer.state = "absent"
    /\ ~Has("prepared")
    /\ now + Delay + Accuracy <= MaxTime
    /\ deadline' = NewDeadline
    /\ receipts' = receipts \cup {"prepared"}
    /\ UNCHANGED <<lifecycle, now, handler, request, timer, service, saved,
                   replaced, promised>>

ArmIntent ==
    /\ handler = Idle
    /\ Has("prepared") /\ ~Has("arm-intent")
    /\ timer.state = "absent"
    /\ \E remaining \in {deadline - now - Slack - 1, deadline - now - Slack} :
          /\ remaining >= MinBudget
          /\ handler' = [at |-> "dispatch", seconds |-> remaining,
                         since |-> now]
    /\ receipts' = receipts \cup {"arm-intent"}
    /\ UNCHANGED <<lifecycle, now, deadline, request, timer, service, saved,
                   replaced, promised>>

ArmDispatch ==
    /\ handler.at = "dispatch"
    /\ request' = handler.seconds
    /\ handler' = [handler EXCEPT !.at = "reply", !.since = now]
    /\ UNCHANGED <<lifecycle, now, deadline, receipts, timer, service, saved,
                   replaced, promised>>

(* Mutant: the readback trusts the dispatch to be prompt.                   *)
ElapsesLater == now < timer.elapse

ElapsesInTime == now < timer.elapse /\ timer.elapse <= deadline

(* Mutant: a dispatch that was not answered is recorded as armed.           *)
ArmUnanswered ==
    /\ handler.at = "reply"
    /\ receipts' = receipts \cup {"armed"}
    /\ saved' = timer
    /\ handler' = [handler EXCEPT !.at = "check"]
    /\ UNCHANGED <<lifecycle, now, deadline, request, timer, service,
                   replaced, promised>>

(* The reply is in; the readback accepts only a timer inside the deadline.  *)
ArmReadback ==
    /\ handler.at = "reply"
    /\ request = NoRequest
    /\ timer.state = "waiting"
    /\ ElapsesInTime
    /\ service = "inactive"
    /\ receipts' = receipts \cup {"armed"}
    /\ saved' = timer
    /\ handler' = [handler EXCEPT !.at = "check"]
    /\ UNCHANGED <<lifecycle, now, deadline, request, timer, service,
                   replaced, promised>>

ArmCheck ==
    /\ handler.at = "check"
    /\ promised' = IF Valid(MinBudget) THEN Promise(MinBudget) ELSE promised
    /\ handler' = Idle
    /\ UNCHANGED <<lifecycle, now, deadline, receipts, request, timer,
                   service, saved, replaced>>

(* lease.check from a launch handler: nothing is written.                   *)
Check ==
    /\ handler = Idle
    /\ Valid(LaunchReserve)
    /\ promised' = Promise(LaunchReserve)
    /\ UNCHANGED <<lifecycle, now, deadline, receipts, handler, request,
                   timer, service, saved, replaced>>

TerminalProof ==
    /\ {"restored", "unchanged"} \cap receipts \in {{"restored"}, {"unchanged"}}
    /\ ~Predeclared /\ Has("unchanged") => ~Has("transition-started")
    /\ Predeclared /\ Has("unchanged") => ~Has("idle")
    /\ Predeclared /\ Has("restored") =>
          Has("idle") /\ Has("restore-started") /\ ~Has("transition-started")

DisarmIntent ==
    /\ handler = Idle
    /\ TerminalProof
    /\ Has("armed") /\ ~Has("disarm-intent")
    /\ service = "inactive"
    /\ timer.state = "waiting" /\ timer.id = saved.id
    /\ receipts' = receipts \cup {"disarm-intent"}
    /\ handler' = [at |-> "stop", seconds |-> 0, since |-> now]
    /\ UNCHANGED <<lifecycle, now, deadline, request, timer, service, saved,
                   replaced, promised>>

DisarmStop ==
    /\ handler.at = "stop"
    /\ timer' = [timer EXCEPT !.state = "stopped"]
    /\ handler' = [handler EXCEPT !.at = "readback"]
    /\ UNCHANGED <<lifecycle, now, deadline, receipts, request, service,
                   saved, replaced, promised>>

(* Mutant: a successful stop is taken as proof that nothing fired.          *)
StopSucceeded == timer.state = "stopped"

NothingFired == timer.state = "stopped" /\ service = "inactive"

(* A stopped transient timer may be collected, and then has no invocation   *)
(* left to compare: the readback asks for no more than this.                *)
DisarmConfirm ==
    /\ handler.at = "readback"
    /\ NothingFired
    /\ receipts' = receipts \cup {"disarmed"}
    /\ handler' = Idle
    /\ UNCHANGED <<lifecycle, now, deadline, request, timer, service, saved,
                   replaced, promised>>

(* The handler raises or is killed: the kernel drops its lock, what it has  *)
(* written or sent stays.                                                   *)
Die ==
    /\ handler # Idle
    /\ handler' = Idle
    /\ UNCHANGED <<lifecycle, now, deadline, receipts, request, timer,
                   service, saved, replaced, promised>>

-----------------------------------------------------------------------------
(* Network handlers of the same node, by the receipts they leave.           *)

(* enter-idle: check(launchReserve), then the marker that consumes the       *)
(* entry; it may die before phase-idle.                                      *)
EnterIdle ==
    /\ handler = Idle
    /\ Valid(LaunchReserve)
    /\ promised' = Promise(LaunchReserve)
    /\ IF Predeclared
       THEN /\ ~Has("idle")
            /\ receipts' = receipts \cup {"idle"}
       ELSE /\ ~Has("transition-started")
            /\ receipts' \in {receipts \cup {"transition-started"},
                              receipts \cup {"transition-started", "idle"}}
    /\ UNCHANGED <<lifecycle, now, deadline, handler, request, timer, service,
                   saved, replaced>>

Phases == {"transition-started", "idle", "restore-started", "restored",
           "unchanged"}

RestoreUnentered ==
    /\ receipts \cap Phases = {}
    /\ receipts' = receipts \cup {"unchanged"}

RestoreEntered ==
    /\ Has(IF Predeclared THEN "idle" ELSE "transition-started")
    /\ IF Predeclared THEN ~Has("restored") ELSE ~Has("restore-started")
    /\ receipts' \in {receipts \cup {"restore-started"},
                      receipts \cup {"restore-started", "restored"}}

Restore ==
    /\ handler = Idle
    /\ RestoreUnentered \/ RestoreEntered
    /\ UNCHANGED <<lifecycle, now, deadline, handler, request, timer, service,
                   saved, replaced, promised>>

-----------------------------------------------------------------------------
(* systemd and the clock.                                                   *)

StartTimer ==
    /\ request # NoRequest
    /\ timer.state = "absent"
    /\ timer' = [state |-> "waiting", id |-> 1, elapse |-> now + request]
    /\ request' = NoRequest
    /\ UNCHANGED <<lifecycle, now, deadline, receipts, handler, service,
                   saved, replaced, promised>>

Fire ==
    /\ timer.state = "waiting"
    /\ timer.elapse <= now
    /\ timer' = [timer EXCEPT !.state = "elapsed"]
    /\ service' = "running"
    /\ UNCHANGED <<lifecycle, now, deadline, receipts, handler, request,
                   saved, replaced, promised>>

(* RemainAfterExit keeps a finished service active, Restart=no a failed one *)
(* failed: neither is inactive again.                                       *)
ServiceEnds ==
    /\ service = "running"
    /\ service' = "ended"
    /\ UNCHANGED <<lifecycle, now, deadline, receipts, handler, request,
                   timer, saved, replaced, promised>>

(* Somebody restarts the armed timer: a new invocation and a new elapse.  *)
ReplaceTimer ==
    /\ Has("armed") /\ timer.state = "waiting"
    /\ replaced < MaxReplaced
    /\ replaced' = replaced + 1
    /\ timer' = [timer EXCEPT !.id = @ + 1, !.elapse = now + MinBudget]
    /\ UNCHANGED <<lifecycle, now, deadline, receipts, handler, request,
                   service, saved, promised>>

(* Time passes unless the timer is due or the client has waited its 15 s.   *)
Tick ==
    /\ now < MaxTime
    /\ ~(timer.state = "waiting" /\ timer.elapse + Accuracy <= now)
    /\ ~(handler.at = "reply" /\ request # NoRequest
           /\ handler.since + DispatchTimeout <= now)
    /\ now' = now + 1
    /\ UNCHANGED <<lifecycle, deadline, receipts, handler, request, timer,
                   service, saved, replaced, promised>>

Next == \/ Prepare \/ ArmIntent \/ ArmDispatch \/ ArmReadback \/ ArmCheck
        \/ Check \/ DisarmIntent \/ DisarmStop \/ DisarmConfirm \/ Die
        \/ EnterIdle \/ Restore
        \/ StartTimer \/ Fire \/ ServiceEnds \/ ReplaceTimer \/ Tick

(* The clock runs and systemd does its part; no handler is bound to finish. *)
Fairness == WF_vars(Tick) /\ WF_vars(Fire)

Spec == Init /\ [][Next]_vars /\ Fairness

-----------------------------------------------------------------------------
TimerType == [state : {"absent", "waiting", "elapsed", "stopped"},
              id : Nat, elapse : Int]

(* Type invariant of the lease state.                                       *)
TypeOK ==
    /\ lifecycle \in Lifecycles
    /\ now \in Nat /\ deadline \in Nat /\ promised \in Nat /\ replaced \in Nat
    /\ receipts \subseteq Receipts
    /\ handler \in [at : {"idle", "dispatch", "reply", "check", "stop",
                          "readback"}, seconds : Int, since : Nat]
    /\ request \in Int
    /\ timer \in TimerType /\ saved \in TimerType
    /\ service \in {"inactive", "running", "ended"}

(* A lease whose arming was acknowledged is never overdue: whatever the      *)
(* intent write, the dispatch and the reply took, its exact timer has fired *)
(* by the original deadline, up to the timer's accuracy (lease.py arm).     *)
ArmedNeverOverdue ==
    Has("armed") /\ ExactTimerWaiting => now <= deadline + Accuracy

(* What lease.check(r) promised: the recorded timer does not fire before    *)
(* now + r, short of the dispatch reserve that arming took off the delay.   *)
RollbackKeepsPromise ==
    Has("armed") => promised <= saved.elapse + Slack + 1

(* A disarmed lease never rolls back: however the firing, the stop and the  *)
(* readback interleave, the service has not run and no timer is left.       *)
DisarmedNeverFires ==
    Has("disarmed") => service = "inactive" /\ timer.state = "stopped"

(* A lease is given up only for a network that was returned: an entry that  *)
(* raced in after an unchanged proof keeps the rollback armed.              *)
DisarmedMeansReturned ==
    Has("disarmed") /\ Has(IF Predeclared THEN "idle" ELSE "transition-started")
        => Has("restored")

(* Every armed lease ends: its rollback runs, or somebody stopped or        *)
(* restarted the timer.                                                     *)
ArmedEnds ==
    Has("armed") ~> \/ service # "inactive"
                    \/ timer.state = "stopped"
                    \/ replaced > 0
=============================================================================
