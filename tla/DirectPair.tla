----------------------------- MODULE DirectPair -----------------------------
(***************************************************************************)
(* One direct two-node run, from the armed pair to the disarmed pair: the  *)
(* launcher, the controller, the finalizer and the two rollback services   *)
(* (deuces-direct-frontend.py, deuces-direct-model.sh) calling the guard   *)
(* handlers of both nodes (deuces-direct-guard.py, -network.py,            *)
(* -cleanup.py).                                                           *)
(*                                                                         *)
(* The model starts where stage() has succeeded: both guards are staged,   *)
(* the link slots prestaged, both leases armed and the pair-armed packet   *)
(* accepted by both nodes.                                                 *)
(*                                                                         *)
(* A process is a program of calls; a call names a handler and a node.  A  *)
(* handler runs under the node's flock.  The short ones are one step; the  *)
(* four that query or change the system for long (enter-idle,              *)
(* firewall-ready, cleanup-resources, restore) start and finish in two, so *)
(* that other processes run, find the lock busy, or kill them in between.  *)
(* A call to the worker goes over ssh: when its caller dies or stops       *)
(* waiting, the handler continues without it (an orphan), or starts later  *)
(* than anybody waits (a late call).  So do the controller's own commands, *)
(* which take no lock: profiles, link tests, model slots.                  *)
(*                                                                         *)
(* DirectLease models the lease itself; here it is ample (the launch       *)
(* reserve fits), short (it does not), fired or off.                       *)
(***************************************************************************)
EXTENDS Naturals, Sequences, FiniteSets

CONSTANTS
    Lifecycles,     \* the network lifecycles the guards may be staged with
    Mortal,         \* processes that may be killed or lose a reply
    EarlyFire,      \* timers may fire while the run is still going on
    LockGivesUp,    \* a call may find the lock busy for more than 5 s
    DelayedActs,    \* by lifecycle, calls whose remote start may be delayed
                    \* for long
    MaxLate         \* bound: calls delayed at a time

ASSUME PairAssumption ==
    /\ Lifecycles \subseteq {"transient-switched", "predeclared-direct"}
    /\ EarlyFire \in BOOLEAN /\ LockGivesUp \in BOOLEAN
    /\ MaxLate \in Nat

HeadNode == 0
WorkerNode == 1
Ranks == {HeadNode, WorkerNode}

-----------------------------------------------------------------------------
(* The programs.                                                            *)

Both(act) == <<<<act, HeadNode>>, <<act, WorkerNode>>>>

Launch == <<<<"submit", HeadNode>>>> \o Both("executing")
              \o <<<<"replicate", HeadNode>>, <<"await", HeadNode>>>>

(* The controller's own child runs from the profiles on; the trap is its    *)
(* EXIT trap, reached at the end and from every error after that point.     *)
(* From the staging of the model on, an error first reaches the cleanup of  *)
(* its payload coordinator.                                                 *)
Control == <<<<"gate", HeadNode>>>> \o Both("enter") \o Both("profile")
               \o Both("direct") \o Both("firewall")
               \o Both("link") \o Both("unlink")
               \o <<<<"child", HeadNode>>>> \o Both("inventory")
               \o <<<<"ack", HeadNode>>>>
               \o Both("stage") \o Both("arm") \o Both("run") \o Both("halt")
               \o <<<<"trap", HeadNode>>, <<"unprofile", WorkerNode>>,
                    <<"unprofile", HeadNode>>>>

Finalize == <<<<"terminal", HeadNode>>>> \o Both("closure") \o Both("cleanup")
                \o Both("status") \o Both("pair") \o Both("restore")

Program ==
    [launcher   |-> Launch,
     controller |-> Control,
     finalizer  |-> Finalize \o Both("disarm"),
     head       |-> Finalize,
     worker     |-> <<<<"cleanup", WorkerNode>>, <<"restore", WorkerNode>>>>]

Procs == DOMAIN Program
(* Mutant: every timer runs the worker's recovery.                          *)
WorkerRecovery == [r \in Ranks |-> "worker"]

Recovery == [r \in Ranks |-> IF r = HeadNode THEN "head" ELSE "worker"]

FirstOf(p, act) == CHOOSE i \in 1..Len(Program[p]) :
                       /\ Program[p][i][1] = act
                       /\ \A j \in 1..(i - 1) : Program[p][j][1] # act

ChildStart == FirstOf("controller", "profile")
StageStart == FirstOf("controller", "stage")
HaltStart == FirstOf("controller", "halt")
TrapStart == FirstOf("controller", "trap")

-----------------------------------------------------------------------------
VARIABLES
    lifecycle, \* networkLifecycle of both guard configs, never changed
    rc,       \* rc[r]: names of the receipts in node r's state root
    lease,    \* lease[r]: the rollback lease of r
    net,      \* net[r]: what r's interfaces are configured as
    fw,       \* fw[r]: run-owned firewall rules are present on r
    link,     \* link[r]: the prestaged link slots of r
    slot,     \* slot[r]: the declared container and hash slots of r
    clean,    \* clean[r]: how local-cleanup.json accounts for the model
    shared,   \* head only: barrier files replicated and ack, and child
    at,       \* at[p]: position of p in its program
    status,   \* status[p]: off, on or over
    erred,    \* processes whose cleanup of one node failed
    absent,   \* absent[p]: modelAckAbsent of the closure packet p relays
    holder,   \* holder[r]: the long handler under r's lock, and its caller
    late      \* remote calls that nobody waits for and that have not begun

node == <<rc, lease, net, fw, link, slot, clean>>
vars == <<lifecycle, rc, lease, net, fw, link, slot, clean, shared, at, status, erred,
          absent, holder, late>>

Relays == {"finalizer", "head"}
Nobody == "nobody"
Free == [act |-> "none", by |-> Nobody]
Callers == Procs \cup {Nobody}

Has(r, name) == name \in rc[r]
Without(r, names) == rc[r] \cap names = {}

Predeclared == lifecycle = "predeclared-direct"
Baseline == IF Predeclared THEN "direct" ELSE "switched"
Running(r) == link[r] = "up" \/ slot[r] = "up"

Init ==
    /\ lifecycle \in Lifecycles
    /\ rc = [r \in Ranks |-> {"pair-armed"}]
    /\ lease = [r \in Ranks |-> "ample"]
    /\ net = [r \in Ranks |-> Baseline]
    /\ fw = [r \in Ranks |-> FALSE]
    /\ link = [r \in Ranks |-> "staged"]
    /\ slot = [r \in Ranks |-> "absent"]
    /\ clean = [r \in Ranks |-> "none"]
    /\ shared = {}
    /\ at = [p \in Procs |-> 1]
    /\ status = [p \in Procs |-> IF p = "launcher" THEN "on" ELSE "off"]
    /\ erred = {}
    /\ absent = [p \in Relays |-> FALSE]
    /\ holder = [r \in Ranks |-> Free]
    /\ late = {}

-----------------------------------------------------------------------------
(* Calls.                                                                   *)

NoCall == <<"none", HeadNode>>

OnCall(p) == IF p \in Procs /\ status[p] = "on" THEN Program[p][at[p]]
             ELSE NoCall

Delayed(act, r) == {c \in late : c.call = <<act, r>>}

Calls(p, act, r) == IF p = Nobody THEN Delayed(act, r) # {}
                    ELSE OnCall(p) = <<act, r>>

Begun(p, act, r) == late' = IF p = Nobody THEN late \ Delayed(act, r) ELSE late

(* p's program goes on at position i; it is over past its last call.        *)
GoTo(p, i) == IF i <= Len(Program[p])
              THEN at' = [at EXCEPT ![p] = i] /\ UNCHANGED status
              ELSE /\ at' = [at EXCEPT ![p] = 1]
                   /\ status' = [status EXCEPT ![p] = "over"]

(* An error ends a process, except that the controller's child runs its     *)
(* EXIT trap and that finalize() tries both cleanups before it gives up.    *)
TriesBoth(p) == OnCall(p)[1] = "cleanup" /\ p # "worker"

Raises(p) ==
    GoTo(p, IF p = "controller" /\ at[p] \in StageStart..(HaltStart - 1) THEN HaltStart
            ELSE IF p = "controller" /\ at[p] \in ChildStart..(TrapStart - 1) THEN TrapStart
            ELSE IF TriesBoth(p) THEN at[p] + 1
            ELSE Len(Program[p]) + 1)

Returns(p, ok) ==
    /\ IF p = Nobody THEN UNCHANGED <<at, status>>
       ELSE IF ok THEN GoTo(p, at[p] + 1) ELSE Raises(p)
    /\ erred' = IF TriesBoth(p) /\ ~ok THEN erred \cup {p} ELSE erred

(* A step of p's own, under no node's lock.                                 *)
Local(p, act, r) == /\ OnCall(p) = <<act, r>>
                    /\ Returns(p, TRUE)
                    /\ UNCHANGED <<absent, holder, late>>

(* One of the controller's own calls, over plain ssh and under no lock.     *)
Raw(p, act, r) == /\ Calls(p, act, r)
                  /\ Returns(p, TRUE)
                  /\ Begun(p, act, r)
                  /\ UNCHANGED <<holder, shared, absent>>

(* A short handler: it takes the free lock, does its work and returns.      *)
Handler(p, act, r) == /\ Calls(p, act, r)
                      /\ holder[r] = Free
                      /\ Returns(p, TRUE)
                      /\ Begun(p, act, r)
                      /\ UNCHANGED <<holder, shared, absent>>

(* A long handler keeps the lock until Finishes.                            *)
Begins(p, act, r) == /\ Calls(p, act, r)
                     /\ holder[r] = Free
                     /\ holder' = [holder EXCEPT ![r] = [act |-> act, by |-> p]]
                     /\ Begun(p, act, r)
                     /\ UNCHANGED <<at, status, erred, shared, absent>>

Finishes(act, r, ok) == /\ holder[r].act = act
                        /\ Returns(holder[r].by, ok)
                        /\ holder' = [holder EXCEPT ![r] = Free]
                        /\ UNCHANGED <<late, shared, absent>>

Writes(r, names) == rc' = [rc EXCEPT ![r] = @ \cup names]

-----------------------------------------------------------------------------
(* The launcher (frontend.py launch).                                       *)

Submit ==
    /\ OnCall("launcher") = <<"submit", HeadNode>>
    /\ at' = [at EXCEPT !["launcher"] = @ + 1]
    /\ status' = [status EXCEPT !["controller"] = "on"]
    /\ UNCHANGED <<node, shared, erred, absent, holder, late>>

(* accept-controller-start *)
MayExecute(r) ==
    /\ Without(r, {"launch-closed", "transition-started", "recovery-started",
                   "executing"})
    /\ lease[r] = "ample"

AcceptControllerStart(p, r) ==
    /\ Handler(p, "executing", r)
    /\ MayExecute(r)
    /\ Writes(r, {"executing"})
    /\ UNCHANGED <<lease, net, fw, link, slot, clean>>

Replicate ==
    /\ Local("launcher", "replicate", HeadNode)
    /\ shared' = shared \cup {"replicated"}
    /\ UNCHANGED node

(* Only an ended controller is followed by the finalizer.                   *)
Await ==
    /\ OnCall("launcher") = <<"await", HeadNode>>
    /\ status["controller"] = "over"
    /\ at' = [at EXCEPT !["launcher"] = 1]
    /\ status' = [status EXCEPT !["launcher"] = "over", !["finalizer"] = "on"]
    /\ UNCHANGED <<node, shared, erred, absent, holder, late>>

-----------------------------------------------------------------------------
(* The controller (frontend.py controller, deuces-direct-model.sh).         *)

GateOpen == Without(HeadNode, {"launch-closed", "recovery-started"})

Gate ==
    /\ "replicated" \in shared
    /\ GateOpen
    /\ Local("controller", "gate", HeadNode)
    /\ UNCHANGED <<node, shared>>

MayEnter(r) ==
    /\ net[r] = Baseline
    /\ lease[r] = "ample"
    /\ Without(r, IF Predeclared THEN {"idle"} ELSE {"transition-started"})

BeginEnterIdle(p, r) ==
    /\ Begins(p, "enter", r)
    /\ MayEnter(r)
    /\ IF Predeclared THEN UNCHANGED <<rc, net>>
       ELSE Writes(r, {"transition-started"})
            /\ net' = [net EXCEPT ![r] = "partial"]
    /\ UNCHANGED <<lease, fw, link, slot, clean>>

EnterIdle(r) ==
    /\ Finishes("enter", r, TRUE)
    /\ Writes(r, {"idle"})
    /\ net' = [net EXCEPT ![r] = IF Predeclared THEN @ ELSE "idle"]
    /\ UNCHANGED <<lease, fw, link, slot, clean>>

(* add_profile and adopt_profile.  A late activation finds the profile only *)
(* as long as no restore has deleted it.                                    *)
Profile(p, r) ==
    /\ Raw(p, "profile", r)
    /\ net[r] = IF Predeclared THEN "direct" ELSE "idle"
    /\ net' = [net EXCEPT ![r] = "direct"]
    /\ UNCHANGED <<rc, lease, fw, link, slot, clean>>

MayReadyDirect(r) == /\ net[r] = "direct" /\ lease[r] = "ample"
                     /\ ~Has(r, "direct-ready")

DirectReady(p, r) ==
    /\ Handler(p, "direct", r)
    /\ MayReadyDirect(r)
    /\ Writes(r, {"direct-ready"})
    /\ UNCHANGED <<lease, net, fw, link, slot, clean>>

MayInstall(r) == /\ net[r] = "direct" /\ lease[r] = "ample"
                 /\ ~fw[r] /\ ~Has(r, "firewall-insert")

(* Rules are inserted one by one after their write-once intents.            *)
BeginInstallFirewall(p, r) ==
    /\ Begins(p, "firewall", r)
    /\ MayInstall(r)
    /\ Writes(r, {"firewall-insert"})
    /\ fw' = [fw EXCEPT ![r] = TRUE]
    /\ UNCHANGED <<lease, net, link, slot, clean>>

InstallFirewall(r) ==
    /\ Finishes("firewall", r, TRUE)
    /\ Writes(r, {"firewall-ready"})
    /\ UNCHANGED <<lease, net, fw, link, slot, clean>>

(* A canceled link slot never starts (link-server.py start, execute).       *)
StartLink(p, r) ==
    /\ Raw(p, "link", r)
    /\ link[r] = "staged"
    /\ link' = [link EXCEPT ![r] = "up"]
    /\ UNCHANGED <<rc, lease, net, fw, slot, clean>>

StopLink(p, r) ==
    /\ Raw(p, "unlink", r)
    /\ link' = [link EXCEPT ![r] = "stopped"]
    /\ UNCHANGED <<rc, lease, net, fw, slot, clean>>

(* The owned payload is attempted: from here on only the resource parent's  *)
(* receipt satisfies the trap.                                              *)
AttemptChild ==
    /\ Local("controller", "child", HeadNode)
    /\ shared' = shared \cup {"child"}
    /\ UNCHANGED node

(* A link-only qualification asks for no model.                             *)
LinkOnly ==
    /\ OnCall("controller") = <<"child", HeadNode>>
    /\ GoTo("controller", TrapStart)
    /\ UNCHANGED <<node, shared, erred, absent, holder, late>>

MayDeclare(r) == /\ Without(r, {"recovery-started", "inventory"})
                 /\ {"direct-ready", "firewall-ready"} \subseteq rc[r]
                 /\ lease[r] = "ample"
                 /\ slot[r] = "absent"

AcceptInventory(p, r) ==
    /\ Handler(p, "inventory", r)
    /\ MayDeclare(r)
    /\ Writes(r, {"inventory"})
    /\ UNCHANGED <<lease, net, fw, link, slot, clean>>

(* The resource parent acknowledges once both guards hold the declaration.  *)
Acknowledge ==
    /\ Local("controller", "ack", HeadNode)
    /\ shared' = shared \cup {"ack"}
    /\ UNCHANGED node

(* A slot is partial between its mkdir and its armed guard, staged until     *)
(* its container starts.                                                    *)
StageSlot(p, r) ==
    /\ Raw(p, "stage", r)
    /\ slot[r] = "absent"
    /\ slot' = [slot EXCEPT ![r] = "partial"]
    /\ UNCHANGED <<rc, lease, net, fw, link, clean>>

ArmSlot(p, r) ==
    /\ Raw(p, "arm", r)
    /\ slot[r] = "partial"
    /\ slot' = [slot EXCEPT ![r] = "staged"]
    /\ UNCHANGED <<rc, lease, net, fw, link, clean>>

StartSlot(p, r) ==
    /\ Raw(p, "run", r)
    /\ slot[r] = "staged"
    /\ slot' = [slot EXCEPT ![r] = "up"]
    /\ UNCHANGED <<rc, lease, net, fw, link, clean>>

Stoppable == {"staged", "up", "stopped"}

(* The coordinator's cleanup tries both ranks and records what failed.      *)
StopSlot(p, r) ==
    /\ Raw(p, "halt", r)
    /\ slot' \in {slot} \cup (IF slot[r] \in Stoppable
                             THEN {[slot EXCEPT ![r] = "stopped"]} ELSE {})
    /\ UNCHANGED <<rc, lease, net, fw, link, clean>>

(* EXIT trap: prove payload and links stopped, then remove the profiles.    *)
(* Mutant: the trap restores its own state whatever still runs.             *)
NoProof == TRUE

TrapProof == "child" \in shared =>
                "ack" \in shared /\ \A r \in Ranks : slot[r] = "stopped"

Trap ==
    /\ Local("controller", "trap", HeadNode)
    /\ TrapProof
    /\ link' \in {[r \in Ranks |-> "stopped"]} \cup
                 (IF \A r \in Ranks : link[r] = "staged" THEN {link} ELSE {})
    /\ UNCHANGED <<rc, lease, net, fw, slot, clean, shared>>

RemoveProfile(p, r) ==
    /\ Raw(p, "unprofile", r)
    /\ net[r] \in {"direct", "idle"}
    /\ net' = [net EXCEPT ![r] = IF Predeclared THEN @ ELSE "idle"]
    /\ UNCHANGED <<rc, lease, fw, link, slot, clean>>

-----------------------------------------------------------------------------
(* The finalizer and the rollback services (guard.py finalize, recover).    *)

ControllerTerminal == /\ Has(HeadNode, "executing")
                      /\ status["controller"] = "over"

(* closure_packet: the controller's cgroup is empty; is there an ACK?       *)
ObserveTerminal(p) ==
    /\ OnCall(p) = <<"terminal", HeadNode>>
    /\ ControllerTerminal
    /\ Returns(p, TRUE)
    /\ absent' = [absent EXCEPT ![p] = "ack" \notin shared]
    /\ UNCHANGED <<node, shared, holder, late>>

Closing(ackAbsent) == {"launch-closed", "closure"} \cup
                      (IF ackAbsent THEN {"never-started"} ELSE {})

(* publish_exact: a second relay must carry the same packet.                *)
MayClose(r, ackAbsent) ==
    /\ Has(r, "executing")
    /\ Has(r, "closure") => Has(r, "never-started") = ackAbsent

Packets(p, r) == LET from == IF p # Nobody THEN {p}
                             ELSE {c.from : c \in Delayed("closure", r)}
                 IN  {absent[q] : q \in from \cap Relays}

AcceptControllerClosure(p, r) ==
    \E ackAbsent \in Packets(p, r) :
        /\ Handler(p, "closure", r)
        /\ MayClose(r, ackAbsent)
        /\ Writes(r, Closing(ackAbsent))
        /\ UNCHANGED <<lease, net, fw, link, slot, clean>>

BeginCleanup(p, r) ==
    /\ Begins(p, "cleanup", r)
    /\ Writes(r, {"recovery-started"})
    /\ UNCHANGED <<lease, net, fw, link, slot, clean>>

(* cleanup_models: what the declared model slots of r are accounted as.  A  *)
(* partial slot stays unproved: it is left for manual recovery.             *)
Declared(r) == Has(r, "inventory") /\ ~Has(r, "never-started")

(* Mutant: an absent slot needs no closed controller to count as such.      *)
AbsentAnyTime(r) ==
    IF Has(r, "never-started") THEN "never"
    ELSE IF Declared(r) /\ slot[r] \in Stoppable THEN "stopped"
    ELSE IF Declared(r) /\ slot[r] = "absent" THEN "absent"
    ELSE "unproved"

SlotOutcome(r) ==
    IF Has(r, "never-started") THEN "never"
    ELSE IF Declared(r) /\ slot[r] \in Stoppable THEN "stopped"
    ELSE IF Declared(r) /\ slot[r] = "absent" /\ Has(r, "closure") THEN "absent"
    ELSE "unproved"

Proved(r) == /\ SlotOutcome(r) # "unproved"
             /\ clean[r] \in {"none", SlotOutcome(r)}

(* Links and slots are stopped, also when the record is then refused.       *)
CleanupResources(r) ==
    /\ Finishes("cleanup", r, Proved(r))
    /\ link' = [link EXCEPT ![r] = "stopped"]
    /\ slot' = [slot EXCEPT ![r] = IF Declared(r) /\ @ \in Stoppable
                                   THEN "stopped" ELSE @]
    /\ clean' = [clean EXCEPT ![r] = IF Proved(r) THEN SlotOutcome(r) ELSE @]
    /\ UNCHANGED <<rc, lease, net, fw>>

(* verify_local_cleanup: the record is reread and every resource observed.  *)
CleanupVerified(r) ==
    /\ clean[r] # "none" /\ clean[r] = SlotOutcome(r)
    /\ link[r] = "stopped"
    /\ clean[r] = "stopped" => slot[r] = "stopped"

CleanupStatus(p, r) ==
    /\ OnCall(p) = <<"status", r>>
    /\ p \notin erred
    /\ Has(r, "closure") /\ CleanupVerified(r)
    /\ Returns(p, TRUE)
    /\ UNCHANGED <<node, shared, absent, holder, late>>

(* Both nodes' proofs account for the same declaration.                     *)
SameProof == (clean[HeadNode] = "never") = (clean[WorkerNode] = "never")

MayPair(r) == Has(r, "closure") /\ SameProof /\ CleanupVerified(r)

AcceptPairClosure(p, r) ==
    /\ Handler(p, "pair", r)
    /\ MayPair(r)
    /\ Writes(r, {"pair-closure"})
    /\ UNCHANGED <<lease, net, fw, link, slot, clean>>

-----------------------------------------------------------------------------
(* network.py restore.                                                      *)

(* Mutant: restore trusts the closed controller and its own node.           *)
OwnNodeStopped(r) == Has(r, "closure") /\ CleanupVerified(r)

PairStopped(r) == Has(r, "pair-closure") /\ CleanupVerified(r)

Phases == {"transition-started", "idle", "direct-ready", "firewall-insert",
           "firewall-ready", "firewall-remove", "restore-started", "restored",
           "unchanged"}

Unentered(r) == /\ Without(r, Phases)
                /\ net[r] = Baseline /\ ~fw[r]

(* remove_firewall looks for the declared rules in the rules now present.   *)
RulesFound(r) == fw[r]

(* A removal intent is written once: a removal that died behind it leaves   *)
(* rules that no later restore takes away.                                  *)
RemovalFresh(r) == fw[r] => ~Has(r, "firewall-remove")

(* Mutant: a partial entry is recognised only when it got to idle.          *)
PartlyIdle(r) == /\ ~Predeclared /\ Has(r, "transition-started")
                 /\ Without(r, {"idle", "direct-ready", "restore-started"})
                 /\ net[r] = "idle"

PartlyEntered(r) ==
    /\ ~Predeclared
    /\ Has(r, "transition-started")
    /\ Without(r, {"idle", "direct-ready", "restore-started"})
    /\ net[r] = "partial"

Entered(r) ==
    /\ Has(r, "idle")
    /\ net[r] \in (IF Predeclared THEN {"direct"} ELSE {"direct", "idle"})
    /\ Has(r, "restore-started") => Predeclared /\ ~Has(r, "restored")
    /\ RemovalFresh(r)

AlreadyRestored(r) == Predeclared /\ Has(r, "restored") /\ ~fw[r]

MayRestore(r) ==
    /\ PairStopped(r)
    /\ Unentered(r) \/ PartlyEntered(r) \/ Entered(r) \/ AlreadyRestored(r)

BeginRestore(p, r) ==
    /\ Begins(p, "restore", r)
    /\ MayRestore(r)
    /\ IF PartlyEntered(r) \/ Entered(r)
       THEN /\ Writes(r, {"restore-started"})
            /\ net' = [net EXCEPT ![r] = IF Predeclared THEN @ ELSE "partial"]
       ELSE UNCHANGED <<rc, net>>
    /\ UNCHANGED <<lease, fw, link, slot, clean>>

Restore(r) ==
    /\ Finishes("restore", r, TRUE)
    /\ Writes(r, (IF Has(r, "restore-started") THEN {"restored"}
                                               ELSE {"unchanged"})
                    \cup (IF RulesFound(r) THEN {"firewall-remove"} ELSE {}))
    /\ net' = [net EXCEPT ![r] = Baseline]
    /\ fw' = [fw EXCEPT ![r] = @ /\ ~RulesFound(r)]
    /\ UNCHANGED <<lease, link, slot, clean>>

(* Mutant: one terminal receipt is enough, whatever else the root holds.    *)
AnyTerminalReceipt(r) == /\ lease[r] \in {"ample", "short"}
                         /\ Has(r, "restored") # Has(r, "unchanged")

MayDisarm(r) ==
    /\ lease[r] \in {"ample", "short"}
    /\ Has(r, "restored") # Has(r, "unchanged")
    /\ Has(r, "unchanged") => Without(r, {"transition-started", "idle"})

Disarm(p, r) ==
    /\ Handler(p, "disarm", r)
    /\ MayDisarm(r)
    /\ Writes(r, {"disarmed"})
    /\ lease' = [lease EXCEPT ![r] = "off"]
    /\ UNCHANGED <<net, fw, link, slot, clean>>

-----------------------------------------------------------------------------
(* Errors and faults.                                                       *)

LockActs == {"executing", "enter", "direct", "firewall", "inventory",
             "closure", "cleanup", "pair", "restore", "disarm"}

(* The controller's own calls of a node.                                    *)
RawActs == {"profile", "link", "unlink", "stage", "arm", "run", "halt", "unprofile"}

ASSUME DelayAssumption ==
    \A l \in Lifecycles : DelayedActs[l] \subseteq LockActs \cup RawActs

(* p's call is answered with an error, from the handler's own condition.    *)
Unacceptable(p) ==
    LET act == OnCall(p)[1]
        r == OnCall(p)[2]
    IN  \/ act = "executing" /\ ~MayExecute(r)
        \/ act = "gate" /\ "replicated" \in shared /\ ~GateOpen
        \/ act = "enter" /\ ~MayEnter(r)
        \/ act = "profile" /\ net[r] # (IF Predeclared THEN "direct" ELSE "idle")
        \/ act = "direct" /\ ~MayReadyDirect(r)
        \/ act = "firewall" /\ ~MayInstall(r)
        \/ act = "link" /\ link[r] # "staged"
        \/ act = "inventory" /\ ~MayDeclare(r)
        \/ act = "stage" /\ slot[r] # "absent"
        \/ act = "arm" /\ slot[r] # "partial"
        \/ act = "run" /\ slot[r] # "staged"
        \/ act = "trap" /\ ~TrapProof
        \/ act = "unprofile" /\ net[r] \notin {"direct", "idle"}
        \/ act = "terminal" /\ ~ControllerTerminal
        \/ act = "closure" /\ ~MayClose(r, absent[p])
        \/ act = "status" /\ (p \in erred \/ ~Has(r, "closure")
                                          \/ ~CleanupVerified(r))
        \/ act = "pair" /\ ~MayPair(r)
        \/ act = "restore" /\ ~MayRestore(r)
        \/ act = "disarm" /\ ~MayDisarm(r)

LockBusy(p) == LET held == holder[OnCall(p)[2]]
               IN  OnCall(p)[1] \in LockActs /\ held # Free /\ held.by # p

Refuse(p) ==
    /\ OnCall(p) # NoCall
    /\ \/ LockBusy(p) /\ LockGivesUp
       \/ ~LockBusy(p) /\ ~(\E r \in Ranks : holder[r].by = p)
            /\ Unacceptable(p)
    /\ Returns(p, FALSE)
    /\ UNCHANGED <<node, shared, absent, holder, late>>

(* What p leaves behind when it stops waiting: a local handler is killed    *)
(* with what it has done, a remote one goes on, or has yet to begin.        *)
Leaves(p) ==
    /\ holder' = [r \in Ranks |->
                     IF holder[r].by # p THEN holder[r]
                     ELSE IF r = HeadNode THEN Free ELSE [holder[r] EXCEPT !.by = Nobody]]
    /\ LET killed == holder[HeadNode].by = p
       IN  /\ link' \in {link} \cup
                  (IF killed /\ holder[HeadNode].act = "cleanup"
                   THEN {[link EXCEPT ![HeadNode] = "stopped"]} ELSE {})
           /\ \/ UNCHANGED <<rc, fw>>
              \/ /\ killed /\ holder[HeadNode].act = "restore"
                 /\ RulesFound(HeadNode)
                 /\ Writes(HeadNode, {"firewall-remove"})
                 /\ fw' \in {fw, [fw EXCEPT ![HeadNode] = FALSE]}
    /\ LET call == OnCall(p)
           delayed == /\ \A r \in Ranks : holder[r].by # p
                      /\ call[1] \in DelayedActs[lifecycle]
                      /\ call[2] = WorkerNode \/ call[1] = "inventory"
                      /\ Cardinality(late) < MaxLate
       IN  late' \in {late} \cup
              (IF delayed THEN {late \cup {[call |-> call, from |-> p]}} ELSE {})
    /\ UNCHANGED <<lease, net, slot, clean, shared, absent>>

(* The reply is lost or too late: p carries on with an error.  (A stop that *)
(* is not answered is StopSlot's.)                                          *)
TimeOut(p) ==
    /\ p \in Mortal /\ OnCall(p) # NoCall
    /\ OnCall(p)[1] \in LockActs \cup (RawActs \ {"halt"}) \cup {"trap"}
    /\ Leaves(p)
    /\ Returns(p, FALSE)

Die(p) ==
    /\ p \in Mortal /\ OnCall(p) # NoCall
    /\ Leaves(p)
    /\ GoTo(p, Len(Program[p]) + 1)
    /\ UNCHANGED erred

(* A container's own guard stops it at its deadline.                        *)
ContainerGuard(r) ==
    /\ slot[r] \in {"staged", "up"}
    /\ slot' = [slot EXCEPT ![r] = "stopped"]
    /\ UNCHANGED <<rc, lease, net, fw, link, clean, shared, at, status, erred,
                   absent, holder, late>>

(* The launch reserve no longer fits before the deadline of r.              *)
Shorten(r) ==
    /\ lease[r] = "ample"
    /\ lease' = [lease EXCEPT ![r] = "short"]
    /\ UNCHANGED <<rc, net, fw, link, slot, clean, shared, at, status, erred,
                   absent, holder, late>>

(* rollbackDelay outlasts the controller and the finalizer (frontend.py     *)
(* budgets), unless the machine or the launcher was suspended.              *)
RunOver == \A p \in {"launcher", "controller", "finalizer"} : status[p] # "on"

Fire(r) ==
    /\ lease[r] = "short"
    /\ EarlyFire \/ RunOver
    /\ lease' = [lease EXCEPT ![r] = "fired"]
    /\ status' = [status EXCEPT ![Recovery[r]] = "on"]
    /\ UNCHANGED <<rc, net, fw, link, slot, clean, shared, at, erred, absent,
                   holder, late>>

-----------------------------------------------------------------------------
Serve(p, r) ==
    \/ AcceptControllerStart(p, r) \/ BeginEnterIdle(p, r)
    \/ DirectReady(p, r) \/ BeginInstallFirewall(p, r) \/ AcceptInventory(p, r)
    \/ AcceptControllerClosure(p, r) \/ BeginCleanup(p, r)
    \/ AcceptPairClosure(p, r) \/ BeginRestore(p, r) \/ Disarm(p, r)

Finish(r) == \/ EnterIdle(r) \/ InstallFirewall(r) \/ CleanupResources(r)
             \/ Restore(r)

Ask(p, r) == \/ Profile(p, r) \/ StartLink(p, r) \/ StopLink(p, r)
             \/ StageSlot(p, r) \/ ArmSlot(p, r) \/ StartSlot(p, r)
             \/ StopSlot(p, r) \/ RemoveProfile(p, r)

LauncherStep == Submit \/ Replicate \/ Await

ControllerStep ==
    \/ Gate \/ AttemptChild \/ LinkOnly \/ Acknowledge \/ Trap
    \/ \E r \in Ranks : Ask("controller", r)

RelayStep(p) == ObserveTerminal(p) \/ \E r \in Ranks : CleanupStatus(p, r)

Step(p) == /\ status[p] = "on"
           /\ \/ p = "launcher" /\ LauncherStep
              \/ p = "controller" /\ ControllerStep
              \/ p \in Relays /\ RelayStep(p)
              \/ \E r \in Ranks : Serve(p, r)
              \/ Refuse(p)

Next == /\ \/ \E p \in Procs : Step(p) \/ TimeOut(p) \/ Die(p)
           \/ \E r \in Ranks : \/ late # {} /\ (Serve(Nobody, r) \/ Ask(Nobody, r))
                               \/ Finish(r) \/ ContainerGuard(r)
                               \/ Shorten(r) \/ Fire(r)
        /\ UNCHANGED lifecycle

(* Processes and handlers run, clocks pass, and RuntimeMaxSec ends a        *)
(* controller that never ends.                                              *)
Keeps == UNCHANGED lifecycle
Fairness == /\ \A p \in Procs : WF_vars(Step(p) /\ Keeps)
            /\ \A r \in Ranks : /\ WF_vars(Finish(r) /\ Keeps)
                                /\ WF_vars(Shorten(r) /\ Keeps)
                                /\ WF_vars(Fire(r) /\ Keeps)
            /\ WF_vars(Die("controller") /\ Keeps)

Spec == Init /\ [][Next]_vars /\ Fairness

-----------------------------------------------------------------------------
Receipts == Phases \cup
    {"pair-armed", "executing", "launch-closed", "closure", "never-started",
     "recovery-started", "inventory", "pair-closure", "disarmed"}

(* Type invariant of the pair state.                                        *)
TypeOK ==
    /\ lifecycle \in Lifecycles
    /\ rc \in [Ranks -> SUBSET Receipts]
    /\ lease \in [Ranks -> {"ample", "short", "fired", "off"}]
    /\ net \in [Ranks -> {"switched", "partial", "idle", "direct"}]
    /\ fw \in [Ranks -> BOOLEAN]
    /\ link \in [Ranks -> {"staged", "up", "stopped"}]
    /\ slot \in [Ranks -> {"absent", "partial", "staged", "up", "stopped"}]
    /\ clean \in [Ranks -> {"none", "never", "absent", "stopped"}]
    /\ shared \subseteq {"replicated", "child", "ack"}
    /\ at \in [Procs -> Nat] /\ \A p \in Procs : at[p] \in 1..Len(Program[p])
    /\ status \in [Procs -> {"off", "on", "over"}]
    /\ erred \subseteq Relays
    /\ absent \in [Relays -> BOOLEAN]
    /\ holder \in [Ranks -> [act : LockActs \cup {"none"}, by : Callers]]
    /\ late \subseteq [call : (LockActs \cup RawActs) \X Ranks, from : Procs]

(* No network write precedes both positive cleanup replicas (guard.py        *)
(* finalize): from the first write of a restore on, whoever started it, the *)
(* controller is gone and nothing of the run runs on either node.           *)
NoRestoreWhileRunning ==
    \A r \in Ranks :
        ~Without(r, {"restore-started", "restored", "unchanged"}) =>
            status["controller"] = "over" /\ \A q \in Ranks : ~Running(q)

(* A node without its lease has its network back, also when calls of a dead *)
(* controller are served late or a restore is killed half way.              *)
DisarmedMeansReturned ==
    \A r \in Ranks : Has(r, "disarmed") => net[r] = Baseline /\ ~fw[r]

(* The plain mkdir of a dead controller's staging, served behind the record *)
(* that found no slot: an empty directory that nothing will ever start in,  *)
(* but a reader of the record refuses it (never_created_slot).              *)
MkdirTooLate(r) == /\ clean[r] = "absent" /\ slot[r] = "partial"
                   /\ Declared(r) /\ Has(r, "closure") /\ link[r] = "stopped"

(* Evidence of the end stays true.  A node that was told the model never    *)
(* started is right: the parent never acknowledged and no slot was staged   *)
(* on either node, now or later.  And a positive local-cleanup.json never   *)
(* goes stale, but for a mkdir that comes too late: nothing it accounts for *)
(* starts again or is accounted for differently by a later closure, though  *)
(* whatever the controller had asked of the worker may be done behind it.   *)
EvidenceStaysTrue ==
    \A r \in Ranks :
        /\ Has(r, "never-started") =>
              "ack" \notin shared /\ \A q \in Ranks : slot[q] = "absent"
        /\ clean[r] # "none" => CleanupVerified(r) \/ MkdirTooLate(r)

(* The direct network is never pulled from under a link test or a payload:  *)
(* while one is up on either node, both interfaces stay direct, and behind  *)
(* a payload both nodes keep their rules, also when the controller's trap,  *)
(* an early timer and the finalizer compete to end the run.                 *)
PayloadKeepsNetwork ==
    \A r, q \in Ranks : /\ Running(r) => net[q] = "direct"
                        /\ slot[r] = "up" => fw[q]

Borrowed(r) == net[r] # Baseline \/ fw[r]

HalfStaged == \E r \in Ranks : slot[r] = "partial"

(* A borrowed network is returned, whenever and wherever launcher and       *)
(* controller die, unless the controller left a model slot half staged for  *)
(* good (never_created_slot keeps those for manual recovery).               *)
BorrowedReturned ==
    \A r \in Ranks : Borrowed(r) ~> (Has(r, "restored") \/ []HalfStaged)

(* What runs when launcher and controller die is stopped on both nodes.     *)
RunningCancelled == \A r \in Ranks : Running(r) ~> ~Running(r)

(* network.py:109: a terminal predeclared receipt never permits run-owned   *)
(* rule residue.                                                            *)
NoRuleResidue == \A r \in Ranks : Has(r, "restored") => ~fw[r]
-----------------------------------------------------------------------------
ReturnBegun(r) == ~Without(r, {"restore-started", "restored", "unchanged"})

(* The run as a promise about two networks: an interface that is configured *)
(* or a rule that is inserted borrows, the first receipt of a restore begins*)
(* the return, and disarming the lease releases the node.                   *)
Promise == INSTANCE BorrowedPair WITH
    Nodes <- Ranks,
    lent <- {r \in Ranks : Borrowed(r)},
    running <- {r \in Ranks : Running(r)},
    returning <- {r \in Ranks : ReturnBegun(r)},
    released <- {r \in Ranks : Has(r, "disarmed")}

(* Whoever dies and whatever comes late, the programs and handlers together *)
(* do nothing but borrow, run, stop, return and release, in the order that  *)
(* BorrowedPair allows: nothing starts unless both networks are borrowed and*)
(* none is being returned, no return begins while anything runs, and a      *)
(* disarmed node is never borrowed from again.                              *)
KeepsPromise == Promise!Spec
=============================================================================
