--------------------------- MODULE OwnedContainer ---------------------------
(***************************************************************************)
(* One owned model container (scripts/deuces-owned-container.py): a state  *)
(* directory with receipts, a podman container, and a guard, the one-shot  *)
(* systemd timer that cleans up when the lease ends.                       *)
(*                                                                         *)
(* Every action runs under the directory's control.lock, for which it      *)
(* waits; `by' holds the lock and `job' is the step it has reached.        *)
(* A caller (the adapter, the cleanup bridge) may die at any step; what it *)
(* has asked of podman or systemd may then still be carried out.  Receipts *)
(* are replaced, not write-once: that matters for cleanup.json, of which   *)
(* `cleanup' keeps the result and, when positive, the writer.              *)
(*                                                                         *)
(* The lease is ample while check_timer passes (more than 120 s left),     *)
(* short afterwards; a short lease may fire.                               *)
(***************************************************************************)
CONSTANT Faults     \* what may go wrong besides dying callers

ASSUME FaultsKnown == Faults \subseteq {"stray", "podman", "guard"}

VARIABLES
    faults,     \* those of Faults that do occur: stray, podman, guard
    receipts,   \* names of the receipts, cleanup.json apart
    cleanup,    \* cleanup.json: none, failed, or who wrote it with a pass
    by, job,    \* the holder of control.lock and its step
    asked,      \* commands on their way to podman or systemd
    box,        \* the container as podman has it
    group,      \* live processes in the container's control group
    lease, timer, service,  \* the guard
    decided,    \* a caller has made up its mind to clean up
    ran         \* history: the container has been started

vars == <<faults, receipts, cleanup, by, job, asked, box, group, lease, timer,
          service, decided, ran>>

Names == {"prepared", "arm-attempted", "armed", "canceled",
          "create-attempted", "cid", "created", "start-attempted", "process",
          "started", "remove-attempted", "removed", "disarm-attempted",
          "disarmed"}

Has(name) == name \in receipts
Write(name) == receipts' = receipts \cup {name}

Init ==
    /\ faults \in SUBSET Faults
    /\ receipts = {} /\ cleanup = "none"
    /\ by = "nobody" /\ job = "idle"
    /\ asked = {}
    /\ box = "none" /\ group = FALSE
    /\ lease = "ample" /\ timer = "none" /\ service = "idle"
    /\ decided = FALSE /\ ran = FALSE

container == <<faults, box, group, ran>>
guard == <<lease, timer, service>>

-----------------------------------------------------------------------------
(* Jobs under the lock.                                                     *)

Free == by = "nobody"
Caller(step) == by = "caller" /\ job = step
Begin(step) == by' = "caller" /\ job' = step
Goto(step) == job' = step /\ UNCHANGED by

Finish == by' = "nobody" /\ job' = "idle"

Ask(command) == asked' = asked \cup {command}
Answered(command) == command \notin asked

(* A command may outlive the job that asked for it.                         *)
Abandoned == {left \in SUBSET asked : "stray" \in faults \/ left = {}}

-----------------------------------------------------------------------------
(* What a job finds out.                                                    *)

TimerOK == /\ Has("armed") /\ lease = "ample"
           /\ timer = "waiting" /\ service = "idle"

(* Mutant: nothing of that name is there, so nothing is.                    *)
NotFound == box = "none"

(* inspect() returns None: no container, and no attempt left unexplained.   *)
Absent == /\ box = "none"
          /\ IF Has("cid") THEN Has("removed") ELSE ~Has("create-attempted")

Present == /\ box # "none"
           /\ Has("cid") \/ Has("create-attempted")

(* inspect() of a container adopts its identity and its process.            *)
Adopted == receipts \cup {"cid"}
                    \cup (IF box = "running" THEN {"process"} ELSE {})

(* Mutant: a started container without a known group passes as empty.       *)
KnownGroupEmpty == Has("process") => ~group

Empty == IF Has("process") THEN ~group ELSE ~Has("start-attempted")

-----------------------------------------------------------------------------
(* prepare and arm.                                                         *)

Prepare ==
    /\ Free
    /\ ~Has("prepared") /\ box = "none" /\ timer = "none"
    /\ Write("prepared")
    /\ UNCHANGED <<cleanup, by, job, asked, container, guard, decided>>

ArmIntent ==
    /\ Free
    /\ Has("prepared") /\ ~Has("canceled") /\ ~Has("arm-attempted")
    /\ timer = "none"
    /\ Write("arm-attempted")
    /\ Ask("timer")
    /\ Begin("arm")
    /\ UNCHANGED <<cleanup, container, guard, decided>>

ArmConfirm ==
    /\ Caller("arm") /\ Answered("timer")
    /\ timer = "waiting" /\ service = "idle"
    /\ Write("armed")
    /\ Finish
    /\ UNCHANGED <<cleanup, asked, container, guard, decided>>

-----------------------------------------------------------------------------
(* create, start and inspect.                                               *)

CreateIntent ==
    /\ Free
    /\ Has("prepared") /\ TimerOK
    /\ ~Has("canceled") /\ ~Has("create-attempted")
    /\ box = "none"
    /\ Write("create-attempted")
    /\ Begin("create")
    /\ UNCHANGED <<cleanup, asked, container, guard, decided>>

CreateAsk ==
    /\ Caller("create")
    /\ Ask("create")
    /\ Goto("creating")
    /\ UNCHANGED <<receipts, cleanup, container, guard, decided>>

CreateReply ==
    /\ Caller("creating") /\ Answered("create") /\ box # "none"
    /\ Write("cid")
    /\ Goto("created")
    /\ UNCHANGED <<cleanup, asked, container, guard, decided>>

Created ==
    /\ Caller("created")
    /\ box = "created"
    /\ Write("created")
    /\ Finish
    /\ UNCHANGED <<cleanup, asked, container, guard, decided>>

StartIntent ==
    /\ Free
    /\ TimerOK
    /\ ~Has("canceled") /\ ~Has("start-attempted")
    /\ Has("created") /\ box = "created"
    /\ Write("start-attempted")
    /\ Begin("start")
    /\ UNCHANGED <<cleanup, asked, container, guard, decided>>

StartAsk ==
    /\ Caller("start")
    /\ Ask("start")
    /\ Goto("starting")
    /\ UNCHANGED <<receipts, cleanup, container, guard, decided>>

StartReply ==
    /\ Caller("starting") /\ Answered("start")
    /\ box = "running"
    /\ receipts' = Adopted \cup {"started"}
    /\ Finish
    /\ UNCHANGED <<cleanup, asked, container, guard, decided>>

Inspect ==
    /\ Free
    /\ Has("prepared") /\ Present
    /\ receipts' = Adopted
    /\ UNCHANGED <<cleanup, by, job, asked, container, guard, decided>>

-----------------------------------------------------------------------------
(* cleanup, by a caller or by the guard's service.                          *)

(* The adapter cleans up what its last inspect showed, or when it never     *)
(* learnt a CID; the bridge, when it found no cleanup.json.  Either looks   *)
(* before it waits for the lock.                                            *)
Decide ==
    /\ ~decided
    /\ cleanup = "none" \/ box # "none" \/ ~Has("created")
    /\ decided' = TRUE
    /\ UNCHANGED <<receipts, cleanup, by, job, asked, container, guard>>

CallerCleanup ==
    /\ Free
    /\ Has("prepared")
    /\ decided
    /\ decided' = FALSE
    /\ Write("canceled")
    /\ Begin("inspect")
    /\ UNCHANGED <<cleanup, asked, container, guard>>

GuardCleanup ==
    /\ Free
    /\ Has("prepared")
    /\ service = "firing"
    /\ Write("canceled")
    /\ by' = "guard" /\ job' = "inspect"
    /\ UNCHANGED <<cleanup, asked, container, guard, decided>>

CleanAbsent ==
    /\ job = "inspect" /\ Absent
    /\ Goto("verify")
    /\ UNCHANGED <<receipts, cleanup, asked, container, guard, decided>>

(* Mutant: a container that was never reported started needs no stop.       *)
ReportedStarted == box = "running" /\ Has("started")

NeedsStop == box = "running"

CleanPresent ==
    /\ job = "inspect" /\ Present
    /\ receipts' = Adopted
    /\ IF NeedsStop THEN Ask("stop") /\ Goto("stop")
                    ELSE Goto("final") /\ UNCHANGED asked
    /\ UNCHANGED <<cleanup, container, guard, decided>>

CleanStopped ==
    /\ job = "stop" /\ Answered("stop")
    /\ Goto("final")
    /\ UNCHANGED <<receipts, cleanup, asked, container, guard, decided>>

CleanRemove ==
    /\ job = "final"
    /\ box \in {"created", "exited"} /\ Empty
    /\ Write("remove-attempted")
    /\ Ask("rm")
    /\ Goto("rm")
    /\ UNCHANGED <<cleanup, container, guard, decided>>

CleanRemoved ==
    /\ job = "rm" /\ Answered("rm")
    /\ box = "none"
    /\ Write("removed")
    /\ Goto("verify")
    /\ UNCHANGED <<cleanup, asked, container, guard, decided>>

(* cleanup.json is written in either case; the service ends with it.        *)
Report(result) ==
    /\ cleanup' = IF result = "pass" THEN by ELSE "failed"
    /\ service' = IF by # "guard" THEN service
                  ELSE IF result = "pass" THEN "idle" ELSE "failed"
    /\ Finish
    /\ UNCHANGED <<receipts, container, lease, timer, decided>>

CleanPass ==
    /\ job = "verify" /\ Empty
    /\ Report("pass")
    /\ UNCHANGED asked

CleanFail ==
    /\ \/ job = "inspect" /\ ~Absent /\ ~Present
       \/ job = "final" /\ ~(box \in {"created", "exited"} /\ Empty)
       \/ job = "rm" /\ Answered("rm") /\ box # "none"
       \/ job = "verify" /\ ~Empty
       \/ "podman" \in faults /\ job \in {"inspect", "stop", "final", "rm"}
    /\ asked' \in Abandoned
    /\ Report("failed")

-----------------------------------------------------------------------------
(* disarm.                                                                  *)

Positive == cleanup \in {"caller", "guard"}

(* Mutant: an attempted cleanup is enough.                                  *)
Attempted == cleanup # "none" /\ Has("armed")

MayDisarm == Positive /\ Absent /\ Empty /\ Has("armed")

Loaded == timer \in {"waiting", "elapsed"}

DisarmIntent ==
    /\ Free
    /\ MayDisarm /\ ~Has("disarmed")
    /\ Loaded /\ service = "idle"
    /\ Write("disarm-attempted")
    /\ Begin("disarm")
    /\ UNCHANGED <<cleanup, asked, container, guard, decided>>

DisarmStop ==
    /\ Caller("disarm")
    /\ timer' = IF timer = "waiting" THEN "stopped" ELSE "gone"
    /\ Goto("stopped")
    /\ UNCHANGED <<receipts, cleanup, asked, container, lease, service, decided>>

(* Mutant: the service is not looked at again behind the stop.              *)
TimerStopped == ~Loaded

Quiet == ~Loaded /\ service = "idle"

DisarmConfirm ==
    /\ Caller("stopped")
    /\ Quiet
    /\ Write("disarmed")
    /\ Finish
    /\ UNCHANGED <<cleanup, asked, container, guard, decided>>

(* The timer has fired and is collected: the journal must show that this    *)
(* very cleanup.json was written by its service.                            *)
DisarmCollected ==
    /\ Free
    /\ MayDisarm /\ ~Has("disarmed")
    /\ ~Loaded /\ service = "idle"
    /\ cleanup = "guard"
    /\ Write("disarmed")
    /\ UNCHANGED <<cleanup, by, job, asked, container, guard, decided>>

-----------------------------------------------------------------------------
(* Callers and the guard's service die; podman, systemd and the lease.      *)

Die ==
    /\ by = "caller"
    /\ asked' \in Abandoned
    /\ Finish
    /\ UNCHANGED <<receipts, cleanup, container, guard, decided>>

(* The service runs into TimeoutStartSec, at a step or before the lock.     *)
GuardDies ==
    /\ "guard" \in faults
    /\ service = "firing"
    /\ service' = "failed"
    /\ IF by = "guard" THEN Finish /\ asked' \in Abandoned
                       ELSE UNCHANGED <<by, job, asked>>
    /\ UNCHANGED <<receipts, cleanup, container, lease, timer, decided>>

Served(command) ==
    /\ command \in asked
    /\ asked' = asked \ {command}
    /\ UNCHANGED <<faults, receipts, cleanup, by, job, decided>>

Arms ==
    /\ Served("timer")
    /\ timer' = "waiting"
    /\ UNCHANGED <<box, group, ran, lease, service>>

Creates ==
    /\ Served("create")
    /\ box' = "created"
    /\ UNCHANGED <<group, ran, guard>>

Starts ==
    /\ Served("start")
    /\ IF box = "created" THEN box' = "running" /\ group' = TRUE /\ ran' = TRUE
                          ELSE UNCHANGED <<box, group, ran>>
    /\ UNCHANGED guard

Stops ==
    /\ Served("stop")
    /\ IF box = "running" THEN box' = "exited" /\ group' \in BOOLEAN
                          ELSE UNCHANGED <<box, group>>
    /\ UNCHANGED <<ran, guard>>

Removes ==
    /\ Served("rm")
    /\ box' = IF box \in {"created", "exited"} THEN "none" ELSE box
    /\ UNCHANGED <<group, ran, guard>>

Exits ==
    /\ box = "running"
    /\ box' = "exited" /\ group' \in BOOLEAN
    /\ UNCHANGED <<faults, receipts, cleanup, by, job, asked, ran, guard,
                   decided>>

GroupEnds ==
    /\ box # "running" /\ group
    /\ group' = FALSE
    /\ UNCHANGED <<faults, receipts, cleanup, by, job, asked, box, ran, guard,
                   decided>>

Shorten ==
    /\ Has("arm-attempted") /\ lease = "ample"
    /\ lease' = "short"
    /\ UNCHANGED <<receipts, cleanup, by, job, asked, container, timer, service,
                   decided>>

Fire ==
    /\ timer = "waiting" /\ lease = "short"
    /\ timer' = "elapsed" /\ service' = "firing"
    /\ UNCHANGED <<receipts, cleanup, by, job, asked, container, lease, decided>>

Collect ==
    /\ timer = "elapsed" /\ service # "firing"
    /\ timer' = "gone"
    /\ UNCHANGED <<receipts, cleanup, by, job, asked, container, lease, service,
                   decided>>

CleanStep == \/ CleanAbsent \/ CleanPresent \/ CleanStopped \/ CleanRemove
             \/ CleanRemoved \/ CleanPass \/ CleanFail

Effect == Arms \/ Creates \/ Starts \/ Stops \/ Removes

Next == \/ Prepare \/ ArmIntent \/ ArmConfirm
        \/ CreateIntent \/ CreateAsk \/ CreateReply \/ Created
        \/ StartIntent \/ StartAsk \/ StartReply \/ Inspect
        \/ Decide \/ CallerCleanup \/ GuardCleanup \/ CleanStep
        \/ DisarmIntent \/ DisarmStop \/ DisarmConfirm \/ DisarmCollected
        \/ Die \/ GuardDies \/ Effect \/ Exits \/ GroupEnds
        \/ Shorten \/ Fire \/ Collect

(* The lease passes, its timer fires, podman answers, the service works;    *)
(* a caller is ended by its own time limit at the latest, and nobody is     *)
(* kept from the lock for ever.                                             *)
Fairness == /\ WF_vars(Shorten) /\ WF_vars(Fire) /\ WF_vars(Effect)
            /\ WF_vars(by = "guard" /\ CleanStep)
            /\ WF_vars(Die)
            /\ SF_vars(GuardCleanup)

Spec == Init /\ [][Next]_vars /\ Fairness

-----------------------------------------------------------------------------
Jobs == {"arm", "create", "creating", "created", "start", "starting",
         "inspect", "stop", "final", "rm", "verify", "disarm", "stopped"}

(* Type invariant: the lock is held exactly while a job runs, and by the    *)
(* guard only while its service runs.                                       *)
TypeOK ==
    /\ faults \subseteq {"stray", "podman", "guard"}
    /\ receipts \subseteq Names
    /\ cleanup \in {"none", "failed", "caller", "guard"}
    /\ by \in {"nobody", "caller", "guard"}
    /\ job \in (IF by = "nobody" THEN {"idle"} ELSE Jobs)
    /\ by = "guard" => service = "firing"
    /\ asked \subseteq {"timer", "create", "start", "stop", "rm"}
    /\ box \in {"none", "created", "running", "exited"}
    /\ group \in BOOLEAN /\ decided \in BOOLEAN /\ ran \in BOOLEAN
    /\ lease \in {"ample", "short"}
    /\ timer \in {"none", "waiting", "elapsed", "gone", "stopped"}
    /\ service \in {"idle", "firing", "failed"}

(* A positive cleanup.json stays true, whatever commands of dead callers    *)
(* podman still carries out (cleanup, inspect).                             *)
PositiveStaysTrue == Positive => box = "none" /\ ~group

(* A guard that has not fired is stopped only when there is nothing left to *)
(* guard, now and later (disarm).                                           *)
StoppedGuardsNothing == timer = "stopped" => box = "none" /\ ~group

(* Behind a positive disarm no cleanup is running or will run.              *)
DisarmedIsQuiet == Has("disarmed") => ~Loaded /\ service # "firing"

(* What the cleanup bridge relies on: one run at most, and none at or       *)
(* behind the receipt of the disarm.                                        *)
Phase == IF box = "running" \/ group THEN "running"
         ELSE IF ran THEN "over" ELSE "new"

Resource == INSTANCE OwnedResource WITH phase <- Phase, proof <- Has("disarmed")

OwnedOnce == Resource!Spec

(* Whichever callers die, a model container does not run for ever: its      *)
(* guard stops it (arm, create, start in this order, cleanup by the service *)
(* whose podman works).                                                     *)
StartedEnds == faults = {} /\ box = "running" ~> box # "running"
=============================================================================
