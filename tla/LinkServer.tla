----------------------------- MODULE LinkServer -----------------------------
(***************************************************************************)
(* One link-test slot (scripts/deuces-link-server.py): a state directory   *)
(* with write-once receipts, and a transient systemd service that runs the *)
(* test server.                                                            *)
(*                                                                         *)
(* prepare, start, stop and each observation of wait-success run under the *)
(* slot's lock (LOCK_NB: who finds it held fails).  The service's own      *)
(* worker, `exec', runs without the lock, because start holds it while it  *)
(* waits for the worker's receipt.  A caller may die at any step and leave *)
(* its request with systemd.                                               *)
(*                                                                         *)
(* Time is in whole seconds of the node's monotonic clock; the fraction    *)
(* that int(remaining) drops is the choice in StartIntent.                 *)
(***************************************************************************)
EXTENDS Integers

CONSTANTS
    LeaseSeconds,   \* config leaseSeconds
    StopSeconds,    \* config stopSeconds
    Reserve,        \* seconds start keeps for a slow activation (15)
    MinBudget,      \* least remaining lease start accepts (20)
    MaxTime         \* bound: the clock stops here

ASSUME SlotPolicy ==
    /\ LeaseSeconds \in Nat /\ StopSeconds \in Nat /\ Reserve \in Nat
    /\ MinBudget \in Nat /\ MaxTime \in Nat
    /\ Reserve <= MinBudget

VARIABLES
    scoped,     \* memlock mode scoped-prlimit
    now,        \* the node's monotonic clock
    receipts,   \* names of the receipts in the slot
    preparedAt, \* of prepared.json
    runtime,    \* runtimeSeconds of start-attempted.json
    job,        \* the step of the action that holds the slot's lock
    request,    \* a systemd-run request on its way to systemd
    unit,       \* the service as systemd has it, none when not-found
    since,      \* when the service was activated
    worker,     \* the step of the worker process in the service
    orphans,    \* descendants left in the control group of an exited server
    ended       \* history: how the service's main process came to its end

vars == <<scoped, now, receipts, preparedAt, runtime, job, request, unit,
          since, worker, orphans, ended>>

Receipts == {"prepared", "attempted", "executing", "ready", "started",
             "completed", "canceled", "before-stop", "stopped"}

Has(name) == name \in receipts
Write(name) == receipts' = receipts \cup {name}

Deadline == preparedAt + LeaseSeconds

Init ==
    /\ scoped \in BOOLEAN
    /\ now = 0
    /\ receipts = {}
    /\ preparedAt = 0
    /\ runtime = 0
    /\ job = "idle"
    /\ request = FALSE
    /\ unit = "none"
    /\ since = 0
    /\ worker = "none"
    /\ orphans = FALSE
    /\ ended = "no"

-----------------------------------------------------------------------------
(* What a query of the unit and of its recorded control group can tell.     *)

Live == \/ ended = "no" /\ unit \in {"worker", "server", "stopping"}
        \/ orphans

(* identify(): the recorded process, or an exact terminal history of it.    *)
Identified == Has("executing") /\ unit # "none"

StoppedState == unit \in {"none", "failed", "expired"} /\ ~orphans

service == <<request, unit, since, worker, orphans, ended>>
slot == <<scoped, now, preparedAt, runtime>>

-----------------------------------------------------------------------------
(* prepare and start.                                                       *)

Prepare ==
    /\ job = "idle"
    /\ ~Has("prepared") /\ ~Has("canceled")
    /\ unit = "none"
    /\ Write("prepared")
    /\ preparedAt' = now
    /\ UNCHANGED <<scoped, now, runtime, job, service>>

(* Mutant: a canceled slot may still be started.                            *)
Unattempted == Has("prepared") /\ ~Has("attempted")

Startable == Has("prepared") /\ ~Has("canceled") /\ ~Has("attempted")

Enough(remaining) == remaining >= MinBudget

StartIntent ==
    /\ job = "idle"
    /\ Startable
    /\ unit = "none"
    /\ \E remaining \in {Deadline - now - 1, Deadline - now} :
          /\ Enough(remaining)
          /\ runtime' = remaining - Reserve
    /\ Write("attempted")
    /\ job' = "dispatch"
    /\ UNCHANGED <<scoped, now, preparedAt, service>>

StartDispatch ==
    /\ job = "dispatch"
    /\ request' = TRUE
    /\ job' = "await"
    /\ UNCHANGED <<slot, receipts, unit, since, worker, orphans, ended>>

(* systemd-run has returned and the worker's readiness was waited for; the  *)
(* unit may also have run to its natural end.                               *)
StartConfirm ==
    /\ job = "await"
    /\ ~request
    /\ Identified /\ unit \in {"worker", "server", "exited"}
    /\ scoped => Has("ready") /\ now < Deadline
    /\ Write("started")
    /\ job' = "idle"
    /\ UNCHANGED <<slot, service>>

-----------------------------------------------------------------------------
(* exec: the worker inside the service, without the lock.                   *)

(* Mutant: RuntimeMaxSec counts from the activation, however late.          *)
LeaseNotOver == now <= Deadline

RuntimeFits == now + runtime <= Deadline

Admit ==
    /\ unit = "worker" /\ worker = "admit"
    /\ ~Has("canceled") /\ RuntimeFits
    /\ worker' = "recheck"
    /\ UNCHANGED <<slot, receipts, job, request, unit, since, orphans, ended>>

(* The last look at canceled.json before the write: a cancellation that     *)
(* falls between the two is found by no one but a later stop.               *)
Recheck ==
    /\ unit = "worker" /\ worker = "recheck"
    /\ ~Has("canceled")
    /\ worker' = "record"
    /\ UNCHANGED <<slot, receipts, job, request, unit, since, orphans, ended>>

Record ==
    /\ unit = "worker" /\ worker = "record"
    /\ Write("executing")
    /\ worker' = IF scoped THEN "limit" ELSE "exec"
    /\ UNCHANGED <<slot, job, request, unit, since, orphans, ended>>

(* scoped_memlock: prlimit on the worker itself, between guards.            *)
Limit ==
    /\ unit = "worker" /\ worker = "limit"
    /\ ~Has("canceled") /\ RuntimeFits
    /\ worker' = "limited"
    /\ UNCHANGED <<slot, receipts, job, request, unit, since, orphans, ended>>

Limited ==
    /\ unit = "worker" /\ worker = "limited"
    /\ Write("ready")
    /\ worker' = "guard"
    /\ UNCHANGED <<slot, job, request, unit, since, orphans, ended>>

Guard ==
    /\ unit = "worker" /\ worker = "guard"
    /\ ~Has("canceled") /\ RuntimeFits
    /\ worker' = "exec"
    /\ UNCHANGED <<slot, receipts, job, request, unit, since, orphans, ended>>

Exec ==
    /\ unit = "worker" /\ worker = "exec"
    /\ unit' = "server"
    /\ worker' = "none"
    /\ UNCHANGED <<slot, receipts, job, request, since, orphans, ended>>

-----------------------------------------------------------------------------
(* wait-success: one observation under the lock.                            *)

(* Mutant: any process that is gone has completed.                          *)
GoneBeforeStop == unit \notin {"none", "worker", "server", "stopping"}

NaturalExit == unit = "exited" /\ ~orphans

WaitSuccess ==
    /\ job = "idle"
    /\ now < Deadline - StopSeconds
    /\ ~Has("canceled") /\ ~Has("stopped")
    /\ Identified
    /\ Has("started") /\ (scoped => Has("ready"))
    /\ NaturalExit
    /\ Write("completed")
    /\ UNCHANGED <<slot, job, service>>

-----------------------------------------------------------------------------
(* stop: canceled.json comes first and stays, whatever the query then says. *)

StopCancel ==
    /\ job = "idle"
    /\ Write("canceled")
    /\ job' = "query"
    /\ UNCHANGED <<slot, service>>

(* Mutant: a worker that has not recorded itself was never started.         *)
Unrecorded == ~Has("executing")

NeverAttempted == ~Has("attempted")

StopNever ==
    /\ job = "query" /\ ~Has("stopped")
    /\ NeverAttempted
    /\ unit = "none"
    /\ Write("stopped")
    /\ job' = "idle"
    /\ UNCHANGED <<slot, service>>

StopIntent ==
    /\ job = "query" /\ ~Has("stopped")
    /\ Has("attempted") /\ ~Has("before-stop")
    /\ Identified
    /\ Write("before-stop")
    /\ job' = "stop"
    /\ UNCHANGED <<slot, service>>

(* A lost stop reply is recovered from the intent and the stopped state.    *)
StopRecovered ==
    /\ job = "query" /\ ~Has("stopped")
    /\ Has("before-stop")
    /\ StoppedState
    /\ Write("stopped")
    /\ job' = "idle"
    /\ UNCHANGED <<slot, service>>

StopAgain ==
    /\ job = "query" /\ ~Has("stopped")
    /\ Has("before-stop")
    /\ ~StoppedState /\ Identified
    /\ job' = "stop"
    /\ UNCHANGED <<slot, receipts, service>>

StopRequest ==
    /\ job = "stop"
    /\ unit' = IF unit \in {"worker", "server", "exited"} THEN "stopping" ELSE unit
    /\ job' = "confirm"
    /\ UNCHANGED <<slot, receipts, request, since, worker, orphans, ended>>

StopConfirm ==
    /\ job = "confirm"
    /\ StoppedState
    /\ Write("stopped")
    /\ job' = "idle"
    /\ UNCHANGED <<slot, service>>

(* The action fails, is killed, or (stop) finds its own verified receipt.   *)
Leave ==
    /\ job # "idle"
    /\ job' = "idle"
    /\ UNCHANGED <<slot, receipts, service>>

-----------------------------------------------------------------------------
(* systemd, the test server, an operator, the clock.                        *)

Activate ==
    /\ request /\ unit = "none"
    /\ request' = FALSE
    /\ unit' = "worker" /\ worker' = "admit"
    /\ since' = now
    /\ UNCHANGED <<slot, receipts, job, orphans, ended>>

(* A refusing worker, or a server that ends with an error; systemd clears   *)
(* the group.                                                               *)
Fail ==
    /\ unit \in {"worker", "server"}
    /\ unit' = "failed" /\ worker' = "none"
    /\ ended' = "failed"
    /\ UNCHANGED <<slot, receipts, job, request, since, orphans>>

(* RemainAfterExit keeps the unit active when the server ends with 0.       *)
Exit ==
    /\ unit = "server"
    /\ unit' = "exited"
    /\ ended' = "natural"
    /\ orphans' \in BOOLEAN
    /\ UNCHANGED <<slot, receipts, job, request, since, worker>>

OrphansEnd ==
    /\ orphans
    /\ orphans' = FALSE
    /\ UNCHANGED <<slot, receipts, job, request, unit, since, worker, ended>>

Expire ==
    /\ unit \in {"worker", "server"}
    /\ now >= since + runtime
    /\ unit' = "expired" /\ worker' = "none"
    /\ ended' = "expired"
    /\ UNCHANGED <<slot, receipts, job, request, since, orphans>>

(* A stopped transient unit is unloaded.                                    *)
Stopped ==
    /\ unit = "stopping"
    /\ unit' = "none" /\ worker' = "none"
    /\ orphans' = FALSE
    /\ ended' = IF ended = "no" THEN "stopped" ELSE ended
    /\ UNCHANGED <<slot, receipts, job, request, since>>

(* systemctl reset-failed                                                   *)
Collect ==
    /\ unit \in {"failed", "expired"}
    /\ unit' = "none"
    /\ UNCHANGED <<slot, receipts, job, request, since, worker, orphans, ended>>

Tick ==
    /\ now < MaxTime
    /\ unit \in {"worker", "server"} => now < since + runtime
    /\ now' = now + 1
    /\ UNCHANGED <<scoped, receipts, preparedAt, runtime, job, service>>

Next == \/ Prepare \/ StartIntent \/ StartDispatch \/ StartConfirm
        \/ Admit \/ Recheck \/ Record \/ Limit \/ Limited \/ Guard \/ Exec
        \/ WaitSuccess
        \/ StopCancel \/ StopNever \/ StopIntent \/ StopRecovered \/ StopAgain
        \/ StopRequest \/ StopConfirm \/ Leave
        \/ Activate \/ Fail \/ Exit \/ OrphansEnd \/ Expire \/ Stopped
        \/ Collect \/ Tick

Spec == Init /\ [][Next]_vars

-----------------------------------------------------------------------------
(* Type invariant of the slot.                                              *)
TypeOK ==
    /\ scoped \in BOOLEAN /\ request \in BOOLEAN /\ orphans \in BOOLEAN
    /\ now \in Nat /\ preparedAt \in Nat /\ runtime \in Nat /\ since \in Nat
    /\ receipts \subseteq Receipts
    /\ job \in {"idle", "dispatch", "await", "query", "stop", "confirm"}
    /\ unit \in {"none", "worker", "server", "exited", "failed", "expired",
                 "stopping"}
    /\ worker \in {"none", "admit", "recheck", "record", "limit", "limited",
                   "guard", "exec"}
    /\ ended \in {"no", "natural", "failed", "expired", "stopped"}

(* The server never runs past the lease that prepare fixed, however late    *)
(* systemd served the request and whoever died meanwhile (execute refuses   *)
(* an activation whose RuntimeMaxSec would outlast the deadline).           *)
ServerInsideLease == unit = "server" => now <= Deadline

(* A positive stop receipt never goes stale (verify_stopped): every later   *)
(* stop or inspect of the slot finds the same answer.                       *)
StoppedStaysTrue ==
    Has("stopped") => /\ Has("canceled")
                      /\ StoppedState
                      /\ Has("attempted") => Has("before-stop")
                      /\ ~Has("attempted") => unit = "none"

(* completed.json is written only for a server that ended by itself with 0, *)
(* never for one that was stopped, failed or ran into its time limit.       *)
CompletedIsNatural == Has("completed") => ended = "natural"

(* The slot does what the cleanup bridge relies on.                         *)
Phase == CASE Live -> "running"
           [] ~Live /\ ended = "no" -> "new"
           [] OTHER -> "over"

Resource == INSTANCE OwnedResource WITH phase <- Phase, proof <- Has("stopped")

(* However start, worker, stop and systemd interleave: at most one run, and *)
(* no run at or behind a positive stop receipt.                             *)
OwnedOnce == Resource!Spec
=============================================================================
