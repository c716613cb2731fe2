----------------------------- MODULE WeightHash -----------------------------
(***************************************************************************)
(* The hash of a model's weights on one node of a cluster                  *)
(* (scripts/cluster-weight-hash.sh and the shared-storage copy of it): a   *)
(* state directory with marker files and a transient user service, whose   *)
(* worker reads the weights while others may write them.                   *)
(*                                                                         *)
(* start and stop take the directory's control.lock; start gives it up     *)
(* before it polls, and then runs a stop of its own.  Any of them may end  *)
(* at any step, because it is killed or because a check or a command of it *)
(* fails, and leave its request with systemd.                              *)
(***************************************************************************)
EXTENDS Integers

CONSTANTS
    Files,      \* the weight files
    MaxWrites   \* bound: how often a file is written

ASSUME WritesBound == MaxWrites \in Nat

VARIABLES
    shared,     \* the script is the copy for shared storage
    files,      \* names of the files in the state directory
    by, job,    \* who holds control.lock and the step it has reached
    poll,       \* the polling of start
    never,      \* a stop has answered never-started
    asked,      \* requests on their way to systemd
    unit,       \* the service as systemd has it, none when not-found
    alive,      \* processes in its control group
    cgroup,     \* systemd knows a control group of it
    worker,     \* the step its worker has reached
    content, version,       \* what the weights are, how often written
    before, after, candidate,   \* what the worker has seen of them
    intact      \* history: they were as expected all through the reading

caller == <<by, job, poll, never>>
service == <<asked, unit, alive, cgroup>>
weights == <<content, version, intact>>
seen == <<before, after, candidate>>
vars == <<shared, files, caller, service, worker, weights, seen>>

Names == {"expected-argv", "start-attempted", "identity", "group", "cancelled",
          "before-stop", "stop-proof", "tree"}

Has(name) == name \in files
Write(name) == files' = files \cup {name}

Init ==
    /\ shared \in BOOLEAN
    /\ files = {}
    /\ by = "nobody" /\ job = "idle" /\ poll = "off" /\ never = FALSE
    /\ asked = {} /\ unit = "none" /\ alive = FALSE /\ cgroup = FALSE
    /\ worker = "none"
    /\ content \in [Files -> {"expected", "other"}]
    /\ version = [f \in Files |-> 0] /\ intact = FALSE
    /\ before = version /\ after = version
    /\ candidate = [f \in Files |-> "unread"]

-----------------------------------------------------------------------------
(* start.                                                                   *)

Take(who, step) == by = "nobody" /\ by' = who /\ job' = step
At(who, step) == by = who /\ job = step
Release == by' = "nobody" /\ job' = "idle"

StartArgv ==
    /\ Take("start", "argv")
    /\ \A name \in {"cancelled", "start-attempted", "identity", "expected-argv"} :
          ~Has(name)
    /\ unit = "none"
    /\ Write("expected-argv")
    /\ UNCHANGED <<shared, poll, never, service, worker, weights, seen>>

StartAttempt ==
    /\ At("start", "argv")
    /\ Write("start-attempted")
    /\ job' = "run"
    /\ UNCHANGED <<shared, by, poll, never, service, worker, weights, seen>>

StartRequest ==
    /\ At("start", "run")
    /\ asked' = asked \cup {"run"}
    /\ job' = "identify"
    /\ UNCHANGED <<shared, files, by, poll, never, unit, alive, cgroup, worker,
                   weights, seen>>

(* A small checkpoint may be hashed, and its control group gone, by now.    *)
StartIdentify ==
    /\ At("start", "identify") /\ "run" \notin asked
    /\ unit # "none"
    /\ files' = files \cup {"identity"} \cup (IF cgroup THEN {"group"} ELSE {})
    /\ Release
    /\ poll' = "waiting"
    /\ UNCHANGED <<shared, never, service, worker, weights, seen>>

PollExited ==
    /\ poll = "waiting"
    /\ unit = "exited" /\ Has("tree")
    /\ poll' = "verified"
    /\ UNCHANGED <<shared, files, by, job, never, service, worker, weights, seen>>

(* The service is failed or dead, the time is over, or start is killed.     *)
PollEnd ==
    /\ poll \in {"waiting", "verified"}
    /\ poll' = "off"
    /\ by' = IF by = "poll" THEN "stop" ELSE by
    /\ UNCHANGED <<shared, files, job, never, service, worker, weights, seen>>

(* Behind the stop of its own that passed, start prints the hash.           *)
Printing == IF by = "poll" THEN "printed" ELSE poll

(* Mutant: a failed stop does not keep the hash from being printed.         *)
PrintAnyway == Printing

(* set -e: start ends with a stop that fails.                               *)
GivingUp == IF by = "poll" THEN "off" ELSE poll

-----------------------------------------------------------------------------
(* stop, of anybody or of the polling start.                                *)

StopBegin ==
    /\ \/ Take("stop", "query")
       \/ Take("poll", "query") /\ poll = "verified"
    /\ Write("cancelled")
    /\ UNCHANGED <<shared, poll, never, service, worker, weights, seen>>

Querying == by \in {"stop", "poll"} /\ job = "query"

NeverStarted == ~Has("start-attempted") /\ ~Has("identity") /\ ~Has("before-stop")

StopNever ==
    /\ Querying /\ ~Has("stop-proof")
    /\ unit = "none" /\ NeverStarted
    /\ never' = TRUE
    /\ poll' = Printing
    /\ Release
    /\ UNCHANGED <<shared, files, service, worker, weights, seen>>

(* The control group is the unit's, the recorded one or, in the shared      *)
(* copy, derived for a worker that has ended well.                          *)
GroupKnown == \/ cgroup \/ Has("group")
              \/ shared /\ unit = "exited" /\ Has("tree")

StopIntent ==
    /\ Querying /\ ~Has("stop-proof")
    /\ unit # "none" /\ Has("expected-argv") /\ GroupKnown
    /\ Write("before-stop")
    /\ job' = "stop"
    /\ UNCHANGED <<shared, by, poll, never, service, worker, weights, seen>>

StopRequest ==
    /\ job = "stop"
    /\ asked' = asked \cup {"stop"}
    /\ job' = "confirm"
    /\ UNCHANGED <<shared, files, by, poll, never, unit, alive, cgroup, worker,
                   weights, seen>>

Stopped == unit \in {"none", "dead", "failed"} /\ ~alive

StopConfirm ==
    /\ job = "confirm" /\ "stop" \notin asked
    /\ Stopped
    /\ Write("stop-proof")
    /\ poll' = Printing
    /\ Release
    /\ UNCHANGED <<shared, never, service, worker, weights, seen>>

StopAgain ==
    /\ Querying /\ Has("stop-proof")
    /\ Stopped
    /\ poll' = Printing
    /\ Release
    /\ UNCHANGED <<shared, files, never, service, worker, weights, seen>>

(* Killed, or ended by a check or a command that failed.                    *)
Leave ==
    /\ by # "nobody"
    /\ Release
    /\ poll' = GivingUp
    /\ UNCHANGED <<shared, files, never, service, worker, weights, seen>>

-----------------------------------------------------------------------------
(* worker, in the service.                                                  *)

Working(step) == unit = "running" /\ worker = step

(* The list of sizes and times is one step: a write while it is made is     *)
(* either in it or makes the two lists differ.                              *)
MetadataBefore ==
    /\ Working("begin")
    /\ before' = version
    /\ intact' = \A f \in Files : content[f] = "expected"
    /\ worker' = "read"
    /\ UNCHANGED <<shared, files, caller, service, content, version, after,
                   candidate>>

ReadFile ==
    /\ Working("read")
    /\ \E f \in Files : /\ candidate[f] = "unread"
                        /\ candidate' = [candidate EXCEPT ![f] = content[f]]
    /\ UNCHANGED <<shared, files, caller, service, worker, weights, before, after>>

MetadataAfter ==
    /\ Working("read")
    /\ \A f \in Files : candidate[f] # "unread"
    /\ after' = version
    /\ worker' = "compare"
    /\ UNCHANGED <<shared, files, caller, service, weights, before, candidate>>

(* Mutant: the metadata is not compared.                                    *)
HashMatches == \A f \in Files : candidate[f] = "expected"

Verified == before = after /\ HashMatches

Publish ==
    /\ Working("compare")
    /\ Verified
    /\ Write("tree")
    /\ worker' = "done"
    /\ UNCHANGED <<shared, caller, service, weights, seen>>

-----------------------------------------------------------------------------
(* systemd, and whoever writes the weights.                                 *)

Activate ==
    /\ "run" \in asked
    /\ asked' = asked \ {"run"}
    /\ unit' = "running" /\ alive' = TRUE /\ cgroup' = TRUE
    /\ worker' = "begin"
    /\ UNCHANGED <<shared, files, caller, weights, seen>>

ExitWell ==
    /\ Working("done")
    /\ unit' = "exited" /\ alive' = FALSE
    /\ UNCHANGED <<shared, files, caller, asked, cgroup, worker, weights, seen>>

(* A step of the worker fails, or RuntimeMaxSec is over.                    *)
Fail ==
    /\ unit = "running"
    /\ unit' = "failed" /\ alive' \in BOOLEAN
    /\ UNCHANGED <<shared, files, caller, asked, cgroup, worker, weights, seen>>

(* The unit is dead, or failed if it had to be killed.                      *)
Stop ==
    /\ "stop" \in asked
    /\ asked' = asked \ {"stop"}
    /\ \/ /\ unit = "running"
          /\ \/ unit' = "dead" /\ alive' = FALSE
             \/ unit' = "failed" /\ alive' \in BOOLEAN
       \/ unit = "exited" /\ unit' = "dead" /\ UNCHANGED alive
       \/ unit \notin {"running", "exited"} /\ UNCHANGED <<unit, alive>>
    /\ UNCHANGED <<shared, files, caller, cgroup, worker, weights, seen>>

GroupEnds ==
    /\ alive /\ unit # "running"
    /\ alive' = FALSE
    /\ UNCHANGED <<shared, files, caller, asked, unit, cgroup, worker, weights,
                   seen>>

GroupRemoved ==
    /\ cgroup /\ ~alive /\ unit # "running"
    /\ cgroup' = FALSE
    /\ UNCHANGED <<shared, files, caller, asked, unit, alive, worker, weights,
                   seen>>

(* A dead transient unit is unloaded, a failed one by reset-failed.         *)
Collect ==
    /\ unit \in {"dead", "failed"}
    /\ unit' = "none" /\ cgroup' = FALSE
    /\ UNCHANGED <<shared, files, caller, asked, alive, worker, weights, seen>>

Rewrite(f) ==
    /\ version[f] < MaxWrites
    /\ version' = [version EXCEPT ![f] = @ + 1]
    /\ \E new \in {"expected", "other"} : content' = [content EXCEPT ![f] = new]
    /\ intact' = (intact /\ worker # "read")
    /\ UNCHANGED <<shared, files, caller, service, worker, seen>>

Next == \/ StartArgv \/ StartAttempt \/ StartRequest \/ StartIdentify
        \/ PollExited \/ PollEnd
        \/ StopBegin \/ StopNever \/ StopIntent \/ StopRequest \/ StopConfirm
        \/ StopAgain \/ Leave
        \/ MetadataBefore \/ ReadFile \/ MetadataAfter \/ Publish
        \/ Activate \/ ExitWell \/ Fail \/ Stop
        \/ GroupEnds \/ GroupRemoved \/ Collect
        \/ \E f \in Files : Rewrite(f)

Spec == Init /\ [][Next]_vars

-----------------------------------------------------------------------------
(* Type invariant of the hash slot; the lock is held by who has a step.     *)
TypeOK ==
    /\ shared \in BOOLEAN /\ never \in BOOLEAN /\ alive \in BOOLEAN
    /\ cgroup \in BOOLEAN /\ intact \in BOOLEAN
    /\ files \subseteq Names
    /\ <<by, job>> \in {<<"nobody", "idle">>}
                       \cup {"start"} \X {"argv", "run", "identify"}
                       \cup {"stop", "poll"} \X {"query", "stop", "confirm"}
    /\ poll \in {"off", "waiting", "verified", "printed"}
    /\ asked \subseteq {"run", "stop"}
    /\ unit \in {"none", "running", "exited", "failed", "dead"}
    /\ worker \in {"none", "begin", "read", "compare", "done"}
    /\ content \in [Files -> {"expected", "other"}]
    /\ candidate \in [Files -> {"expected", "other", "unread"}]
    /\ version \in [Files -> Nat] /\ before \in [Files -> Nat]
    /\ after \in [Files -> Nat]

(* tree.sha256 vouches for one tree: while the worker read, file by file,   *)
(* the whole tree was the expected one and nobody wrote it (worker: the     *)
(* metadata of before and after are compared).                              *)
HashOfOneTree == Has("tree") => intact

(* A printed hash was published by a worker that is gone for good: the      *)
(* coordinator may start the model (start prints behind its own stop).      *)
PrintedIsOver ==
    poll = "printed" => /\ Has("tree") /\ Has("cancelled")
                        /\ Has("stop-proof")
                        /\ Stopped

(* The hash service runs at most once, and never at or behind a positive    *)
(* answer of stop, never-started included.                                  *)
Phase == IF alive THEN "running" ELSE IF worker = "none" THEN "new" ELSE "over"

Resource == INSTANCE OwnedResource
            WITH phase <- Phase, proof <- never \/ Has("stop-proof")

OwnedOnce == Resource!Spec
=============================================================================
