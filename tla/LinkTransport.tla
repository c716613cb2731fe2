---------------------------- MODULE LinkTransport ----------------------------
(***************************************************************************)
(* The head's use of finite slots (deuces-link-server-transport.py): the   *)
(* package client (deuces-direct-tools.py), the staging of all link slots  *)
(* (deuces-direct-frontend.py), the link test (deuces-link-smoke.sh) and   *)
(* the proof that every declared slot has stopped                          *)
(* (deuces-direct-model.sh), one dispatch over ssh after the other.        *)
(*                                                                         *)
(* A dispatch is sent once.  Who waits too long gives up for good, and the *)
(* request may still be served at any later time.  What a slot does with   *)
(* an action is LinkServer, in short: start holds the slot's lock for      *)
(* long, and who finds it held is refused.                                 *)
(***************************************************************************)
EXTENDS Naturals, Sequences, FiniteSets

CONSTANTS
    Package,    \* the slot of a package client
    LinkSlots,  \* the declared link slots: the server's and then the client's
    MaxLate     \* bound: requests given up

ASSUME TransportAssumption ==
    /\ Len(LinkSlots) = 2 /\ LinkSlots[1] # LinkSlots[2]
    /\ Package \notin {LinkSlots[1], LinkSlots[2]}
    /\ MaxLate \in Nat

Server == LinkSlots[1]
Client == LinkSlots[2]
Slot == {Package, Server, Client}

VARIABLES
    slots,   \* what a slot's directory and its unit are, by slot
    jobs,    \* requests sent and not yet served, in the order they were sent
    waiting, \* the head waits for the last of them
    step,    \* the step of the head's program
    failed   \* the steps that failed

transportVars == <<slots, jobs, waiting, step, failed>>

Do(part, slot, actions) ==
    [i \in DOMAIN actions |-> [part |-> part, slot |-> slot, action |-> actions[i]]]

Dispatches ==
    Do("realize", Package, <<"stage", "prepare", "start", "wait-success",
                             "journal", "stop", "inspect">>)
    \o Do("stage-all", Server, <<"stage">>) \o Do("stage-all", Client, <<"stage">>)
    \o Do("smoke", Server, <<"prepare", "start">>)
    \o Do("smoke", Client, <<"prepare", "start", "wait-success", "journal">>)
    \o Do("stops", Client, <<"stop">>) \o Do("stops", Server, <<"stop">>)
    \o Do("trap", Client, <<"stop">>) \o Do("trap", Server, <<"stop">>)
    \o Do("cleanup-all", Server, <<"stop", "inspect">>)
    \o Do("cleanup-all", Client, <<"stop", "inspect">>)

(* The program has run to its end, or its process has not.                  *)
Over == Len(Dispatches) + 1
Gone == Len(Dispatches) + 2

Of(part) == {i \in DOMAIN Dispatches : Dispatches[i].part = part}
StepOf(part, slot, action) ==
    CHOOSE i \in Of(part) : Dispatches[i].slot = slot /\ Dispatches[i].action = action

(* The results: a package that is realized and whose client is gone, and    *)
(* slots that are all positively stopped.                                   *)
RealizedBy(i) == /\ i >= StepOf("realize", Package, "inspect")
                 /\ failed \cap Of("realize") \subseteq {StepOf("realize", Package, "journal")}

Realized == step # Gone /\ RealizedBy(step - 1)

CleanupPassed == step = Over /\ failed \cap Of("cleanup-all") = {}

Trap == StepOf("trap", Client, "stop")
TrapFor(slot) == IF slot = Client THEN Trap ELSE Trap + 1

(* Mutant: staging goes on to the next slot after a failure, as cleanup     *)
(* does, and nobody counts the outcomes.                                    *)
EndsWithRealize(part) == part = "realize"

(* A failure that ends the whole run before anything is started.            *)
EndsRun(part) == part \in {"realize", "stage-all"}

AfterFailure(i) ==
    LET s == Dispatches[i] IN
    IF i < StepOf("realize", Package, "journal") THEN StepOf("realize", Package, "journal")
    ELSE IF EndsRun(s.part) /\ s.action # "journal" THEN Gone
    ELSE IF s.part = "smoke" /\ s.slot = Server THEN TrapFor(Server)
    ELSE IF s.part = "smoke" /\ s.action # "journal" THEN StepOf("smoke", Client, "journal")
    ELSE IF s.part = "smoke" THEN TrapFor(Client)
    ELSE IF s.part = "cleanup-all" /\ s.action = "stop" THEN i + 2
    ELSE i + 1

(* A failed realization still stops its client before it ends the run, and  *)
(* who has stopped every started slot has nothing left to trap.             *)
AfterSuccess(i) ==
    IF i = StepOf("realize", Package, "inspect") /\ ~RealizedBy(i) THEN Gone
    ELSE IF i = StepOf("stops", Server, "stop") /\ failed \cap Of("stops") = {}
    THEN StepOf("cleanup-all", Server, "stop")
    ELSE i + 1

-----------------------------------------------------------------------------
TransportInit ==
    /\ slots = [s \in Slot |-> [bytes |-> "none", prepared |-> FALSE, attempted |-> FALSE,
                                locked |-> FALSE, canceled |-> FALSE, unit |-> "none"]]
    /\ jobs = <<>>
    /\ waiting = FALSE
    /\ step = 1
    /\ failed = {}

Dispatch ==
    /\ step \in DOMAIN Dispatches /\ ~waiting
    /\ jobs' = Append(jobs, [slot |-> Dispatches[step].slot, action |-> Dispatches[step].action])
    /\ waiting' = TRUE
    /\ UNCHANGED <<slots, step, failed>>

Fails == failed' = failed \cup {step} /\ step' = AfterFailure(step)
Succeeds == failed' = failed /\ step' = AfterSuccess(step)

(* TimeoutExpired: an ambiguous outcome, never sent again.                  *)
GiveUp ==
    /\ waiting /\ Len(jobs) <= MaxLate
    /\ waiting' = FALSE
    /\ Fails
    /\ UNCHANGED <<slots, jobs>>

(* positive() on the receipt, and of inspect that nothing is left.          *)
Positive(action, answer) == answer = IF action = "inspect" THEN "null" ELSE "pass"

Waited(n) == waiting /\ n = Len(jobs)

(* The n-th request is answered, to the head if it still waits for it.      *)
Answer(n, answer) ==
    /\ jobs' = SubSeq(jobs, 1, n - 1) \o SubSeq(jobs, n + 1, Len(jobs))
    /\ IF Waited(n)
       THEN /\ waiting' = FALSE
            /\ IF Positive(jobs[n].action, answer) THEN Succeeds ELSE Fails
       ELSE UNCHANGED <<waiting, step, failed>>

Becomes(s, new) == slots' = [slots EXCEPT ![s] = new]

BeingServed(n) == jobs[n].action = "start" /\ slots[jobs[n].slot].locked

(* The connection fails, the lock is held or a check refuses.               *)
Refused(n) == ~BeingServed(n) /\ Answer(n, "refused") /\ UNCHANGED slots

(* STAGE_BOOTSTRAP: only a new directory, and it may stay half written.     *)
Stage(n) ==
    LET s == jobs[n].slot IN
    /\ jobs[n].action = "stage" /\ slots[s].bytes = "none"
    /\ \/ Becomes(s, [slots[s] EXCEPT !.bytes = "exact"]) /\ Answer(n, "pass")
       \/ Becomes(s, [slots[s] EXCEPT !.bytes = "partial"]) /\ Answer(n, "refused")

(* BOOTSTRAP: the staged bytes are verified before they are executed.       *)
Enters(n, action) ==
    /\ jobs[n].action = action
    /\ slots[jobs[n].slot].bytes = "exact" /\ ~slots[jobs[n].slot].locked

Prepare(n) ==
    LET s == jobs[n].slot IN
    /\ Enters(n, "prepare") /\ ~slots[s].prepared /\ ~slots[s].canceled
    /\ Becomes(s, [slots[s] EXCEPT !.prepared = TRUE]) /\ Answer(n, "pass")

(* Mutant: a start does not look for the cancellation of a stop before it.  *)
StartCanceled(n) ==
    LET s == jobs[n].slot IN
    /\ Enters(n, "start")
    /\ slots[s].prepared /\ ~slots[s].attempted
    /\ Becomes(s, [slots[s] EXCEPT !.attempted = TRUE, !.locked = TRUE])
    /\ UNCHANGED <<jobs, waiting, step, failed>>

StartBegins(n) ==
    LET s == jobs[n].slot IN
    /\ Enters(n, "start")
    /\ slots[s].prepared /\ ~slots[s].canceled /\ ~slots[s].attempted
    /\ Becomes(s, [slots[s] EXCEPT !.attempted = TRUE, !.locked = TRUE])
    /\ UNCHANGED <<jobs, waiting, step, failed>>

StartEnds(n) ==
    LET s == jobs[n].slot IN
    /\ jobs[n].action = "start" /\ slots[s].locked
    /\ \/ Becomes(s, [slots[s] EXCEPT !.locked = FALSE, !.unit = "up"]) /\ Answer(n, "pass")
       \/ Becomes(s, [slots[s] EXCEPT !.locked = FALSE]) /\ Answer(n, "refused")

WaitSuccess(n) ==
    LET s == jobs[n].slot IN
    /\ Enters(n, "wait-success") /\ slots[s].unit = "exited" /\ ~slots[s].canceled
    /\ Answer(n, "pass") /\ UNCHANGED slots

Journal(n) ==
    LET s == jobs[n].slot IN
    /\ Enters(n, "journal") /\ slots[s].unit # "none"
    /\ Answer(n, "pass") /\ UNCHANGED slots

(* stop cancels the slot first and for good; a start whose unit it does not *)
(* see leaves it without a proof, as does any failure on the way.           *)
Stop(n) ==
    LET s == jobs[n].slot
        canceled == [slots[s] EXCEPT !.canceled = TRUE]
        unseen == slots[s].attempted /\ slots[s].unit = "none"
    IN
    /\ Enters(n, "stop")
    /\ \/ Becomes(s, canceled) /\ Answer(n, "refused")
       \/ /\ ~unseen
          /\ Becomes(s, [canceled EXCEPT !.unit = IF @ = "none" THEN @ ELSE "stopped"])
          /\ Answer(n, "pass")

Inspect(n) ==
    LET s == jobs[n].slot IN
    /\ Enters(n, "inspect")
    /\ Answer(n, IF slots[s].unit \in {"none", "stopped"} THEN "null" ELSE "object")
    /\ UNCHANGED slots

(* systemd activates a unit whose start has given up waiting for it.        *)
Appears == \E s \in Slot : /\ slots[s].attempted /\ ~slots[s].locked
                           /\ slots[s].unit = "none"
                           /\ Becomes(s, [slots[s] EXCEPT !.unit = "up"])
                           /\ UNCHANGED <<jobs, waiting, step, failed>>

(* A test or a client ends by itself.                                       *)
Exit == \E s \in Slot : /\ slots[s].unit = "up"
                        /\ Becomes(s, [slots[s] EXCEPT !.unit = "exited"])
                        /\ UNCHANGED <<jobs, waiting, step, failed>>

(* The head's process is killed; nothing is dispatched any more.            *)
Die == /\ step \in DOMAIN Dispatches
       /\ step' = Gone /\ waiting' = FALSE
       /\ UNCHANGED <<slots, jobs, failed>>

Serve(n) == \/ Refused(n) \/ Stage(n) \/ Prepare(n) \/ StartBegins(n) \/ StartEnds(n)
            \/ WaitSuccess(n) \/ Journal(n) \/ Stop(n) \/ Inspect(n)

TransportNext == \/ Dispatch \/ GiveUp \/ Appears \/ Exit \/ Die
                 \/ \E n \in DOMAIN jobs : Serve(n)

TransportSpec == TransportInit /\ [][TransportNext]_transportVars

-----------------------------------------------------------------------------
(* A result that passes is about requests still on their way, too: no       *)
(* package client runs behind a realized package (the network leases start  *)
(* there), and no link server behind a passed cleanup (the network is       *)
(* restored there).                                                         *)
PassMeansQuiet ==
    /\ Realized => slots[Package].unit # "up"
    /\ CleanupPassed => \A s \in {Server, Client} : slots[s].unit # "up"

(* A link test begins only when both slots hold the sealed bytes and the    *)
(* package client is over, whatever was lost on the way.                    *)
StartsOnlyStaged ==
    \A s \in {Server, Client} : slots[s].attempted =>
        /\ \A t \in {Server, Client} : slots[t].bytes = "exact"
        /\ slots[Package].unit # "up"
=============================================================================
