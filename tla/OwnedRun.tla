------------------------------ MODULE OwnedRun ------------------------------
(***************************************************************************)
(* One engine run under its parent (scripts/deuces-resource-parent.py).    *)
(* The parent starts the engine script as a child, which declares every    *)
(* container and hash slot over a local channel of write-once files        *)
(* (deuces-declaration-channel.py) and stages nothing before the parent    *)
(* has acknowledged.  The parent first has a callback hand the declaration *)
(* to the guards of both nodes (deuces-direct-replicate.py).  At the end   *)
(* the child cleans up (deuces-owned-adapter.sh, the engine scripts) and   *)
(* the parent judges its receipts.                                         *)
(*                                                                         *)
(* What the child or the callback asks of a node goes on when they die.    *)
(* A slot is what OwnedResource promises of it, at the grain at which the  *)
(* adapter drives it.                                                      *)
(***************************************************************************)
EXTENDS Integers, Sequences

CONSTANTS Rank,     \* the two nodes, 0 and 1
          Front     \* the one whose container is started first

ASSUME TwoNodes == Rank = {0, 1} /\ Front \in Rank

VARIABLES
    replicates,     \* a pre-ACK policy was given
    parent,         \* the step of the parent
    received, overdue,  \* a signal has arrived; the runtime is over
    stopping,       \* SIGTERM was forwarded
    errors,         \* an error was noted
    channel,        \* files of the channel
    callback,       \* the replica the callback waits for
    relay, inventory,   \* accept-inventory under way, done, per node
    child, pc,      \* the child, and the call of its program it has reached
    waiting,        \* it waits for the reply
    attempted, ok, failed,  \* slots tried, slots stopped; a cleanup failed
    aggregate,      \* child-resources.json with a pass
    orders,         \* calls under way on the nodes
    phase,          \* per slot, as the node has it
    canceled, proof,    \* slots with a tombstone; with a positive last receipt
    result          \* parent-result.json

Boxes == {"box"} \X Rank
Hashes == {"hash"} \X Rank
Slots == Boxes \cup Hashes

policy == <<replicates>>
judging == <<parent, stopping, errors, result>>
clock == <<received, overdue>>
replication == <<callback, relay, inventory>>
closing == <<ok, failed, aggregate>>
nodes == <<phase, canceled, proof>>
vars == <<policy, judging, clock, channel, replication, child, pc, waiting,
          attempted, closing, orders, nodes>>

Init ==
    /\ replicates \in BOOLEAN
    /\ parent = "watching" /\ stopping = FALSE /\ errors = FALSE
    /\ result = "none"
    /\ received = FALSE /\ overdue = FALSE
    /\ channel = {}
    /\ callback = "none" /\ relay = {} /\ inventory = {}
    /\ child = "declare" /\ pc = 1 /\ waiting = FALSE
    /\ attempted = {} /\ ok = {} /\ failed = FALSE /\ aggregate = FALSE
    /\ orders = {}
    /\ phase = [s \in Slots |-> "none"] /\ canceled = {} /\ proof = {}

-----------------------------------------------------------------------------
(* The child: declare, wait, launch, serve, clean.                          *)

Call(action, kind, r) == <<action, <<kind, r>>>>
OnBoth(action, kind) == <<Call(action, kind, 0), Call(action, kind, 1)>>

(* Mutant: each container is armed only when its own turn comes.            *)
RankByRank ==
    OnBoth("prepare", "hash") \o OnBoth("start", "hash")
    \o OnBoth("await", "hash") \o OnBoth("prepare", "box")
    \o <<Call("arm", "box", 0), Call("create", "box", 0),
         Call("arm", "box", 1), Call("create", "box", 1)>>
    \o <<Call("start", "box", Front), Call("start", "box", 1 - Front)>>

(* The hashes run next to each other; their answers are awaited together.   *)
Launch ==
    OnBoth("prepare", "hash") \o OnBoth("start", "hash")
    \o OnBoth("await", "hash") \o OnBoth("prepare", "box")
    \o OnBoth("arm", "box") \o OnBoth("create", "box")
    \o <<Call("start", "box", Front), Call("start", "box", 1 - Front)>>

Closing == OnBoth("stop", "box") \o OnBoth("disarm", "box")
           \o OnBoth("stop", "hash")

Program == IF child = "clean" THEN Closing ELSE Launch

Turn(step) == child' = step /\ pc' = 1 /\ waiting' = FALSE

Offer ==
    /\ child = "declare"
    /\ channel' = channel \cup {"offered"}
    /\ Turn("waiting")
    /\ UNCHANGED <<policy, judging, clock, replication, attempted, closing,
                   orders, nodes>>

Acknowledged == {"anchor", "ack"} \subseteq channel

WaitAck ==
    /\ child = "waiting" /\ Acknowledged
    /\ Turn("launch")
    /\ UNCHANGED <<policy, judging, clock, channel, replication, attempted,
                   closing, orders, nodes>>

(* A slot is marked as attempted before anything is tried.                  *)
Ask ==
    /\ child \in {"launch", "clean"} /\ ~waiting
    /\ pc <= Len(Program)
    /\ LET call == Program[pc] IN
          /\ child = "clean" => call[2] \in attempted
          /\ call[1] = "disarm" => call[2] \in ok
          /\ attempted' = attempted \cup {call[2]}
          /\ orders' = orders \cup {call}
    /\ waiting' = TRUE
    /\ UNCHANGED <<policy, judging, clock, channel, replication, child, pc,
                   closing, nodes>>

(* What was never attempted, or not stopped, counts as a failed cleanup.    *)
Skip ==
    /\ child = "clean" /\ ~waiting /\ pc <= Len(Closing)
    /\ LET call == Closing[pc] IN
          call[2] \notin attempted \/ (call[1] = "disarm" /\ call[2] \notin ok)
    /\ failed' = TRUE
    /\ pc' = pc + 1
    /\ UNCHANGED <<policy, judging, clock, channel, replication, child,
                   waiting, attempted, ok, aggregate, orders, nodes>>

(* The engine serves or is tested until the child ends it.                  *)
Serving == /\ child = "launch" /\ pc > Len(Launch)
           /\ Turn("serve")
           /\ UNCHANGED <<policy, judging, clock, channel, replication,
                          attempted, closing, orders, nodes>>

(* The trap: the end of the run, a call that failed, a signal.              *)
Trap ==
    /\ child \in {"declare", "waiting", "launch", "serve"}
    /\ Turn("clean")
    /\ UNCHANGED <<policy, judging, clock, channel, replication, attempted,
                   closing, orders, nodes>>

(* A call of the cleanup fails, or runs into its limit and may go on.       *)
GiveUp ==
    /\ child = "clean" /\ waiting
    /\ failed' = TRUE
    /\ pc' = pc + 1 /\ waiting' = FALSE
    /\ orders' \in {orders, orders \ {Closing[pc]}}
    /\ UNCHANGED <<policy, judging, clock, channel, replication, child,
                   attempted, ok, aggregate, nodes>>

Aggregate ==
    /\ child = "clean" /\ pc > Len(Closing)
    /\ aggregate' = ~failed
    /\ child' = "ended"
    /\ UNCHANGED <<policy, judging, clock, channel, replication, pc, waiting,
                   attempted, ok, failed, orders, nodes>>

ChildDies ==
    /\ child # "ended"
    /\ child' = "ended" /\ waiting' = FALSE
    /\ UNCHANGED <<policy, judging, clock, channel, replication, pc, attempted,
                   closing, orders, nodes>>

-----------------------------------------------------------------------------
(* The nodes: the slots under their helpers, their guards, the engine.      *)

Effect(action, s) ==
    \/ action = "prepare" /\ phase[s] = "none"
    \/ action = "arm" /\ phase[s] = "prepared" /\ s \notin canceled
    \/ action = "create" /\ phase[s] = "armed" /\ s \notin canceled
    \/ /\ action = "start" /\ s \notin canceled
       /\ phase[s] = IF s \in Boxes THEN "created" ELSE "prepared"
    \/ action = "await" /\ s \in proof
    \/ action = "stop" /\ phase[s] # "none"
    \/ action = "disarm" /\ s \in canceled /\ phase[s] \in {"armed", "over"}

Reaches == [prepare |-> "prepared", arm |-> "armed", create |-> "created",
            start |-> "running"]

After(action, s) ==
    IF action \in {"prepare", "arm", "create", "start"} THEN Reaches[action]
    ELSE IF action = "stop" /\ phase[s] \in {"created", "running"} THEN "over"
    ELSE phase[s]

(* The call has its effect, and its caller, if it is still there, goes on.  *)
Serve(call) ==
    LET action == call[1]
        s == call[2]
        heard == waiting /\ Program[pc] = call
    IN /\ call \in orders
       /\ orders' = orders \ {call}
       /\ Effect(action, s)
       /\ phase' = [phase EXCEPT ![s] = After(action, s)]
       /\ canceled' = IF action = "stop" THEN canceled \cup {s} ELSE canceled
       /\ proof' = IF action = "disarm" \/ (action = "stop" /\ s \in Hashes)
                   THEN proof \cup {s} ELSE proof
       /\ ok' = IF heard /\ action = "stop" THEN ok \cup {s} ELSE ok
       /\ pc' = IF heard THEN pc + 1 ELSE pc
       /\ waiting' = (waiting /\ ~heard)
       /\ UNCHANGED <<policy, judging, clock, channel, replication, child,
                      attempted, failed, aggregate>>

(* A guard that ends the container at its deadline cancels the slot.        *)
GuardFires(s) ==
    /\ s \in Boxes /\ s \notin proof
    /\ phase[s] \in {"armed", "created", "running", "over"}
    /\ phase' = [phase EXCEPT ![s] = IF @ = "armed" THEN @ ELSE "over"]
    /\ canceled' = canceled \cup {s}
    /\ UNCHANGED <<policy, judging, clock, channel, replication, child, pc,
                   waiting, attempted, closing, orders, proof>>

Ends(s) ==
    /\ phase[s] = "running"
    /\ phase' = [phase EXCEPT ![s] = "over"]
    /\ UNCHANGED <<policy, judging, clock, channel, replication, child, pc,
                   waiting, attempted, closing, orders, canceled, proof>>

(* A hash that was started stops itself with proof when it is through.      *)
Settles(s) ==
    /\ s \in Hashes /\ phase[s] = "over" /\ s \notin proof
    /\ canceled' = canceled \cup {s} /\ proof' = proof \cup {s}
    /\ UNCHANGED <<policy, judging, clock, channel, replication, child, pc,
                   waiting, attempted, closing, orders, phase>>

-----------------------------------------------------------------------------
(* The callback and the guards' acceptance of the inventory.                *)

Asks(r) == callback = IF r = 0 THEN "first" ELSE "second"

CallGuard(r) ==
    /\ Asks(r)
    /\ relay' = relay \cup {r}
    /\ UNCHANGED <<policy, judging, clock, channel, callback, inventory, child,
                   pc, waiting, attempted, closing, orders, nodes>>

AcceptInventory(r) ==
    /\ r \in relay
    /\ relay' = relay \ {r}
    /\ inventory' = inventory \cup {r}
    /\ callback' = IF ~Asks(r) THEN callback
                   ELSE IF r = 0 THEN "second" ELSE "passed"
    /\ UNCHANGED <<policy, judging, clock, channel, child, pc, waiting,
                   attempted, closing, orders, nodes>>

(* A refusal, or the time limit; what is under way may still be accepted.   *)
CallbackFails ==
    /\ callback \in {"first", "second"}
    /\ callback' = "failed"
    /\ UNCHANGED <<policy, judging, clock, channel, relay, inventory, child,
                   pc, waiting, attempted, closing, orders, nodes>>

-----------------------------------------------------------------------------
(* The parent.                                                              *)

household == <<policy, child, pc, waiting, attempted, closing, orders, nodes>>

(* Both are looked at between two polls of the child only.                  *)
Looks == parent = "watching" /\ ~stopping /\ child # "ended"

Signal == /\ Looks /\ ~received /\ received' = TRUE
          /\ UNCHANGED <<household, judging, overdue, channel, replication>>

RuntimeOver == /\ Looks /\ ~overdue /\ overdue' = TRUE
               /\ UNCHANGED <<household, judging, received, channel,
                              replication>>

(* Mutant: only a signal makes the parent stop its child.                   *)
Interrupted == received

MustStop == received \/ overdue

Terminate ==
    /\ Looks /\ MustStop
    /\ stopping' = TRUE
    /\ UNCHANGED <<household, clock, channel, replication, parent, errors,
                   result>>

(* The grace is over: SIGKILL, and an error.                                *)
Kill ==
    /\ parent = "watching" /\ child # "ended"
    /\ stopping
    /\ child' = "ended" /\ waiting' = FALSE
    /\ errors' = TRUE
    /\ parent' = "reaping"
    /\ UNCHANGED <<policy, clock, channel, replication, pc, attempted, closing,
                   orders, nodes, stopping, result>>

(* A signal may arrive behind the look at it: it is not looked at here.     *)
SeeOffer ==
    /\ parent = "watching" /\ ~stopping
    /\ "offered" \in channel /\ "ack" \notin channel
    /\ parent' = "offered"
    /\ callback' = IF replicates THEN "first" ELSE callback
    /\ UNCHANGED <<household, clock, channel, relay, inventory, stopping,
                   errors, result>>

(* Mutant: the callback has answered.                                       *)
Answered == replicates => callback \in {"passed", "failed"}

Replicated == replicates => callback = "passed"

Anchor ==
    /\ parent = "offered" /\ Replicated
    /\ channel' = channel \cup {"anchor"}
    /\ parent' = "anchored"
    /\ UNCHANGED <<household, clock, replication, stopping, errors, result>>

Acknowledge ==
    /\ parent = "anchored"
    /\ channel' = channel \cup {"ack"}
    /\ parent' = "watching"
    /\ UNCHANGED <<household, clock, replication, stopping, errors, result>>

(* A failed callback, a source that changed, a write that fails: SIGTERM.    *)
(* The last write may fail behind the link that publishes the file.         *)
Refuse ==
    /\ \/ /\ parent = "offered" /\ callback \notin {"first", "second"}
          /\ channel' = channel
       \/ /\ parent = "anchored"
          /\ channel' \in {channel, channel \cup {"ack"}}
    /\ errors' = TRUE
    /\ stopping' = TRUE
    /\ parent' = "watching"
    /\ UNCHANGED <<household, clock, replication, result>>

Reap ==
    /\ parent = "watching" /\ child = "ended"
    /\ parent' = "reaping"
    /\ UNCHANGED <<household, clock, channel, replication, stopping, errors,
                   result>>

(* Mutant: the end of the child is taken for its cleanup.                   *)
Exited == child = "ended"

(* Every declared slot, with a CID for each container.                      *)
Validated == /\ aggregate
             /\ \A s \in Boxes : phase[s] = "over"
             /\ Slots \subseteq proof

Conclude ==
    /\ parent = "reaping"
    /\ \/ /\ "ack" \in channel /\ Validated /\ ~errors
          /\ result' = "pass"
       \/ result' = "failed"
    /\ parent' = "done"
    /\ UNCHANGED <<household, clock, channel, replication, stopping, errors>>

ParentDies ==
    /\ parent # "done" /\ parent # "dead"
    /\ parent' = "dead"
    /\ UNCHANGED <<household, clock, channel, replication, stopping, errors,
                   result>>

ParentStep == Terminate \/ Kill \/ SeeOffer \/ Anchor \/ Acknowledge \/ Refuse
              \/ Reap \/ Conclude

ChildStep == Offer \/ WaitAck \/ Ask \/ Skip \/ Serving \/ Trap \/ GiveUp
             \/ Aggregate \/ ChildDies

NodeStep == \/ \E call \in orders : Serve(call)
            \/ \E s \in Slots : GuardFires(s) \/ Ends(s) \/ Settles(s)
            \/ \E r \in Rank : CallGuard(r) \/ AcceptInventory(r)

Next == ParentStep \/ ChildStep \/ NodeStep \/ CallbackFails \/ Signal
        \/ RuntimeOver \/ ParentDies

(* The parent runs while it lives, its clock and its time limits with it;   *)
(* the child and the nodes need not do anything.                            *)
Fairness ==
    WF_vars(ParentStep) /\ WF_vars(CallbackFails) /\ WF_vars(RuntimeOver)

Spec == Init /\ [][Next]_vars /\ Fairness

-----------------------------------------------------------------------------
(* Properties.                                                              *)

Phases == {"none", "prepared", "armed", "created", "running", "over"}

Flags ==
    /\ replicates \in BOOLEAN
    /\ received \in BOOLEAN /\ overdue \in BOOLEAN
    /\ stopping \in BOOLEAN /\ errors \in BOOLEAN
    /\ waiting \in BOOLEAN /\ failed \in BOOLEAN /\ aggregate \in BOOLEAN

ParentSide ==
    /\ parent \in {"watching", "offered", "anchored", "reaping", "done",
                    "dead"}
    /\ channel \subseteq {"offered", "anchor", "ack"}
    /\ callback \in {"none", "first", "second", "passed", "failed"}
    /\ relay \subseteq Rank /\ inventory \subseteq Rank
    /\ result \in {"none", "pass", "failed"}

ChildSide ==
    /\ child \in {"declare", "waiting", "launch", "serve", "clean", "ended"}
    /\ pc \in 1..15
    /\ attempted \subseteq Slots
    /\ \A call \in orders : call[2] \in attempted

NodeSide ==
    /\ phase \in [Slots -> Phases]
    /\ ok \subseteq canceled
    /\ proof \subseteq canceled
    /\ canceled \subseteq attempted

(* The values the run can take; only what was attempted was ever asked for, *)
(* and a positive receipt stands behind a tombstone.                        *)
TypeOK == Flags /\ ParentSide /\ ChildSide /\ NodeSide

(* replicate_before_ack, "no model staging authorised": nothing is tried on *)
(* a node before both guards hold the declaration they would recover from,  *)
(* whatever of the callback, the parent and the child died on the way, and  *)
(* however late an acceptance comes.                                        *)
StagedMeansReplicated ==
    replicates /\ attempted # {} => inventory = Rank /\ "anchor" \in channel

Ready == /\ \A b \in Boxes : phase[b] \notin {"none", "prepared"}
         /\ Hashes \subseteq proof

(* owned_slots_launch, "All prerequisites for both ranks before the first   *)
(* model can be created": a container exists on a node only behind the      *)
(* armed guards and the settled hashes of both nodes.                       *)
NoModelBeforeAllReady ==
    (\E b \in Boxes : phase[b] \in {"created", "running"}) => Ready

(* parent-result.json with a pass settles the run for good: every declared  *)
(* slot has ended and is held by a tombstone and a receipt, whatever calls  *)
(* of the child are still on their way.                                     *)
PositiveMeansSettled ==
    result = "pass" =>
        /\ \A s \in Slots : phase[s] \notin {"created", "running"}
        /\ Slots \subseteq proof \cap canceled

(* Whatever child, callback and nodes do or leave undone, the parent comes  *)
(* to an end and to a result, unless it is killed.                          *)
ParentEnds == <>(parent = "dead" \/ (parent = "done" /\ result # "none"))
=============================================================================
