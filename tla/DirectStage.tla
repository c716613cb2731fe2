----------------------------- MODULE DirectStage -----------------------------
(***************************************************************************)
(* What precedes DirectPair: the frontend stages both guards, arms both    *)
(* rollback leases, shows each node the other's lease and starts the       *)
(* controller, and the controller asks for the first change of a network   *)
(* (stage, launch and controller of deuces-direct-frontend.py).            *)
(*                                                                         *)
(* Frontend and controller are programs of calls.  A call has a timeout;   *)
(* who meets it ends, and what was asked of the worker over ssh, or of     *)
(* systemd, may still be done later.  Time is in units of 20 s, from the   *)
(* first lease on; the two nodes' clocks differ by a constant.             *)
(***************************************************************************)
EXTENDS Integers, Sequences

CONSTANTS
    Offset,        \* by rank, the node's monotonic clock at time 0
    Delay,         \* config rollbackDelaySeconds
    LaunchReserve, \* config launchReserveSeconds
    Allowance,     \* what a paired lease is discounted for the relay (120 s)
    DispatchReserve, \* what arm reserves for the dispatch of the timer (16 s)
    Pause,         \* bound: a program rests this long between two calls
    MaxTime        \* bound: the clock stops here

Rank == {0, 1}

ASSUME StageAssumption ==
    /\ Offset \in [Rank -> Nat]
    /\ {Delay, LaunchReserve, Allowance, DispatchReserve, Pause, MaxTime} \subseteq Nat

VARIABLES
    now,
    guards,  \* by rank: what is staged on the node and the receipts of its guard
    gate,    \* controller-replicated.json exists
    at,      \* by process: its position, or 0 when it does not run
    asked,   \* by process: the call it waits for has been sent
    since,   \* by process: when it began to wait or to rest
    seen,    \* by rank: the lease-status the frontend has got
    late     \* calls nobody waits for

stageVars == <<now, guards, gate, at, asked, since, seen, late>>

Unset == 0 - 1

Both(act) == <<[act |-> act, rank |-> 0], [act |-> act, rank |-> 1]>>
OnHead(act) == <<[act |-> act, rank |-> 0]>>

(* stage() and launch().  tools is the realization of the two benchmark     *)
(* packages and slots the staging of the link slots, both in LinkTransport. *)
Frontend == Both("probe") \o Both("guard") \o Both("preflight") \o Both("tools")
            \o Both("preflight") \o Both("slots") \o Both("prepare") \o Both("arm")
            \o Both("status") \o Both("accept") \o OnHead("start") \o Both("executing")
            \o OnHead("replicate")

Controller == OnHead("gate") \o Both("enter")

Program == [frontend |-> Frontend, controller |-> Controller]
Process == DOMAIN Program

Call(p) == Program[p][at[p]]
Runs(p) == at[p] \in DOMAIN Program[p]
AtCall(p, act) == Runs(p) /\ Call(p).act = act

Timeout(act) == IF act = "gate" THEN 6
                ELSE IF act = "enter" THEN 9
                ELSE IF act \in {"accept", "executing"} THEN 2 ELSE 1

(* The allowance covers the time between the first observation of a lease   *)
(* and the second, and the dispatch that makes a timer elapse early.        *)
ASSUME RelayAssumption ==
    /\ LaunchReserve > 0
    /\ 2 * Timeout("status") + Pause + DispatchReserve <= Allowance

Clock(r) == now + Offset[r]

-----------------------------------------------------------------------------
StageInit ==
    /\ now = 0
    /\ guards = [r \in Rank |-> [has |-> {}, deadline |-> Unset, elapse |-> Unset,
                                 fired |-> FALSE, packet |-> <<>>]]
    /\ gate = FALSE
    /\ at = [frontend |-> 1, controller |-> 0]
    /\ asked = [p \in Process |-> FALSE]
    /\ since = [p \in Process |-> 0]
    /\ seen = [r \in Rank |-> <<>>]
    /\ late = {}

Has(r, names) == names \subseteq guards[r].has
Without(r, names) == guards[r].has \cap names = {}
Receipt(r, name) == guards' = [guards EXCEPT ![r].has = @ \cup {name}]

(* Lease.check: armed, the timer still waits, and so much time is left.     *)
LeaseHolds(r, reserve) ==
    /\ Has(r, {"armed"}) /\ ~guards[r].fired
    /\ Clock(r) + reserve < guards[r].deadline

(* Mutant: the relay takes no time.                                         *)
PairedNow(r, packet) ==
    /\ packet # <<>>
    /\ LET elapsed == Clock(r) - packet[r].at IN
       \A p \in Rank : packet[p].remaining - elapsed >= LaunchReserve
    /\ LeaseHolds(r, LaunchReserve)
    /\ packet[r].deadline = guards[r].deadline

(* verify_armed_packet: only this node's own clock is read, and the peer's  *)
(* lease is discounted by what its observation may be older.                *)
Paired(r, packet) ==
    /\ packet # <<>>
    /\ LET elapsed == Clock(r) - packet[r].at IN
       \A p \in Rank : packet[p].remaining - elapsed - Allowance >= LaunchReserve
    /\ LeaseHolds(r, LaunchReserve)
    /\ packet[r].deadline = guards[r].deadline

-----------------------------------------------------------------------------
(* The handlers of a node, and what each needs and leaves.                  *)

(* STAGE and the batches of LinkTransport use new directories only; what an *)
(* interrupted attempt leaves is never used.                                *)
Place(r, name) ==
    /\ Without(r, {name})
    /\ Receipt(r, name) \/ UNCHANGED guards

PrepareLease(r) ==
    /\ Has(r, {"guard"}) /\ guards[r].deadline = Unset
    /\ guards' = [guards EXCEPT ![r].deadline = Clock(r) + Delay]

(* arm() writes its receipt only after it has read the timer back; a timer  *)
(* without the receipt fires, too.                                          *)
ArmLease(r) ==
    /\ guards[r].deadline # Unset /\ Without(r, {"arm-intent"})
    /\ guards[r].deadline - Clock(r) - DispatchReserve >= 6
    /\ \E names \in {{"arm-intent"}, {"arm-intent", "armed"}}, slow \in {0, 1} :
          guards' = [guards EXCEPT ![r].has = @ \cup names,
                                   ![r].elapse = guards[r].deadline - DispatchReserve + slow]

(* accept_pair_armed.                                                       *)
Accept(r, packet) ==
    /\ Without(r, {"executing", "entered"})
    /\ Paired(r, packet)
    /\ guards[r].packet \in {<<>>, packet}
    /\ guards' = [guards EXCEPT ![r].packet = packet]

(* accept_controller_start.                                                 *)
Executing(r) ==
    /\ Without(r, {"executing", "entered"})
    /\ LeaseHolds(r, LaunchReserve)
    /\ Receipt(r, "executing")

(* enter_idle: from here on the node's network is not the original one.     *)
Enter(r) ==
    /\ Without(r, {"entered"})
    /\ Paired(r, guards[r].packet)
    /\ LeaseHolds(r, LaunchReserve)
    /\ Receipt(r, "entered")

(* rpc: a guard that is not staged cannot answer.  probe and preflight only *)
(* look.                                                                    *)
Handler(call, packet) ==
    LET r == call.rank IN
    \/ call.act \in {"guard", "tools", "slots"} /\ Place(r, call.act)
    \/ call.act = "prepare" /\ PrepareLease(r)
    \/ call.act = "arm" /\ ArmLease(r)
    \/ call.act = "accept" /\ Accept(r, packet)
    \/ call.act = "executing" /\ Executing(r)
    \/ call.act = "enter" /\ Enter(r)
    \/ call.act = "probe" /\ UNCHANGED guards
    \/ call.act = "preflight" /\ Has(r, {"guard"}) /\ UNCHANGED guards

Served(call) ==
    LET leaves == guards'[call.rank].has IN
    /\ call.act \in {"guard", "tools", "slots"} => call.act \in leaves
    /\ call.act = "arm" => "armed" \in leaves

Packet == IF \E r \in Rank : seen[r] = <<>> THEN <<>> ELSE seen

-----------------------------------------------------------------------------
(* The two programs.                                                        *)

Moves(p, position) ==
    /\ at' = [at EXCEPT ![p] = position]
    /\ asked' = [asked EXCEPT ![p] = FALSE]
    /\ since' = [since EXCEPT ![p] = now]

Ask(p) ==
    /\ Runs(p) /\ ~asked[p]
    /\ asked' = [asked EXCEPT ![p] = TRUE]
    /\ since' = [since EXCEPT ![p] = now]
    /\ UNCHANGED <<now, guards, gate, at, seen, late>>

Fail(p) ==
    /\ Runs(p)
    /\ Moves(p, 0)
    /\ UNCHANGED <<now, guards, gate, seen, late>>

(* The caller ends, but the worker or systemd may still act.                *)
Abandon(p) ==
    /\ Runs(p) /\ asked[p] /\ late = {}
    /\ Call(p).rank = 1 \/ Call(p).act = "start"
    /\ late' = {[call |-> Call(p), packet |-> Packet]}
    /\ Moves(p, 0)
    /\ UNCHANGED <<now, guards, gate, seen>>

Reply(p) ==
    /\ Runs(p) /\ asked[p]
    /\ Handler(Call(p), Packet)
    /\ Moves(p, IF Served(Call(p)) THEN at[p] + 1 ELSE 0)
    /\ UNCHANGED <<now, gate, seen, late>>

Late ==
    \E l \in late :
        /\ late' = {}
        /\ \/ /\ l.call.act # "start"
              /\ Handler(l.call, l.packet)
              /\ UNCHANGED <<at, asked, since>>
           \/ /\ l.call.act = "start" /\ at["controller"] = 0
              /\ Moves("controller", 1) /\ UNCHANGED guards
        /\ UNCHANGED <<now, gate, seen>>

(* lease-status: what comes back was observed some time since it was asked. *)
Status ==
    /\ AtCall("frontend", "status") /\ asked["frontend"]
    /\ \E back \in 0..(now - since["frontend"]) :
          LET r == Call("frontend").rank
              observed == Clock(r) - back
          IN
          /\ LeaseHolds(r, 0)
          /\ seen' = [seen EXCEPT ![r] = [deadline |-> guards[r].deadline, at |-> observed,
                                          remaining |-> guards[r].deadline - observed]]
    /\ Moves("frontend", at["frontend"] + 1)
    /\ UNCHANGED <<now, guards, gate, late>>

Start ==
    /\ AtCall("frontend", "start") /\ asked["frontend"]
    /\ at' = [frontend |-> at["frontend"] + 1, controller |-> 1]
    /\ asked' = [p \in Process |-> FALSE]
    /\ since' = [p \in Process |-> now]
    /\ UNCHANGED <<now, guards, gate, seen, late>>

Replicate ==
    /\ AtCall("frontend", "replicate") /\ asked["frontend"]
    /\ gate' = TRUE
    /\ Moves("frontend", at["frontend"] + 1)
    /\ UNCHANGED <<now, guards, seen, late>>

GateOpen == gate /\ Has(0, {"executing"})

Gate ==
    /\ AtCall("controller", "gate") /\ asked["controller"]
    /\ GateOpen
    /\ Moves("controller", at["controller"] + 1)
    /\ UNCHANGED <<now, guards, gate, seen, late>>

(* The rollback timer of a node; what it starts is DirectPair.              *)
Fire(r) ==
    /\ guards[r].elapse # Unset /\ ~guards[r].fired
    /\ Clock(r) >= guards[r].elapse
    /\ guards' = [guards EXCEPT ![r].fired = TRUE]
    /\ UNCHANGED <<now, gate, at, asked, since, seen, late>>

Patience(p) == IF asked[p] THEN Timeout(Call(p).act) ELSE Pause

(* Time is only counted while anybody still acts.                           *)
Tick ==
    /\ now < MaxTime
    /\ late # {} \/ \E p \in Process : Runs(p)
    /\ \E r \in Rank : guards[r].deadline # Unset
    /\ \A p \in Process : Runs(p) => now < since[p] + Patience(p)
    /\ now' = now + 1
    /\ UNCHANGED <<guards, gate, at, asked, since, seen, late>>

StageNext ==
    \/ \E p \in Process : Ask(p) \/ Fail(p) \/ Abandon(p) \/ Reply(p)
    \/ Status \/ Start \/ Replicate \/ Gate \/ Late \/ Tick
    \/ \E r \in Rank : Fire(r)

StageSpec == StageInit /\ [][StageNext]_stageVars

-----------------------------------------------------------------------------
(* The first change of either network is made when everything that has to   *)
(* undo it stands on both nodes: guard, tools and slots staged, the lease   *)
(* armed and not fired, the controller's identity known; and when both      *)
(* timers, also the one it cannot ask, still leave the whole launch reserve.*)
EntersProtected ==
    [][\A r \in Rank : "entered" \in guards'[r].has /\ ~Has(r, {"entered"}) =>
          \A p \in Rank : /\ Has(p, {"guard", "tools", "slots", "armed", "executing"})
                          /\ ~guards[p].fired
                          /\ guards[p].elapse - Clock(p) >= LaunchReserve]_stageVars
=============================================================================
