-------------------------- MODULE DirectPairProofs --------------------------
(***************************************************************************)
(* What holds of every direct run, whoever dies, however many handlers and *)
(* plain commands are served late and however early the timers fire.       *)
(*                                                                         *)
(* PairInv, inductive on its own, follows the evidence: where the relays   *)
(* and the controller are in their programs and what the late calls carry  *)
(* (Relaying, Stepwise, Queued), what acknowledgement and tombstone say of *)
(* the slots (Acknowledged), that a cleanup record stays true but for a    *)
(* late mkdir (Evident), and that both records stand behind a pair closure *)
(* and a restore (Closed).  On top of it stand NetInv, what the receipts   *)
(* say of the network, and ServingInv, that the controller's program holds *)
(* what it has taken and that whatever runs, or may yet be started by a    *)
(* late call, has its network.  From the three together follows that the   *)
(* run implements BorrowedPair.                                            *)
(*                                                                         *)
(* Liveness and the refuted NoRuleResidue are left to the runs.            *)
(***************************************************************************)
EXTENDS DirectPair, TLAPS

(* The controller has ended, for good.                                      *)
Over == status["controller"] = "over"

(* What is recorded of r is true, or was until a mkdir came too late.       *)
Accounted(r) == CleanupVerified(r) \/ MkdirTooLate(r)

(* A closed node: its controller is proved over, its resources accounted.   *)
Settled(r) == Has(r, "closure") /\ clean[r] # "none" /\ Accounted(r)

AllSettled == \A r \in Ranks : Settled(r)

(* Who does not run is at the start of its program; the controller is       *)
(* submitted once.                                                          *)
Resting ==
    /\ \A p \in Procs : status[p] # "on" => at[p] = 1
    /\ status["launcher"] # "off"
    /\ status["launcher"] = "on" /\ at["launcher"] = 1 => status["controller"] = "off"

(* A long handler holds the lock for the call its caller waits in.          *)
Holding ==
    \A r \in Ranks :
        /\ holder[r].act \in {"none", "enter", "firewall", "cleanup", "restore"}
        /\ holder[r].act = "none" => holder[r] = Free
        /\ holder[r].by \in Procs => OnCall(holder[r].by) = <<holder[r].act, r>>

(* A relay is past the proof that the controller has ended, and from the    *)
(* pair closure on past both nodes' proofs.                                 *)
Relaying ==
    \A p \in Relays : /\ at[p] >= 2 => Over
                      /\ at[p] >= 7 => Settled(HeadNode)
                      /\ at[p] >= 8 => Settled(WorkerNode)

(* A late closure or pair closure carries what has been proved, and a late  *)
(* command comes behind those before it, which were answered.               *)
Carries(c) ==
    /\ c.call[1] = "closure" => Over
    /\ c.call[1] = "pair" => AllSettled
    /\ c.call[1] \in RawActs => c.call[2] = WorkerNode
    /\ c.call[1] = "link" => link[HeadNode] # "staged"
    /\ c.call[1] = "stage" => "ack" \in shared
    /\ c.call[1] \in {"arm", "run"} => slot[WorkerNode] # "absent" /\ clean[WorkerNode] # "absent"
    /\ c.call[1] = "run" => slot[WorkerNode] # "partial"

Queued == \A c \in late : Carries(c)

(* The controller's slot calls of the worker follow one another.            *)
Stepwise ==
    /\ at["controller"] = 11 => link[HeadNode] # "staged"
    /\ at["controller"] \in 20..23 => slot[WorkerNode] # "absent"
    /\ at["controller"] \in 22..23 => slot[WorkerNode] # "partial"

(* The acknowledgement precedes every slot, a tombstone excludes it.        *)
Acknowledged ==
    /\ at["controller"] \in 18..25 => "ack" \in shared
    /\ \A r \in Ranks : slot[r] # "absent" => "ack" \in shared
    /\ \A p \in Relays : absent[p] => "ack" \notin shared /\ Over
    /\ \A r \in Ranks : Has(r, "never-started") => "ack" \notin shared /\ Over

(* A cleanup record is true, and no declaration comes behind it.            *)
Evident ==
    \A r \in Ranks :
        /\ clean[r] # "none" => Accounted(r)
        /\ (clean[r] # "none" \/ holder[r].act = "cleanup") => Has(r, "recovery-started")

(* A restore of r runs, or has written.                                     *)
Restores(r) == \/ holder[r].act = "restore"
               \/ ~Without(r, {"restore-started", "restored", "unchanged"})

(* A closure means the controller is over, a pair closure that both nodes   *)
(* are settled, and a restore that there is a pair closure.                 *)
Closed ==
    \A r \in Ranks :
                    /\ Has(r, "closure") => Over
                    /\ Has(r, "pair-closure") => AllSettled
                    /\ Restores(r) => Has(r, "pair-closure")

(* The inductive invariant of the evidence.                                 *)
PairInv == /\ TypeOK /\ Resting /\ Holding /\ Relaying /\ Queued
           /\ Stepwise /\ Acknowledged /\ Evident /\ Closed

(* A rule insertion never outlives its caller in a predeclared lifecycle:   *)
(* there it leaves rules behind (NoRuleResidue).                            *)
RulesNeverLate ==
    \A l \in Lifecycles : l = "predeclared-direct" => "firewall" \notin DelayedActs[l]

(* The network of r is as it was borrowed.                                  *)
Returned(r) == net[r] = Baseline /\ ~fw[r]

(* What the receipts of r say of its network.                               *)
Borrowing(r) ==
    /\ Predeclared => net[r] = "direct"
    /\ holder[r].act = "firewall" \/ fw[r] => Has(r, "idle")
    /\ ~Predeclared /\ (Has(r, "idle") \/ holder[r].act = "enter" \/ net[r] # "switched")
          => Has(r, "transition-started")
    /\ ~Predeclared /\ holder[r].act = "enter"
          => ~Has(r, "idle") /\ ~Has(r, "restore-started")
    /\ ~Predeclared /\ Has(r, "restore-started") => Has(r, "transition-started")

(* What is restored is returned, and no lease is disarmed before.           *)
Returning(r) ==
    /\ Has(r, "restored") => Has(r, "restore-started") /\ Returned(r)
    /\ Has(r, "disarmed") =>
          /\ lease[r] = "off" /\ holder[r].act \notin {"enter", "firewall"}
          /\ Has(r, "restored") \/ Without(r, {"transition-started", "idle"})

(* The controller enters one node after the other, and asks for rules only  *)
(* behind both.                                                             *)
Entering ==
    /\ at["controller"] >= 3 => Has(HeadNode, "idle")
    /\ at["controller"] >= 4 => Has(WorkerNode, "idle")
    /\ \A c \in late : c.call[1] = "firewall" => Has(c.call[2], "idle") /\ ~Predeclared

(* The inductive invariant of the network, given PairInv.                   *)
NetInv == Entering /\ \A r \in Ranks : Borrowing(r) /\ Returning(r)

(* A late start of r can still be carried out.                              *)
Awaits(act, r) == \E c \in late : c.call = <<act, r>>

MayServe(r) == \/ slot[r] = "up"
               \/ slot[r] = "staged" /\ Awaits("run", r)

MayRun(r) == \/ MayServe(r) \/ link[r] = "up"
             \/ link[r] = "staged" /\ Awaits("link", r)

(* An entry that is not, or no longer, the waiting controller's, or a late  *)
(* removal of a profile.                                                    *)
Stray == \/ \E r \in Ranks : holder[r].act = "enter" /\ holder[r].by # "controller"
         \/ \E c \in late : c.call[1] \in {"enter", "unprofile"}

(* Such a call finds a dead run.                                            *)
Strays == Stray => Over /\ \A q \in Ranks : ~MayRun(q)

(* Along the controller's program the network is taken, the rules are       *)
(* inserted, the payload runs, and all is given back in that order.         *)
Serving ==
    /\ at["controller"] \in 5..25 => net[HeadNode] = "direct"
    /\ at["controller"] \in 6..25 => net[WorkerNode] = "direct"
    /\ at["controller"] \in 9..25 => fw[HeadNode]
    /\ at["controller"] \in 10..25 => fw[WorkerNode]
    /\ \A r \in Ranks : holder[r].act = "firewall" => fw[r]
    /\ at["controller"] <= 9 => Over \/ \A r \in Ranks : ~MayRun(r)
    /\ at["controller"] >= 27 => \A r \in Ranks : ~MayRun(r)
    /\ at["controller"] \in 15..25 => "child" \in shared
    /\ "ack" \in shared => "child" \in shared

(* What runs, or is about to, has its network.                              *)
Provided ==
    \A r, q \in Ranks : MayRun(r) => net[q] = "direct" /\ fw[q]

(* The inductive invariant of the payload, given PairInv.                   *)
ServingInv == Strays /\ Serving /\ Provided

-----------------------------------------------------------------------------
(* The programs and the types.                                              *)

(* The processes by name.                                                   *)
LEMMA Processes == Procs = {"launcher", "controller", "finalizer", "head", "worker"}
  BY SMT DEF Procs, Program

(* The launcher's calls.                                                    *)
LEMMA LaunchCalls ==
    /\ Len(Launch) = 5
    /\ Launch[1] = <<"submit", 0>>
    /\ Launch[2] = <<"executing", 0>>
    /\ Launch[3] = <<"executing", 1>>
    /\ Launch[4] = <<"replicate", 0>>
    /\ Launch[5] = <<"await", 0>>
  BY SMT DEF Launch, Both, HeadNode, WorkerNode

(* The calls that the finalizer and the head's recovery share.              *)
LEMMA FinalizeCalls ==
    /\ Len(Finalize) = 11
    /\ Finalize[1] = <<"terminal", 0>>
    /\ \A r \in 0..1 : /\ Finalize[2 + r] = <<"closure", r>>
                        /\ Finalize[4 + r] = <<"cleanup", r>>
                        /\ Finalize[6 + r] = <<"status", r>>
                        /\ Finalize[8 + r] = <<"pair", r>>
                        /\ Finalize[10 + r] = <<"restore", r>>
  BY SMT DEF Finalize, Both, HeadNode, WorkerNode

(* The controller's calls.                                                  *)
LEMMA ControlCalls ==
    /\ Len(Control) = 28
    /\ Control[1] = <<"gate", 0>>
    /\ Control[14] = <<"child", 0>>
    /\ Control[17] = <<"ack", 0>>
    /\ Control[26] = <<"trap", 0>>
    /\ Control[27] = <<"unprofile", 1>>
    /\ Control[28] = <<"unprofile", 0>>
    /\ \A r \in 0..1 : /\ Control[2 + r] = <<"enter", r>>
                        /\ Control[4 + r] = <<"profile", r>>
                        /\ Control[6 + r] = <<"direct", r>>
                        /\ Control[8 + r] = <<"firewall", r>>
                        /\ Control[10 + r] = <<"link", r>>
                        /\ Control[12 + r] = <<"unlink", r>>
                        /\ Control[15 + r] = <<"inventory", r>>
                        /\ Control[18 + r] = <<"stage", r>>
                        /\ Control[20 + r] = <<"arm", r>>
                        /\ Control[22 + r] = <<"run", r>>
                        /\ Control[24 + r] = <<"halt", r>>
  BY SMTT(60) DEF Control, Both, HeadNode, WorkerNode

(* The programs, by position.                                               *)
LEMMA Programs ==
    /\ Len(Program["launcher"]) = 5 /\ Len(Program["controller"]) = 28
    /\ Len(Program["finalizer"]) = 13 /\ Len(Program["head"]) = 11
    /\ Len(Program["worker"]) = 2
    /\ \A i \in 1..5 : Program["launcher"][i] = Launch[i]
    /\ \A i \in 1..28 : Program["controller"][i] = Control[i]
    /\ \A p \in Relays : \A i \in 1..11 : Program[p][i] = Finalize[i]
    /\ \A r \in 0..1 : Program["finalizer"][12 + r] = <<"disarm", r>>
    /\ Program["worker"][1] = <<"cleanup", 1>>
    /\ Program["worker"][2] = <<"restore", 1>>
<1>1. /\ Program["launcher"] = Launch /\ Program["controller"] = Control
      /\ Program["head"] = Finalize
      /\ Program["worker"] = <<<<"cleanup", 1>>, <<"restore", 1>>>>
  BY SMT DEF Program, Both, HeadNode, WorkerNode
<1>2. /\ Len(Program["finalizer"]) = 13
      /\ \A i \in 1..11 : Program["finalizer"][i] = Finalize[i]
      /\ \A r \in 0..1 : Program["finalizer"][12 + r] = <<"disarm", r>>
  BY SMTT(60) DEF Program, Finalize, Both, HeadNode, WorkerNode
<1> QED
  BY <1>1, <1>2, LaunchCalls, ControlCalls, FinalizeCalls, SMTT(60) DEF Relays

(* No program is longer than the controller's.                              *)
LEMMA Lengths ==
    \A p \in Procs : /\ Len(Program[p]) \in Nat
                     /\ Len(Program[p]) >= 1 /\ Len(Program[p]) < 29
<1> SUFFICES ASSUME NEW p \in Procs
             PROVE  Len(Program[p]) \in Nat /\ Len(Program[p]) >= 1 /\ Len(Program[p]) < 29
  OBVIOUS
<1>1. CASE p = "launcher"
  BY <1>1, Programs
<1>2. CASE p = "controller"
  BY <1>2, Programs
<1>3. CASE p = "finalizer"
  BY <1>3, Programs
<1>4. CASE p = "head"
  BY <1>4, Programs
<1>5. CASE p = "worker"
  BY <1>5, Programs
<1> QED
  BY <1>1, <1>2, <1>3, <1>4, <1>5, Processes

(* Every entry of a program is a call of a node.                            *)
IsCall(c) == c = <<c[1], c[2]>> /\ c[1] # "none" /\ c[2] \in Ranks

(* Every entry of the controller's program is a call.                       *)
LEMMA ControlEntries == \A i \in 1..28 : IsCall(Control[i])
<1> SUFFICES ASSUME NEW i \in 1..28 PROVE IsCall(Control[i])
  OBVIOUS
<1>1. CASE i \in {1, 14, 17, 26, 27, 28}
  BY <1>1, ControlCalls DEF IsCall, Ranks, HeadNode, WorkerNode
<1>2. CASE \E r \in 0..1 : i \in {2 + r, 4 + r, 6 + r, 8 + r, 10 + r, 12 + r}
  BY <1>2, ControlCalls, SMT DEF IsCall, Ranks, HeadNode, WorkerNode
<1>3. CASE \E r \in 0..1 : i \in {15 + r, 18 + r, 20 + r, 22 + r, 24 + r}
  BY <1>3, ControlCalls, SMT DEF IsCall, Ranks, HeadNode, WorkerNode
<1>4. \/ i \in {1, 14, 17, 26, 27, 28} 
      \/ \E r \in 0..1 : i \in {2 + r, 4 + r, 6 + r, 8 + r, 10 + r, 12 + r}
      \/ \E r \in 0..1 : i \in {15 + r, 18 + r, 20 + r, 22 + r, 24 + r}
  OBVIOUS
<1> QED
  BY <1>1, <1>2, <1>3, <1>4

(* Where the controller's errors lead.                                      *)
LEMMA JumpsTo == /\ ChildStart = 4 /\ StageStart = 18 /\ HaltStart = 24 /\ TrapStart = 26
<1>1. FirstOf("controller", "profile") = 4
  BY Programs, ControlCalls, SMTT(60) DEF FirstOf
<1>2. FirstOf("controller", "stage") = 18
  BY Programs, ControlCalls, SMTT(60) DEF FirstOf
<1>3. FirstOf("controller", "halt") = 24
  BY Programs, ControlCalls, SMTT(60) DEF FirstOf
<1>4. FirstOf("controller", "trap") = 26
  BY Programs, ControlCalls, SMTT(60) DEF FirstOf
<1> QED
  BY <1>1, <1>2, <1>3, <1>4 DEF ChildStart, StageStart, HaltStart, TrapStart

(* A call says who makes it and where in its program.                       *)
LEMMA Positions ==
    ASSUME TypeOK, NEW p \in Procs, NEW r \in Ranks, NEW act, OnCall(p) = <<act, r>>, act # "none"
    PROVE  /\ status[p] = "on" /\ act = Program[p][at[p]][1] /\ r = Program[p][at[p]][2]
           /\ act = "submit" => p = "launcher" /\ at[p] = 1
           /\ act = "executing" => p = "launcher" /\ at[p] = 2 + r
           /\ act = "replicate" => p = "launcher" /\ at[p] = 4
           /\ act = "await" => p = "launcher" /\ at[p] = 5
           /\ act = "gate" => p = "controller" /\ at[p] = 1
           /\ act = "enter" => p = "controller" /\ at[p] = 2 + r
           /\ act = "profile" => p = "controller" /\ at[p] = 4 + r
           /\ act = "direct" => p = "controller" /\ at[p] = 6 + r
           /\ act = "firewall" => p = "controller" /\ at[p] = 8 + r
           /\ act = "link" => p = "controller" /\ at[p] = 10 + r
           /\ act = "unlink" => p = "controller" /\ at[p] = 12 + r
           /\ act = "child" => p = "controller" /\ at[p] = 14
           /\ act = "inventory" => p = "controller" /\ at[p] = 15 + r
           /\ act = "ack" => p = "controller" /\ at[p] = 17
           /\ act = "stage" => p = "controller" /\ at[p] = 18 + r
           /\ act = "arm" => p = "controller" /\ at[p] = 20 + r
           /\ act = "run" => p = "controller" /\ at[p] = 22 + r
           /\ act = "halt" => p = "controller" /\ at[p] = 24 + r
           /\ act = "trap" => p = "controller" /\ at[p] = 26
           /\ act = "unprofile" => p = "controller" /\ at[p] = 28 - r
           /\ act = "terminal" => p \in Relays /\ at[p] = 1
           /\ act = "closure" => p \in Relays /\ at[p] = 2 + r
           /\ act = "cleanup" => \/ p \in Relays /\ at[p] = 4 + r
                                 \/ p = "worker" /\ at[p] = 1 /\ r = 1
           /\ act = "status" => p \in Relays /\ at[p] = 6 + r
           /\ act = "pair" => p \in Relays /\ at[p] = 8 + r
           /\ act = "restore" => \/ p \in Relays /\ at[p] = 10 + r
                                 \/ p = "worker" /\ at[p] = 2 /\ r = 1
           /\ act = "disarm" => p = "finalizer" /\ at[p] = 12 + r
<1>1. status[p] = "on" /\ Program[p][at[p]] = <<act, r>>
  BY DEF OnCall, NoCall
<1>2. at[p] \in 1..Len(Program[p])
  BY DEF TypeOK
<1>3. r \in {0, 1}
  BY DEF Ranks, HeadNode, WorkerNode
<1>4. CASE p = "launcher"
  BY <1>1, <1>2, <1>3, <1>4, Programs, LaunchCalls, SMTT(60) DEF Relays
<1>5. CASE p = "controller"
  BY <1>1, <1>2, <1>3, <1>5, Programs, ControlCalls, SMTT(60) DEF Relays
<1>6. CASE p = "head"
  BY <1>1, <1>2, <1>3, <1>6, Programs, FinalizeCalls, SMTT(60) DEF Relays
<1>8. CASE p = "finalizer"
  BY <1>1, <1>2, <1>3, <1>8, Programs, FinalizeCalls, SMTT(60) DEF Relays
<1>7. CASE p = "worker"
  BY <1>1, <1>2, <1>3, <1>7, Programs, SMTT(60) DEF Relays
<1> QED
  BY <1>4, <1>5, <1>6, <1>7, <1>8, Processes

(* What an answer does to the programs: nobody else moves; the caller ends, *)
(* goes on, or the controller jumps to its cleanup or its trap.             *)
Placed ==
    /\ at \in [Procs -> Nat] /\ \A p \in Procs : at[p] \in 1..Len(Program[p])
    /\ status \in [Procs -> {"off", "on", "over"}]

Moves(p, ok) ==
    /\ Placed'
    /\ \A q \in Procs \ {p} : at'[q] = at[q] /\ status'[q] = status[q]
    /\ \/ at'[p] = 1 /\ status'[p] = "over"
       \/ at'[p] = at[p] + 1 /\ status'[p] = status[p] /\ (ok \/ TriesBoth(p))
       \/ /\ p = "controller" /\ ~ok /\ status'[p] = status[p]
          /\ IF at[p] \in 18..23 THEN at'[p] = 24 ELSE at[p] \in 4..25 /\ at'[p] = 26

(* What is called is a handler of a node, or nothing.                       *)
LEMMA CallShape ==
    ASSUME TypeOK, NEW p \in Callers
    PROVE  /\ OnCall(p) = <<OnCall(p)[1], OnCall(p)[2]>> /\ OnCall(p)[2] \in Ranks
           /\ status[p] = "on" /\ p \in Procs => OnCall(p)[1] # "none"
<1>1. CASE p = Nobody
  BY <1>1, Processes, SMT DEF OnCall, NoCall, Nobody, Ranks
<1>2. CASE p \in Procs /\ status[p] # "on"
  BY <1>2 DEF OnCall, NoCall, Ranks
<1>3. ASSUME p \in Procs, status[p] = "on"
      PROVE  OnCall(p) = Program[p][at[p]] /\ at[p] \in 1..Len(Program[p])
  BY <1>3 DEF OnCall, TypeOK
<1>4. CASE p = "launcher" /\ status[p] = "on"
  BY <1>3, <1>4, Programs, LaunchCalls, Processes, SMTT(60) DEF Ranks, HeadNode, WorkerNode
<1>5. CASE p = "controller" /\ status[p] = "on"
  <2>1. Program[p] = Control
    BY <1>5 DEF Program
  <2> QED
    <3>1. OnCall(p) = Control[at[p]] /\ at[p] \in 1..Len(Control)
      BY <1>3, <1>5, <2>1, Processes
    <3>2. IsCall(OnCall(p))
      BY <3>1, ControlEntries, ControlCalls
    <3> QED
      BY <3>2 DEF IsCall
<1>6. CASE p = "finalizer" /\ status[p] = "on"
  BY <1>3, <1>6, Programs, FinalizeCalls, Processes, SMTT(60) DEF Ranks, HeadNode, WorkerNode, Relays
<1>7. CASE p = "head" /\ status[p] = "on"
  BY <1>3, <1>7, Programs, FinalizeCalls, Processes, SMTT(60) DEF Ranks, HeadNode, WorkerNode, Relays
<1>8. CASE p = "worker" /\ status[p] = "on"
  BY <1>3, <1>8, Programs, Processes, SMTT(60) DEF Ranks, HeadNode, WorkerNode
<1> QED
  BY <1>1, <1>2, <1>4, <1>5, <1>6, <1>7, <1>8, Processes DEF Callers

(* Going on to a position, or past the end.                                 *)
LEMMA Going ==
    ASSUME TypeOK, NEW p \in Procs, NEW i \in Nat, i >= 1, GoTo(p, i)
    PROVE  /\ Placed'
           /\ \A q \in Procs \ {p} : at'[q] = at[q] /\ status'[q] = status[q]
           /\ IF i <= Len(Program[p]) THEN at'[p] = i /\ status'[p] = status[p]
                                     ELSE at'[p] = 1 /\ status'[p] = "over"
<1>1. Len(Program[p]) \in Nat /\ Len(Program[p]) >= 1
  BY Lengths
<1>2. /\ at \in [Procs -> Nat] /\ \A q \in Procs : at[q] \in 1..Len(Program[q])
      /\ status \in [Procs -> {"off", "on", "over"}]
  BY DEF TypeOK
<1>3. CASE i <= Len(Program[p])
  BY <1>1, <1>2, <1>3, SMT DEF GoTo, Placed
<1>4. CASE ~(i <= Len(Program[p]))
  BY <1>1, <1>2, <1>4, SMT DEF GoTo, Placed
<1> QED
  BY <1>3, <1>4

(* An answer moves its caller.                                              *)
LEMMA Answering ==
    ASSUME TypeOK, NEW p \in Procs, NEW ok \in BOOLEAN, Returns(p, ok)
    PROVE  Moves(p, ok)
<1>1. at[p] \in 1..Len(Program[p]) /\ Len(Program[p]) \in Nat /\ Len(Program[p]) < 29
  BY Lengths DEF TypeOK
<1>2. p # Nobody
  BY Processes DEF Nobody
<1>3. CASE ok
  <2>1. GoTo(p, at[p] + 1)
    BY <1>2, <1>3 DEF Returns
  <2> QED
    BY <1>1, <1>3, <2>1, Going, SMT DEF Moves
<1>4. CASE ~ok
  <2>1. Raises(p)
    BY <1>2, <1>4 DEF Returns
  <2>2. CASE p = "controller" /\ at[p] \in 18..23
    <3>1. GoTo(p, 24)
      BY <2>1, <2>2, JumpsTo, SMT DEF Raises
    <3>2. Len(Program[p]) = 28
      BY <2>2, Programs
    <3> QED
      BY <1>1, <1>4, <2>2, <3>1, <3>2, Going, SMT DEF Moves
  <2>3. CASE p = "controller" /\ at[p] \in 4..25 /\ at[p] \notin 18..23
    <3>1. GoTo(p, 26)
      BY <2>1, <2>3, JumpsTo, SMT DEF Raises
    <3>2. Len(Program[p]) = 28
      BY <2>3, Programs
    <3> QED
      BY <1>1, <1>4, <2>3, <3>1, <3>2, Going, SMT DEF Moves
  <2>4. CASE ~(p = "controller" /\ at[p] \in 4..25) /\ TriesBoth(p)
    <3>1. GoTo(p, at[p] + 1)
      BY <1>1, <2>1, <2>4, JumpsTo, SMT DEF Raises
    <3> QED
      BY <1>1, <1>4, <2>4, <3>1, Going, SMT DEF Moves
  <2>5. CASE ~(p = "controller" /\ at[p] \in 4..25) /\ ~TriesBoth(p)
    <3>1. GoTo(p, Len(Program[p]) + 1)
      BY <1>1, <2>1, <2>5, JumpsTo, SMT DEF Raises
    <3> QED
      BY <1>1, <1>4, <2>5, <3>1, Going, SMT DEF Moves
  <2> QED
    BY <1>1, <2>2, <2>3, <2>4, <2>5, SMT
<1> QED
  BY <1>3, <1>4

(* An answer leaves positions, statuses and errors typed.                   *)
LEMMA Answered ==
    ASSUME TypeOK, NEW p \in Callers, NEW ok \in BOOLEAN, Returns(p, ok)
    PROVE  /\ Placed' /\ erred' \subseteq Relays
           /\ p = Nobody => UNCHANGED <<at, status>>
<1>1. CASE p = Nobody
  BY <1>1 DEF Returns, TypeOK, Placed, TriesBoth, OnCall, NoCall, Procs, Program, Nobody
<1>2. CASE p \in Procs
  <2>1. Placed'
    BY <1>2, Answering DEF Moves
  <2>2. TriesBoth(p) => p \in Relays
    <3>1. ASSUME TriesBoth(p) PROVE OnCall(p) = <<"cleanup", OnCall(p)[2]>> /\ OnCall(p)[2] \in Ranks
      BY <3>1, CallShape DEF TriesBoth
    <3> QED
      BY <1>2, <3>1, Positions DEF TriesBoth
  <2>3. erred' \subseteq Relays
    BY <2>2 DEF Returns, TypeOK
  <2>4. p # Nobody
    BY <1>2, Processes DEF Nobody
  <2> QED
    BY <2>1, <2>3, <2>4
<1> QED
  BY <1>1, <1>2 DEF Callers

(* Handlers keep the types.                                                 *)
LEMMA ServeTyped ==
    ASSUME TypeOK, NEW p \in Callers, NEW r \in Ranks, Serve(p, r), UNCHANGED lifecycle
    PROVE  TypeOK'
<1>1. ASSUME NEW act, Handler(p, act, r)
      PROVE  /\ Placed' /\ erred' \subseteq Relays /\ late' \subseteq late
             /\ UNCHANGED <<holder, shared, absent>>
  BY <1>1, Answered DEF Handler, Begun
<1>2. ASSUME NEW act \in LockActs, Begins(p, act, r)
      PROVE  /\ Placed' /\ erred' \subseteq Relays /\ late' \subseteq late
             /\ holder' \in [Ranks -> [act : LockActs \cup {"none"}, by : Callers]]
             /\ UNCHANGED <<shared, absent>>
  <2>1. holder' \in [Ranks -> [act : LockActs \cup {"none"}, by : Callers]]
    BY <1>2 DEF Begins, TypeOK
  <2> QED
    BY <1>2, <2>1 DEF Begins, TypeOK, Placed, Begun
<1>3. ASSUME NEW names \in SUBSET Receipts, Writes(r, names)
      PROVE  rc' \in [Ranks -> SUBSET Receipts]
  BY <1>3 DEF Writes, TypeOK
<1>4. CASE AcceptControllerStart(p, r)
  <2>1. {"executing"} \in SUBSET Receipts
    BY DEF Receipts
  <2> QED
    BY <1>1, <1>3, <1>4, <2>1 DEF AcceptControllerStart, TypeOK, Placed
<1>5. CASE BeginEnterIdle(p, r)
  <2>1. {"transition-started"} \in SUBSET Receipts /\ "enter" \in LockActs
    BY DEF Receipts, Phases, LockActs
  <2> QED
    BY <1>2, <1>3, <1>5, <2>1 DEF BeginEnterIdle, TypeOK, Placed
<1>6. CASE DirectReady(p, r)
  <2>1. {"direct-ready"} \in SUBSET Receipts
    BY DEF Receipts, Phases
  <2> QED
    BY <1>1, <1>3, <1>6, <2>1 DEF DirectReady, TypeOK, Placed
<1>7. CASE BeginInstallFirewall(p, r)
  <2>1. {"firewall-insert"} \in SUBSET Receipts /\ "firewall" \in LockActs
    BY DEF Receipts, Phases, LockActs
  <2> QED
    BY <1>2, <1>3, <1>7, <2>1 DEF BeginInstallFirewall, TypeOK, Placed
<1>8. CASE AcceptInventory(p, r)
  <2>1. {"inventory"} \in SUBSET Receipts
    BY DEF Receipts
  <2> QED
    BY <1>1, <1>3, <1>8, <2>1 DEF AcceptInventory, TypeOK, Placed
<1>9. CASE AcceptControllerClosure(p, r)
  <2>1. \A b \in Packets(p, r) : Closing(b) \in SUBSET Receipts
    BY DEF Receipts, Closing
  <2> QED
    BY <1>1, <1>3, <1>9, <2>1 DEF AcceptControllerClosure, TypeOK, Placed
<1>10. CASE BeginCleanup(p, r)
  <2>1. {"recovery-started"} \in SUBSET Receipts /\ "cleanup" \in LockActs
    BY DEF Receipts, Phases, LockActs
  <2> QED
    BY <1>2, <1>3, <1>10, <2>1 DEF BeginCleanup, TypeOK, Placed
<1>11. CASE AcceptPairClosure(p, r)
  <2>1. {"pair-closure"} \in SUBSET Receipts
    BY DEF Receipts
  <2> QED
    BY <1>1, <1>3, <1>11, <2>1 DEF AcceptPairClosure, TypeOK, Placed
<1>12. CASE BeginRestore(p, r)
  <2>1. {"restore-started"} \in SUBSET Receipts /\ "restore" \in LockActs
    BY DEF Receipts, Phases, LockActs
  <2>2. rc' \in [Ranks -> SUBSET Receipts]
    BY <1>3, <1>12, <2>1 DEF BeginRestore, TypeOK
  <2>3. net' \in [Ranks -> {"switched", "partial", "idle", "direct"}]
    BY <1>12 DEF BeginRestore, TypeOK
  <2>4. Begins(p, "restore", r) /\ UNCHANGED <<lease, fw, link, slot, clean>>
    BY <1>12 DEF BeginRestore
  <2> QED
    BY <1>2, <2>1, <2>2, <2>3, <2>4 DEF TypeOK, Placed
<1>13. CASE Disarm(p, r)
  <2>1. {"disarmed"} \in SUBSET Receipts
    BY DEF Receipts
  <2> QED
    BY <1>1, <1>3, <1>13, <2>1 DEF Disarm, TypeOK, Placed
<1> QED
  BY <1>4, <1>5, <1>6, <1>7, <1>8, <1>9, <1>10, <1>11, <1>12, <1>13 DEF Serve

(* So do the long handlers' ends,                                           *)
LEMMA FinishTyped ==
    ASSUME TypeOK, NEW r \in Ranks, Finish(r), UNCHANGED lifecycle
    PROVE  TypeOK'
<1>1. ASSUME NEW act, NEW ok \in BOOLEAN, Finishes(act, r, ok)
      PROVE  /\ Placed' /\ erred' \subseteq Relays
             /\ holder' \in [Ranks -> [act : LockActs \cup {"none"}, by : Callers]]
             /\ UNCHANGED <<late, shared, absent>>
  <2>1. holder[r].by \in Callers
    BY DEF TypeOK
  <2>2. Free \in [act : LockActs \cup {"none"}, by : Callers]
    BY DEF Free, Callers
  <2> QED
    BY <1>1, <2>1, <2>2, Answered DEF Finishes, TypeOK
<1>2. ASSUME NEW names \in SUBSET Receipts, Writes(r, names)
      PROVE  rc' \in [Ranks -> SUBSET Receipts]
  BY <1>2 DEF Writes, TypeOK
<1>3. CASE EnterIdle(r)
  <2>1. {"idle"} \in SUBSET Receipts
    BY DEF Receipts, Phases
  <2>2. net' \in [Ranks -> {"switched", "partial", "idle", "direct"}]
    BY <1>3 DEF EnterIdle, TypeOK
  <2> QED
    BY <1>1, <1>2, <1>3, <2>1, <2>2 DEF EnterIdle, TypeOK, Placed
<1>4. CASE InstallFirewall(r)
  <2>1. {"firewall-ready"} \in SUBSET Receipts
    BY DEF Receipts, Phases
  <2> QED
    BY <1>1, <1>2, <1>4, <2>1 DEF InstallFirewall, TypeOK, Placed
<1>5. CASE CleanupResources(r)
  <2>1. Proved(r) \in BOOLEAN
    BY DEF Proved
  <2>2. SlotOutcome(r) \in {"never", "absent", "stopped", "unproved"}
    BY DEF SlotOutcome
  <2>3. clean' \in [Ranks -> {"none", "never", "absent", "stopped"}]
    BY <1>5, <2>2 DEF CleanupResources, Proved, TypeOK
  <2>4. slot' \in [Ranks -> {"absent", "partial", "staged", "up", "stopped"}]
    BY <1>5 DEF CleanupResources, TypeOK
  <2>5. link' \in [Ranks -> {"staged", "up", "stopped"}]
    BY <1>5 DEF CleanupResources, TypeOK
  <2>6. Finishes("cleanup", r, Proved(r)) /\ UNCHANGED <<rc, lease, net, fw>>
    BY <1>5 DEF CleanupResources
  <2>7. /\ Placed' /\ erred' \subseteq Relays
        /\ holder' \in [Ranks -> [act : LockActs \cup {"none"}, by : Callers]]
        /\ UNCHANGED <<late, shared, absent>>
    BY <1>1, <2>1, <2>6
  <2> QED
    BY <2>3, <2>4, <2>5, <2>6, <2>7 DEF TypeOK, Placed
<1>6. CASE Restore(r)
  <2>1. \A names : names = (IF Has(r, "restore-started") THEN {"restored"} ELSE {"unchanged"})
                            \cup (IF RulesFound(r) THEN {"firewall-remove"} ELSE {})
                    => names \in SUBSET Receipts
    BY DEF Receipts, Phases
  <2>2. rc' \in [Ranks -> SUBSET Receipts]
    BY <1>2, <1>6, <2>1 DEF Restore
  <2>3. net' \in [Ranks -> {"switched", "partial", "idle", "direct"}]
    BY <1>6 DEF Restore, TypeOK, Baseline
  <2>4. fw' \in [Ranks -> BOOLEAN]
    BY <1>6 DEF Restore, TypeOK
  <2> QED
    BY <1>1, <1>6, <2>2, <2>3, <2>4 DEF Restore, TypeOK, Placed
<1> QED
  BY <1>3, <1>4, <1>5, <1>6 DEF Finish

(* What the controller asks for itself is answered at once,                 *)
LEMMA OwnAsks ==
    ASSUME NEW act, NEW r, Raw("controller", act, r)
    PROVE  Local("controller", act, r) /\ UNCHANGED shared
  BY DEF Raw, Local, Calls, Begun, Nobody

LEMMA OwnAsked ==
    ASSUME NEW r \in Ranks, Ask("controller", r)
    PROVE  \E act \in RawActs : Local("controller", act, r) /\ UNCHANGED <<rc, lease, fw, clean, shared>>
<1>1. \E act \in RawActs : Raw("controller", act, r) /\ UNCHANGED <<rc, lease, fw, clean>>
  BY DEF Ask, Profile, StartLink, StopLink, StageSlot, ArmSlot, StartSlot, StopSlot, RemoveProfile,
         RawActs
<1> QED
  BY <1>1, OwnAsks

(* and what it asked for and no longer waits for is done by itself.         *)
LEMMA LateAsks ==
    ASSUME NEW r \in Ranks, Ask(Nobody, r)
    PROVE  /\ UNCHANGED <<at, status, erred, holder, shared, absent, rc, lease, fw, clean>>
           /\ late' \subseteq late
           /\ \E act \in RawActs, c \in late : c.call = <<act, r>> /\ Raw(Nobody, act, r)
<1>1. \E act \in RawActs : Raw(Nobody, act, r) /\ UNCHANGED <<rc, lease, fw, clean>>
  BY DEF Ask, Profile, StartLink, StopLink, StageSlot, ArmSlot, StartSlot, StopSlot, RemoveProfile,
         RawActs
<1>2. ~TriesBoth(Nobody)
  BY Processes DEF TriesBoth, OnCall, NoCall, Nobody
<1>3. ASSUME NEW act, Raw(Nobody, act, r)
      PROVE  /\ UNCHANGED <<at, status, erred, holder, shared, absent>> /\ late' \subseteq late
             /\ \E c \in late : c.call = <<act, r>>
  BY <1>2, <1>3 DEF Raw, Calls, Returns, Begun, Delayed
<1> QED
  BY <1>1, <1>3

(* Whoever asks, nothing but interfaces, links and slots changes,           *)
LEMMA Asked ==
    ASSUME NEW p \in {"controller", Nobody}, NEW r \in Ranks, Ask(p, r)
    PROVE  UNCHANGED <<rc, lease, fw, clean, holder, shared, absent>> /\ late' \subseteq late
<1>1. CASE p = "controller"
  BY <1>1, OwnAsked DEF Local
<1>2. CASE p = Nobody
  BY <1>2, LateAsks
<1> QED
  BY <1>1, <1>2

(* and these keep their types:                                              *)
LEMMA AskTyped ==
    ASSUME TypeOK, NEW p \in {"controller", Nobody}, NEW r \in Ranks, Ask(p, r)
    PROVE  /\ net' \in [Ranks -> {"switched", "partial", "idle", "direct"}]
           /\ link' \in [Ranks -> {"staged", "up", "stopped"}]
           /\ slot' \in [Ranks -> {"absent", "partial", "staged", "up", "stopped"}]
<1> USE DEF TypeOK
<1>1. CASE Profile(p, r) \/ RemoveProfile(p, r)
  BY <1>1 DEF Profile, RemoveProfile
<1>2. CASE StartLink(p, r) \/ StopLink(p, r)
  BY <1>2 DEF StartLink, StopLink
<1>3. CASE StageSlot(p, r) \/ ArmSlot(p, r) \/ StartSlot(p, r)
  <2>1. \E s \in {"partial", "staged", "up"} : slot' = [slot EXCEPT ![r] = s]
    BY <1>3 DEF StageSlot, ArmSlot, StartSlot
  <2>2. UNCHANGED <<net, link>>
    BY <1>3 DEF StageSlot, ArmSlot, StartSlot
  <2> QED
    BY <2>1, <2>2
<1>4. CASE StopSlot(p, r)
  BY <1>4 DEF StopSlot
<1> QED
  BY <1>1, <1>2, <1>3, <1>4 DEF Ask

LEMMA LateTyped ==
    ASSUME TypeOK, NEW r \in Ranks, Ask(Nobody, r), UNCHANGED lifecycle
    PROVE  TypeOK'
  BY AskTyped, LateAsks DEF TypeOK

(* the controller's own steps,                                              *)
LEMMA ControllerTyped ==
    ASSUME TypeOK, ControllerStep, UNCHANGED lifecycle
    PROVE  TypeOK'
<1>1. ASSUME NEW act, NEW r, Local("controller", act, r)
      PROVE  Placed' /\ erred' \subseteq Relays /\ UNCHANGED <<absent, holder, late>>
  BY <1>1, Answered, Processes DEF Local, Callers
<1>2. CASE Gate
  BY <1>1, <1>2 DEF Gate, node, TypeOK, Placed
<1>3. CASE AttemptChild
  BY <1>1, <1>3 DEF AttemptChild, node, TypeOK, Placed
<1>4. CASE LinkOnly
  <2>1. Placed'
    BY <1>4, JumpsTo, Going, Processes DEF LinkOnly
  <2> QED
    BY <1>4, <2>1 DEF LinkOnly, node, TypeOK, Placed
<1>5. CASE Acknowledge
  BY <1>1, <1>5 DEF Acknowledge, node, TypeOK, Placed
<1>6. CASE Trap
  BY <1>1, <1>6 DEF Trap, TypeOK, Placed
<1>7. ASSUME NEW r \in Ranks, Ask("controller", r)
      PROVE  TypeOK'
  BY <1>1, <1>7, OwnAsked, AskTyped DEF TypeOK, Placed
<1> QED
  BY <1>2, <1>3, <1>4, <1>5, <1>6, <1>7 DEF ControllerStep

(* the steps of the launcher, the relays and the clocks,                    *)
LEMMA OtherTyped ==
    ASSUME TypeOK, UNCHANGED lifecycle,
           \/ LauncherStep \/ \E p \in Relays : RelayStep(p)
           \/ \E r \in Ranks : ContainerGuard(r) \/ Shorten(r) \/ Fire(r)
    PROVE  TypeOK'
<1>1. CASE Submit
  <2>1. at["launcher"] = 1
    BY <1>1, Positions, Processes DEF Submit, Ranks
  <2>2. /\ at' = [at EXCEPT !["launcher"] = 2] /\ status' = [status EXCEPT !["controller"] = "on"]
        /\ UNCHANGED <<node, shared, erred, absent, holder, late>>
    BY <1>1, <2>1 DEF Submit
  <2>3. 2 \in 1..Len(Program["launcher"])
    BY Programs
  <2>4. Placed'
    BY <2>2, <2>3 DEF TypeOK, Placed
  <2> QED
    BY <2>2, <2>4 DEF node, TypeOK, Placed
<1>2. CASE Replicate
  <2>1. Placed' /\ erred' \subseteq Relays
    BY <1>2, Answered, Processes DEF Replicate, Local, Callers
  <2> QED
    BY <1>2, <2>1 DEF Replicate, Local, node, TypeOK, Placed
<1>3. CASE Await
  <2>1. Placed'
    BY <1>3, Processes, Lengths, SMT DEF Await, TypeOK, Placed
  <2> QED
    BY <1>3, <2>1 DEF Await, node, TypeOK, Placed
<1>4. ASSUME NEW p \in Relays, RelayStep(p)
      PROVE  TypeOK'
  <2>1. Returns(p, TRUE)
    BY <1>4 DEF RelayStep, ObserveTerminal, CleanupStatus
  <2>2. p \in Callers
    BY Processes DEF Relays, Callers
  <2>3. Placed' /\ erred' \subseteq Relays
    BY <2>1, <2>2, Answered
  <2>4. absent' \in [Relays -> BOOLEAN]
    BY <1>4 DEF RelayStep, ObserveTerminal, CleanupStatus, TypeOK
  <2>5. UNCHANGED <<node, shared, holder, late>>
    BY <1>4 DEF RelayStep, ObserveTerminal, CleanupStatus
  <2> QED
    BY <2>3, <2>4, <2>5 DEF node, TypeOK, Placed
<1>5. ASSUME NEW r \in Ranks, ContainerGuard(r)
      PROVE  TypeOK'
  BY <1>5 DEF ContainerGuard, TypeOK
<1>6. ASSUME NEW r \in Ranks, Shorten(r)
      PROVE  TypeOK'
  BY <1>6 DEF Shorten, TypeOK
<1>7. ASSUME NEW r \in Ranks, Fire(r)
      PROVE  TypeOK'
  BY <1>7 DEF Fire, TypeOK
<1> QED
  BY <1>1, <1>2, <1>3, <1>4, <1>5, <1>6, <1>7 DEF LauncherStep

(* and refusals, time-outs and deaths.                                      *)
LEMMA FaultTyped ==
    ASSUME TypeOK, UNCHANGED lifecycle, NEW p \in Procs, Refuse(p) \/ TimeOut(p) \/ Die(p)
    PROVE  TypeOK'
<1>1. ASSUME Returns(p, FALSE)
      PROVE  Placed' /\ erred' \subseteq Relays
  BY <1>1, Answered DEF Callers
<1>2. CASE Refuse(p)
  <2>1. UNCHANGED <<node, shared, absent, holder, late>> /\ Returns(p, FALSE)
    BY <1>2 DEF Refuse
  <2> QED
    BY <1>1, <2>1 DEF node, TypeOK, Placed
<1>3. ASSUME Leaves(p), Placed', erred' \subseteq Relays
      PROVE  TypeOK'
  <2>1. holder' \in [Ranks -> [act : LockActs \cup {"none"}, by : Callers]]
    BY <1>3 DEF Leaves, TypeOK, Free, Callers
  <2>2. link' \in [Ranks -> {"staged", "up", "stopped"}]
    BY <1>3 DEF Leaves, TypeOK
  <2>3. {"firewall-remove"} \in SUBSET Receipts /\ HeadNode \in Ranks
    BY DEF Receipts, Phases, Ranks
  <2>4. rc' \in [Ranks -> SUBSET Receipts] /\ fw' \in [Ranks -> BOOLEAN]
    <3>1. CASE UNCHANGED <<rc, fw>>
      BY <3>1 DEF TypeOK
    <3>2. CASE /\ Writes(HeadNode, {"firewall-remove"})
               /\ fw' \in {fw, [fw EXCEPT ![HeadNode] = FALSE]}
      BY <2>3, <3>2 DEF TypeOK, Writes
    <3> QED
      BY <1>3, <3>1, <3>2 DEF Leaves
  <2>5. late' \subseteq [call : (LockActs \cup RawActs) \X Ranks, from : Procs]
    <3>1. OnCall(p) = <<OnCall(p)[1], OnCall(p)[2]>> /\ OnCall(p)[2] \in Ranks
      BY CallShape DEF Callers
    <3>2. OnCall(p)[1] \in DelayedActs[lifecycle] => OnCall(p) \in (LockActs \cup RawActs) \X Ranks
      BY <3>1, DelayAssumption DEF TypeOK
    <3>3. late' = late \/ (OnCall(p)[1] \in DelayedActs[lifecycle]
                            /\ late' = late \cup {[call |-> OnCall(p), from |-> p]})
      BY <1>3 DEF Leaves
    <3> QED
      BY <3>2, <3>3 DEF TypeOK
  <2>6. UNCHANGED <<lease, net, slot, clean, shared, absent>>
    BY <1>3 DEF Leaves
  <2> QED
    BY <1>3, <2>1, <2>2, <2>4, <2>5, <2>6 DEF TypeOK, Placed
<1>4. CASE TimeOut(p)
  BY <1>1, <1>3, <1>4 DEF TimeOut
<1>5. CASE Die(p)
  <2>1. Len(Program[p]) + 1 \in Nat /\ Len(Program[p]) + 1 >= 1
    BY Lengths
  <2>2. Placed'
    BY <1>5, <2>1, Going DEF Die
  <2> QED
    BY <1>3, <1>5, <2>2 DEF Die, TypeOK
<1> QED
  BY <1>2, <1>4, <1>5

(* The armed pair is typed.                                                 *)
LEMMA InitTyped == Init => TypeOK
<1> SUFFICES ASSUME Init PROVE TypeOK
  OBVIOUS
<1>1. \A p \in Procs : 1 \in 1..Len(Program[p])
  BY Lengths
<1>2. {"pair-armed"} \in SUBSET Receipts
  BY DEF Receipts
<1>3. Free \in [act : LockActs \cup {"none"}, by : Callers]
  BY DEF Free, Callers
<1> QED
  BY <1>1, <1>2, <1>3 DEF Init, TypeOK, Baseline

(* Every step keeps the types.                                              *)
LEMMA StepTyped == TypeOK /\ [Next]_vars => TypeOK'
<1> SUFFICES ASSUME TypeOK, [Next]_vars PROVE TypeOK'
  OBVIOUS
<1>1. CASE UNCHANGED vars
  BY <1>1 DEF vars, TypeOK
<1>2. ASSUME NEW p \in Callers, NEW r \in Ranks, Serve(p, r), UNCHANGED lifecycle
      PROVE  TypeOK'
  BY <1>2, ServeTyped
<1>3. ASSUME NEW p \in Procs, Step(p), UNCHANGED lifecycle
      PROVE  TypeOK'
  BY <1>2, <1>3, ControllerTyped, OtherTyped, FaultTyped DEF Step, Callers
<1> QED
  BY <1>1, <1>2, <1>3, FaultTyped, OtherTyped, FinishTyped, LateTyped DEF Next, Callers

(* The types of the pair state.                                             *)
THEOREM TypeCorrect == Spec => []TypeOK
  BY InitTyped, StepTyped, PTL DEF Spec


-----------------------------------------------------------------------------
(* How the programs move.                                                   *)

(* Who calls is on.                                                         *)
LEMMA Callable ==
    ASSUME TypeOK, NEW p \in Procs, NEW act, NEW r \in Ranks, OnCall(p) = <<act, r>>, act # "none"
    PROVE  status[p] = "on"
  BY Positions

(* The relays' calls that take no lock.                                     *)
LEMMA OnFinalize ==
    ASSUME TypeOK, NEW p \in Relays, status[p] = "on"
    PROVE  /\ at[p] = 1 => OnCall(p)[1] = "terminal"
           /\ at[p] = 6 => OnCall(p) = <<"status", HeadNode>>
           /\ at[p] = 7 => OnCall(p) = <<"status", WorkerNode>>
<1>1. OnCall(p) = Program[p][at[p]]
  BY Processes DEF OnCall, Relays
<1>2. /\ Program[p][1] = <<"terminal", 0>>
      /\ Program[p][6] = <<"status", 0>> /\ Program[p][7] = <<"status", 1>>
  BY Programs, FinalizeCalls
<1> QED
  BY <1>1, <1>2 DEF HeadNode, WorkerNode

(* Every step moves one running process at most, except those that start    *)
(* one.                                                                     *)
Answers(p, ok) == p \in Procs /\ status[p] = "on" /\ Moves(p, ok)

(* The steps that start a process.                                          *)
Starting == Submit \/ Await \/ \E r \in Ranks : Fire(r)

(* A short handler returns to its caller, a long one has begun.             *)
LEMMA ServeMoves ==
    ASSUME TypeOK, NEW p \in Callers, NEW r \in Ranks, Serve(p, r)
    PROVE  \/ UNCHANGED <<at, status>>
           \/ Answers(p, TRUE) /\ OnCall(p)[1] \in LockActs
<1>1. ASSUME NEW act \in LockActs, Handler(p, act, r)
      PROVE  \/ UNCHANGED <<at, status>>
             \/ Answers(p, TRUE) /\ OnCall(p)[1] \in LockActs
  <2>1. CASE p = Nobody
    BY <1>1, <2>1, Answered DEF Handler
  <2>2. CASE p \in Procs
    <3>1. OnCall(p) = <<act, r>> /\ act # "none"
      BY <1>1, <2>2, Processes DEF Handler, Calls, Nobody, LockActs
    <3>2. Moves(p, TRUE)
      BY <1>1, <2>2, Answering DEF Handler
    <3> QED
      <4>1. status[p] = "on"
        BY <2>2, <3>1, Callable
      <4>2. OnCall(p)[1] = act
        BY <3>1
      <4> QED
        BY <2>2, <3>2, <4>1, <4>2 DEF Answers
  <2> QED
    BY <2>1, <2>2 DEF Callers
<1>2. ASSUME NEW act, Begins(p, act, r) PROVE UNCHANGED <<at, status>>
  BY <1>2 DEF Begins
<1>3. {"executing", "direct", "inventory", "closure", "pair", "disarm"} \subseteq LockActs
  BY DEF LockActs
<1>4. CASE AcceptControllerStart(p, r) \/ DirectReady(p, r) \/ AcceptInventory(p, r)
  BY <1>1, <1>3, <1>4 DEF AcceptControllerStart, DirectReady, AcceptInventory
<1>5. CASE AcceptControllerClosure(p, r) \/ AcceptPairClosure(p, r) \/ Disarm(p, r)
  BY <1>1, <1>3, <1>5 DEF AcceptControllerClosure, AcceptPairClosure, Disarm
<1>6. CASE BeginEnterIdle(p, r) \/ BeginInstallFirewall(p, r) \/ BeginCleanup(p, r) \/ BeginRestore(p, r)
  BY <1>2, <1>6 DEF BeginEnterIdle, BeginInstallFirewall, BeginCleanup, BeginRestore
<1> QED
  BY <1>4, <1>5, <1>6 DEF Serve

(* A long handler's end returns to the caller that still waits.             *)
LEMMA FinishMoves ==
    ASSUME TypeOK, Holding, NEW r \in Ranks, Finish(r)
    PROVE  \/ UNCHANGED <<at, status>>
           \/ \E p \in Procs, ok \in BOOLEAN : Answers(p, ok) /\ OnCall(p)[1] \in LockActs
<1>1. ASSUME NEW act \in LockActs, NEW ok \in BOOLEAN, Finishes(act, r, ok)
      PROVE  \/ UNCHANGED <<at, status>>
             \/ \E p \in Procs : Answers(p, ok) /\ OnCall(p)[1] \in LockActs
  <2>1. holder[r].by \in Callers
    BY DEF TypeOK
  <2>2. CASE holder[r].by = Nobody
    BY <1>1, <2>1, <2>2, Answered DEF Finishes
  <2>3. CASE holder[r].by \in Procs
    <3>1. OnCall(holder[r].by) = <<act, r>> /\ act # "none"
      BY <1>1, <2>3 DEF Finishes, Holding, LockActs
    <3> QED
      BY <1>1, <2>3, <3>1, Callable, Answering DEF Finishes, Answers
  <2> QED
    BY <2>1, <2>2, <2>3 DEF Callers
<1>2. {"enter", "firewall", "cleanup", "restore"} \subseteq LockActs
  BY DEF LockActs
<1>3. Proved(r) \in BOOLEAN
  BY DEF Proved
<1>4. \E act \in LockActs, ok \in BOOLEAN : Finishes(act, r, ok)
  BY <1>2, <1>3 DEF Finish, EnterIdle, InstallFirewall, CleanupResources, Restore
<1> QED
  BY <1>1, <1>4

(* An error, a time-out or a death moves its process as an error does.      *)
LEMMA FaultMoves ==
    ASSUME TypeOK, NEW p \in Procs, Refuse(p) \/ TimeOut(p) \/ Die(p)
    PROVE  Answers(p, FALSE)
<1>1. status[p] = "on"
  BY CallShape, Processes DEF Refuse, TimeOut, Die, OnCall, NoCall, LockActs, RawActs, Callers
<1>2. CASE Refuse(p) \/ TimeOut(p)
  BY <1>1, <1>2, Answering DEF Refuse, TimeOut, Answers
<1>3. CASE Die(p)
  <2>1. Len(Program[p]) + 1 \in Nat /\ Len(Program[p]) + 1 >= 1
        /\ ~(Len(Program[p]) + 1 <= Len(Program[p]))
    BY Lengths
  <2>2. GoTo(p, Len(Program[p]) + 1)
    BY <1>3 DEF Die
  <2> QED
    BY <1>1, <2>1, <2>2, Going DEF Moves, Answers
<1> QED
  BY <1>2, <1>3

(* A link-only run goes to its trap.                                        *)
LEMMA LinkOnlyMoves ==
    ASSUME TypeOK, LinkOnly
    PROVE  Answers("controller", FALSE) /\ at'["controller"] = 26
<1>1. GoTo("controller", 26) /\ status["controller"] = "on" /\ at["controller"] = 14
  BY JumpsTo, Positions, Processes DEF LinkOnly, Ranks
<1>2. Placed' /\ at'["controller"] = 26 /\ status'["controller"] = status["controller"]
      /\ \A q \in Procs \ {"controller"} : at'[q] = at[q] /\ status'[q] = status[q]
  <2>1. 26 <= Len(Program["controller"]) /\ "controller" \in Procs
    BY Programs, Processes
  <2> QED
    BY <1>1, <2>1, Going
<1> QED
  BY <1>1, <1>2, Processes DEF Moves, Answers

(* A process's own steps are answered at once.                              *)
LEMMA OwnMoves ==
    ASSUME TypeOK
    PROVE  /\ Replicate => Answers("launcher", TRUE)
           /\ ControllerStep => \E ok \in BOOLEAN : Answers("controller", ok)
           /\ \A p \in Relays : RelayStep(p) => Answers(p, TRUE)
<1>1. ASSUME NEW p \in Procs, NEW act, NEW r \in Ranks, act # "none", Local(p, act, r)
      PROVE  Answers(p, TRUE)
  BY <1>1, Callable, Answering DEF Local, Answers
<1>2. ASSUME NEW p \in Relays, RelayStep(p)
      PROVE  Answers(p, TRUE)
  <2>1. \E r \in Ranks, act \in {"terminal", "status"} : OnCall(p) = <<act, r>>
    BY <1>2 DEF RelayStep, ObserveTerminal, CleanupStatus, Ranks
  <2>2. Returns(p, TRUE) /\ p \in Procs
    BY <1>2, Processes DEF RelayStep, ObserveTerminal, CleanupStatus, Relays
  <2> QED
    BY <2>1, <2>2, Callable, Answering DEF Answers
<1>3. Replicate => Answers("launcher", TRUE)
  BY <1>1, Processes DEF Replicate, Ranks
<1>4. LinkOnly => Answers("controller", FALSE)
  BY LinkOnlyMoves
<1>5. ASSUME ControllerStep, ~LinkOnly
      PROVE  Answers("controller", TRUE)
  <2>1. \E act : \E r \in Ranks : act # "none" /\ Local("controller", act, r)
    <3>1. CASE Gate \/ AttemptChild \/ Acknowledge \/ Trap
      BY <3>1 DEF Gate, AttemptChild, Acknowledge, Trap, Ranks
    <3>2. ASSUME NEW r \in Ranks, Ask("controller", r)
          PROVE  \E act : act # "none" /\ Local("controller", act, r)
      BY <3>2, OwnAsked DEF RawActs
    <3> QED
      BY <1>5, <3>1, <3>2 DEF ControllerStep
  <2> QED
    BY <1>1, <2>1, Processes
<1>6. ControllerStep => \E ok \in BOOLEAN : Answers("controller", ok)
  BY <1>4, <1>5
<1> QED
  BY <1>2, <1>3, <1>6

(* Who moves in a step, and by what.                                        *)
LEMMA NextMoves ==
    ASSUME TypeOK, Holding, Next
    PROVE  \/ UNCHANGED <<at, status>> \/ Starting
           \/ \E p \in Procs, ok \in BOOLEAN :
                 /\ Answers(p, ok)
                 /\ \/ ~ok
                    \/ OnCall(p)[1] \in LockActs
                    \/ p = "launcher"
                    \/ p = "controller" /\ ControllerStep
                    \/ p \in Relays /\ RelayStep(p)
<1>1. ASSUME NEW r \in Ranks, ContainerGuard(r) \/ Shorten(r)
      PROVE  UNCHANGED <<at, status>>
  BY <1>1 DEF ContainerGuard, Shorten
<1>2. ASSUME NEW p \in Callers, NEW r \in Ranks, Serve(p, r)
      PROVE  \/ UNCHANGED <<at, status>>
             \/ p \in Procs /\ Answers(p, TRUE) /\ OnCall(p)[1] \in LockActs
  BY <1>2, ServeMoves DEF Answers
<1>3. ASSUME NEW p \in Procs, Refuse(p) \/ TimeOut(p) \/ Die(p)
      PROVE  Answers(p, FALSE)
  BY <1>3, FaultMoves
<1>4. Relays \subseteq Procs /\ {"launcher", "controller"} \subseteq Procs
  BY Processes DEF Relays
<1>5. CASE Replicate \/ ControllerStep \/ \E p \in Relays : RelayStep(p)
  BY <1>4, <1>5, OwnMoves
<1>6. ASSUME NEW r \in Ranks, Ask(Nobody, r)
      PROVE  UNCHANGED <<at, status>>
  BY <1>6, LateAsks
<1> QED
  BY <1>1, <1>2, <1>3, <1>5, <1>6, FinishMoves DEF Next, Step, LauncherStep, Starting, Callers

(* What a start changes.                                                    *)
LEMMA StartChanges ==
    ASSUME TypeOK, Resting, Starting
    PROVE  /\ UNCHANGED <<rc, link, slot, clean, net, fw, shared, absent, holder, late>>
           /\ \A p \in Procs \ {"launcher"} : at'[p] = at[p]
           /\ \A p \in Procs : status[p] = "on" /\ p # "launcher" => status'[p] = "on"
           /\ Over <=> Over'
           /\ Resting'
           /\ OnCall("launcher") # OnCall("launcher")' =>
                 OnCall("launcher")[1] \in {"submit", "await"}
<1>1. CASE Submit
  <2>1. at["launcher"] = 1 /\ status["launcher"] = "on"
    BY <1>1, Positions, Processes DEF Submit, Ranks
  <2>2. /\ at' = [at EXCEPT !["launcher"] = 2] /\ status' = [status EXCEPT !["controller"] = "on"]
        /\ UNCHANGED <<node, shared, erred, absent, holder, late>>
    BY <1>1, <2>1 DEF Submit
  <2>3. status["controller"] = "off"
    BY <2>1 DEF Resting
  <2>4. Resting'
    BY <2>1, <2>2, Processes DEF Resting, TypeOK
  <2> QED
    BY <1>1, <2>1, <2>2, <2>3, <2>4, Processes DEF Submit, TypeOK, Over, node
<1>2. CASE Await
  <2>1. at["launcher"] = 5 /\ status["launcher"] = "on"
    BY <1>2, Positions, Processes DEF Await, Ranks
  <2>2. Resting'
    BY <1>2, <2>1, Processes DEF Await, Resting, TypeOK
  <2> QED
    BY <1>2, <2>1, <2>2, Processes DEF Await, TypeOK, Over, node
<1>3. ASSUME NEW r \in Ranks, Fire(r)
      PROVE  /\ UNCHANGED <<rc, link, slot, clean, net, fw, shared, absent, holder, late>>
             /\ at' = at
             /\ \A p \in Procs : status[p] = "on" => status'[p] = "on"
             /\ Over <=> Over'
             /\ Resting'
             /\ OnCall("launcher") = OnCall("launcher")'
  <2>1. Recovery[r] \in {"head", "worker"}
    BY DEF Recovery
  <2>2. status' = [status EXCEPT ![Recovery[r]] = "on"] /\ UNCHANGED at
    BY <1>3 DEF Fire
  <2>3. Resting'
    BY <2>1, <2>2, Processes DEF Resting, TypeOK
  <2>4. OnCall("launcher") = OnCall("launcher")'
    BY <2>1, <2>2, Processes DEF OnCall, TypeOK
  <2> QED
    BY <1>3, <2>1, <2>2, <2>3, <2>4, Processes DEF Fire, TypeOK, Over
<1> QED
  BY <1>1, <1>2, <1>3 DEF Starting

(* An answer leaves the others at rest.                                     *)
LEMMA MovesRest ==
    ASSUME TypeOK, Resting, NEW p \in Procs, NEW ok \in BOOLEAN, Answers(p, ok)
    PROVE  Resting' /\ (Over => Over')
<1>1. /\ status[p] = "on" /\ Placed'
      /\ \A q \in Procs \ {p} : at'[q] = at[q] /\ status'[q] = status[q]
      /\ \/ at'[p] = 1 /\ status'[p] = "over"
         \/ at'[p] > 1 /\ status'[p] = "on"
  <2>1. at[p] \in Nat /\ at[p] >= 1
    BY DEF TypeOK
  <2>2. at[p] + 1 > 1
    BY <2>1
  <2>3. \/ at'[p] = 1 /\ status'[p] = "over"
        \/ at'[p] \in {at[p] + 1, 24, 26} /\ status'[p] = status[p]
    BY DEF Answers, Moves
  <2>4. \A i \in {at[p] + 1, 24, 26} : i > 1
    BY <2>2
  <2>5. /\ status[p] = "on" /\ Placed'
        /\ \A q \in Procs \ {p} : at'[q] = at[q] /\ status'[q] = status[q]
    BY DEF Answers, Moves
  <2>6. CASE at'[p] = 1 /\ status'[p] = "over"
    BY <2>5, <2>6
  <2>7. CASE at'[p] \in {at[p] + 1, 24, 26} /\ status'[p] = status[p]
    <3>1. at'[p] > 1
      BY <2>4, <2>7
    <3> QED
      BY <2>5, <2>7, <3>1
  <2> QED
    BY <2>3, <2>6, <2>7
<1>2. Resting'
  BY <1>1, Processes DEF Resting, TypeOK, Placed
<1> QED
  BY <1>1, <1>2, Processes DEF Over

(* Rest is kept, and the end of the controller is final.                    *)
LEMMA RestingKept ==
    ASSUME TypeOK, Resting, Holding, Next
    PROVE  Resting' /\ (Over => Over')
<1>1. CASE UNCHANGED <<at, status>>
  BY <1>1 DEF Resting, Over
<1> QED
  BY <1>1, NextMoves, StartChanges, MovesRest

(* The handlers that start and finish in two steps.                         *)
Long == {"enter", "firewall", "cleanup", "restore"}

(* A waiting holder does not move: what its call was it still is.           *)
LEMMA HolderStays ==
    ASSUME TypeOK, Holding, NEW p \in Procs, NEW ok \in BOOLEAN, Answers(p, ok),
           \A r \in Ranks : \/ holder'[r] = Free
                            \/ holder'[r] = [holder[r] EXCEPT !.by = Nobody] /\ holder[r].by = p
                            \/ holder'[r] = holder[r] /\ holder[r].by # p
    PROVE  Holding'
<1> SUFFICES ASSUME NEW r \in Ranks
             PROVE  /\ holder'[r].act \in {"none"} \cup Long
                    /\ holder'[r].act = "none" => holder'[r] = Free
                    /\ holder'[r].by \in Procs => OnCall(holder[r].by)' = <<holder'[r].act, r>>
  BY DEF Holding, Long
<1>1. Nobody \notin Procs
  BY Processes DEF Nobody
<1>2. holder[r] \in [act : LockActs \cup {"none"}, by : Callers]
  BY DEF TypeOK
<1>3. CASE holder'[r] = Free
  BY <1>1, <1>3 DEF Free
<1>4. CASE holder'[r] = [holder[r] EXCEPT !.by = Nobody] /\ holder[r].by = p
  BY <1>1, <1>2, <1>4 DEF Holding, Long, Free
<1>5. CASE holder'[r] = holder[r] /\ holder[r].by # p
  <2>1. holder[r].by \in Procs => OnCall(holder[r].by)' = OnCall(holder[r].by)
    <3> SUFFICES ASSUME NEW q \in Procs, q = holder[r].by, holder'[r].by = q
                 PROVE  OnCall(q)' = OnCall(q)
      BY <1>5
    <3>1. at'[q] = at[q] /\ status'[q] = status[q]
      BY <1>5 DEF Answers, Moves
    <3> QED
      BY <3>1 DEF OnCall
  <2> QED
    BY <1>5, <2>1 DEF Holding, Long
<1> QED
  BY <1>3, <1>4, <1>5

(* A caller in a short call holds no lock.                                  *)
LEMMA FreeCaller ==
    ASSUME TypeOK, Holding, NEW p \in Procs, NEW act, NEW r \in Ranks, OnCall(p) = <<act, r>>,
           act \notin Long \/ holder[r] = Free
    PROVE  \A q \in Ranks : holder[q].by # p
<1> SUFFICES ASSUME NEW q \in Ranks, holder[q].by = p
             PROVE  FALSE
  OBVIOUS
<1>1. <<holder[q].act, q>> = <<act, r>>
  BY DEF Holding
<1>2. holder[q] # Free
  BY Processes DEF Free, Nobody
<1> QED
  BY <1>1, <1>2 DEF Holding, Long

(* Locks are held for waiting callers: behind every handler,                *)
LEMMA ServeHolding ==
    ASSUME TypeOK, Holding, NEW p \in Callers, NEW r \in Ranks, Serve(p, r)
    PROVE  Holding'
<1>1. ASSUME NEW act, act # "none", Handler(p, act, r)
      PROVE  Holding'
  <2>1. UNCHANGED holder /\ holder[r] = Free
    BY <1>1 DEF Handler
  <2>2. CASE p = Nobody
    <3>1. UNCHANGED <<at, status>>
      BY <1>1, <2>2, Answered DEF Handler
    <3> QED
      BY <2>1, <3>1 DEF Holding, OnCall
  <2>3. CASE p \in Procs
    <3>1. OnCall(p) = <<act, r>>
      BY <1>1, <2>3, Processes DEF Handler, Calls, Nobody
    <3>2. Answers(p, TRUE)
      BY <1>1, <2>3, <3>1, Callable, Answering DEF Handler, Answers
    <3>3. \A q \in Ranks : holder[q].by # p
      BY <2>1, <2>3, <3>1, FreeCaller
    <3> QED
      BY <2>1, <2>3, <3>2, <3>3, HolderStays
  <2> QED
    BY <2>2, <2>3 DEF Callers
<1>2. ASSUME NEW act \in Long, Begins(p, act, r)
      PROVE  Holding'
  <2>1. /\ holder' = [holder EXCEPT ![r] = [act |-> act, by |-> p]] /\ UNCHANGED <<at, status>>
        /\ p \in Procs => OnCall(p) = <<act, r>>
    BY <1>2, Processes DEF Begins, Calls, Nobody
  <2>2. act # "none"
    BY DEF Long
  <2> QED
    BY <2>1, <2>2 DEF Holding, OnCall, TypeOK, Long
<1>3. CASE AcceptControllerStart(p, r) \/ DirectReady(p, r) \/ AcceptInventory(p, r)
  BY <1>1, <1>3 DEF AcceptControllerStart, DirectReady, AcceptInventory
<1>4. CASE AcceptControllerClosure(p, r) \/ AcceptPairClosure(p, r) \/ Disarm(p, r)
  BY <1>1, <1>4 DEF AcceptControllerClosure, AcceptPairClosure, Disarm
<1>5. CASE BeginEnterIdle(p, r) \/ BeginInstallFirewall(p, r) \/ BeginCleanup(p, r) \/ BeginRestore(p, r)
  <2>1. \E act \in Long : Begins(p, act, r)
    BY <1>5 DEF BeginEnterIdle, BeginInstallFirewall, BeginCleanup, BeginRestore, Long
  <2> QED
    BY <1>2, <2>1
<1> QED
  BY <1>3, <1>4, <1>5 DEF Serve

(* behind its end,                                                          *)
LEMMA FinishHolding ==
    ASSUME TypeOK, Holding, NEW r \in Ranks, Finish(r)
    PROVE  Holding'
<1>1. Proved(r) \in BOOLEAN
  BY DEF Proved
<1>2. PICK act \in Long, ok \in BOOLEAN : Finishes(act, r, ok)
  BY <1>1 DEF Finish, EnterIdle, InstallFirewall, CleanupResources, Restore, Long
<1>3. /\ holder' = [holder EXCEPT ![r] = Free] /\ Returns(holder[r].by, ok)
      /\ holder[r].by \in Callers
  BY <1>2 DEF Finishes, TypeOK
<1>4. CASE holder[r].by = Nobody
  <2>1. UNCHANGED <<at, status>>
    BY <1>3, <1>4, Answered
  <2>2. Nobody \notin Procs
    BY Processes DEF Nobody
  <2>3. \A q \in Ranks : holder'[q] = holder[q] \/ holder'[q] = Free
    BY <1>3 DEF TypeOK
  <2> QED
    BY <2>1, <2>2, <2>3 DEF Holding, OnCall, Free
<1>5. ASSUME NEW p \in Procs, p = holder[r].by
      PROVE  Holding'
  <2>1. OnCall(p) = <<act, r>> /\ act # "none"
    BY <1>2, <1>5 DEF Finishes, Holding, Long
  <2>2. Answers(p, ok)
    BY <1>3, <1>5, <2>1, Callable, Answering DEF Answers
  <2>3. \A q \in Ranks : q # r => holder[q].by # p
    BY <1>5, <2>1 DEF Holding
  <2>4. \A q \in Ranks : \/ holder'[q] = Free
                         \/ holder'[q] = holder[q] /\ holder[q].by # p
    BY <1>3, <2>3 DEF TypeOK
  <2> QED
    BY <2>2, <2>4, HolderStays
<1> QED
  BY <1>3, <1>4, <1>5 DEF Callers

(* behind what a caller leaves,                                             *)
LEMMA FaultHolding ==
    ASSUME TypeOK, Holding, NEW p \in Procs, Refuse(p) \/ TimeOut(p) \/ Die(p)
    PROVE  Holding'
<1>1. Answers(p, FALSE)
  BY FaultMoves
<1>2. CASE Refuse(p)
  <2>1. UNCHANGED holder
    BY <1>2 DEF Refuse
  <2>2. \A r \in Ranks : holder[r].by # p
    <3> SUFFICES ASSUME NEW r \in Ranks, holder[r].by = p
                 PROVE  FALSE
      OBVIOUS
    <3>1. OnCall(p)[2] = r
      BY DEF Holding
    <3>2. LockBusy(p)
      BY <1>2 DEF Refuse
    <3> QED
      BY <3>1, <3>2 DEF LockBusy
  <2> QED
    BY <1>1, <2>1, <2>2, HolderStays
<1>3. CASE TimeOut(p) \/ Die(p)
  <2>1. holder' = [r \in Ranks |-> IF holder[r].by # p THEN holder[r]
                                  ELSE IF r = HeadNode THEN Free ELSE [holder[r] EXCEPT !.by = Nobody]]
    BY <1>3 DEF TimeOut, Die, Leaves
  <2>2. \A r \in Ranks : \/ holder'[r] = Free
                         \/ holder'[r] = [holder[r] EXCEPT !.by = Nobody] /\ holder[r].by = p
                         \/ holder'[r] = holder[r] /\ holder[r].by # p
    BY <2>1
  <2> QED
    BY <1>1, <2>2, HolderStays
<1> QED
  BY <1>2, <1>3

(* behind the steps under no lock,                                          *)
LEMMA OwnHolding ==
    ASSUME TypeOK, Holding, ControllerStep \/ Replicate \/ \E p \in Relays : RelayStep(p)
    PROVE  Holding'
<1>1. ASSUME NEW p \in Procs, NEW act, NEW r \in Ranks, OnCall(p) = <<act, r>>,
             act \notin Long, UNCHANGED holder, \E ok \in BOOLEAN : Answers(p, ok)
      PROVE  Holding'
  <2>1. \A q \in Ranks : holder[q].by # p
    BY <1>1, FreeCaller
  <2> QED
    BY <1>1, <2>1, HolderStays
<1>2. ASSUME NEW p \in Procs, NEW act, NEW r \in Ranks, act \notin Long \cup {"none"},
             Local(p, act, r)
      PROVE  Holding'
  <2>1. Answers(p, TRUE)
    BY <1>2, Callable, Answering DEF Local, Answers
  <2> QED
    BY <1>1, <1>2, <2>1 DEF Local
<1>3. ASSUME NEW p \in Relays, RelayStep(p)
      PROVE  Holding'
  <2>1. PICK r \in Ranks, act \in {"terminal", "status"} : OnCall(p) = <<act, r>>
    BY <1>3 DEF RelayStep, ObserveTerminal, CleanupStatus, Ranks
  <2>2. Returns(p, TRUE) /\ p \in Procs /\ UNCHANGED holder
    BY <1>3, Processes DEF RelayStep, ObserveTerminal, CleanupStatus, Relays
  <2>3. Answers(p, TRUE)
    BY <2>1, <2>2, Callable, Answering DEF Answers
  <2> QED
    BY <1>1, <2>1, <2>2, <2>3 DEF Long
<1>4. CASE LinkOnly
  <2>1. Answers("controller", FALSE) /\ UNCHANGED holder
    BY <1>4, LinkOnlyMoves DEF LinkOnly
  <2>2. OnCall("controller") = <<"child", HeadNode>>
    BY <1>4 DEF LinkOnly
  <2> QED
    BY <1>1, <2>1, <2>2, Processes DEF Long, Ranks
<1>5. CASE Replicate
  BY <1>2, <1>5, Processes DEF Replicate, Ranks, Long
<1>6. CASE ControllerStep /\ ~LinkOnly
  <2>1. \E act : \E r \in Ranks : act \notin Long \cup {"none"} /\ Local("controller", act, r)
    <3>1. CASE Gate \/ AttemptChild \/ Acknowledge \/ Trap
      BY <3>1 DEF Gate, AttemptChild, Acknowledge, Trap, Ranks, Long
    <3>2. ASSUME NEW r \in Ranks, Ask("controller", r)
          PROVE  \E act : act \notin Long \cup {"none"} /\ Local("controller", act, r)
      BY <3>2, OwnAsked DEF RawActs, Long
    <3> QED
      BY <1>6, <3>1, <3>2 DEF ControllerStep
  <2> QED
    BY <1>2, <2>1, Processes
<1> QED
  BY <1>3, <1>4, <1>5, <1>6

(* and so behind every step.                                                *)
LEMMA HoldingKept ==
    ASSUME TypeOK, Resting, Holding, Next
    PROVE  Holding'
<1>1. CASE Starting
  <2>1. UNCHANGED holder
    BY <1>1, StartChanges
  <2>2. ASSUME NEW r \in Ranks, NEW p \in Procs, holder[r].by = p
        PROVE  OnCall(p)' = OnCall(p)
    <3>1. OnCall(p) = <<holder[r].act, r>> /\ holder[r] # Free
      BY <2>2, Processes DEF Holding, Free, Nobody
    <3>2. holder[r].act \in Long
      BY <3>1 DEF Holding, Long
    <3>3. CASE p = "launcher"
      BY <1>1, <3>1, <3>2, <3>3, StartChanges DEF Long
    <3>4. CASE p # "launcher"
      <4>1. status[p] = "on"
        BY <2>2, <3>1, <3>2, Callable DEF Long
      <4>2. at'[p] = at[p] /\ status'[p] = "on"
        BY <1>1, <2>2, <3>4, <4>1, StartChanges
      <4> QED
        BY <2>2, <4>1, <4>2 DEF OnCall
    <3> QED
      BY <3>3, <3>4
  <2> QED
    BY <2>1, <2>2 DEF Holding
<1>2. CASE \E r \in Ranks : ContainerGuard(r) \/ Shorten(r)
  BY <1>2 DEF ContainerGuard, Shorten, Holding, OnCall
<1>3. CASE \E r \in Ranks : Ask(Nobody, r)
  BY <1>3, LateAsks DEF Holding, OnCall
<1> QED
  BY <1>1, <1>2, <1>3, ServeHolding, FinishHolding, FaultHolding, OwnHolding
     DEF Next, Step, LauncherStep, Starting, Callers

(* While the controller is not over nobody holds evidence of its end.       *)
LEMMA Alive ==
    ASSUME PairInv, ~Over
    PROVE  /\ \A p \in Relays : at[p] = 1 /\ absent[p] = FALSE
           /\ \A r \in Ranks : /\ ~Has(r, "closure") /\ ~Has(r, "pair-closure")
                               /\ ~Has(r, "never-started") /\ ~Restores(r)
           /\ \A c \in late : c.call[1] # "closure" /\ c.call[1] # "pair"
           /\ \A r \in Ranks : clean[r] # "none" =>
                 link[r] = "stopped" /\ slot[r] = "stopped" /\ clean[r] = "stopped"
<1>1. \A p \in Relays : at[p] = 1 /\ absent[p] = FALSE
  <2>1. \A p \in Relays : at[p] \in Nat /\ at[p] >= 1 /\ absent[p] \in BOOLEAN
    BY Processes DEF PairInv, TypeOK, Relays
  <2> QED
    BY <2>1 DEF PairInv, Relaying, Acknowledged
<1>2. \A r \in Ranks : ~Has(r, "closure") /\ ~Has(r, "never-started")
  BY DEF PairInv, Closed, Acknowledged
<1>3. ~AllSettled
  BY <1>2 DEF AllSettled, Settled, Ranks
<1>4. \A r \in Ranks : ~Has(r, "pair-closure") /\ ~Restores(r)
  BY <1>3 DEF PairInv, Closed
<1>5. \A c \in late : c.call[1] # "closure" /\ c.call[1] # "pair"
  BY <1>3 DEF PairInv, Queued, Carries
<1>6. ASSUME NEW r \in Ranks, clean[r] # "none"
      PROVE  link[r] = "stopped" /\ slot[r] = "stopped" /\ clean[r] = "stopped"
  <2>1. CleanupVerified(r)
    BY <1>2, <1>6 DEF PairInv, Evident, Accounted, MkdirTooLate
  <2>2. clean[r] \in {"never", "absent", "stopped"}
    BY <1>6 DEF PairInv, TypeOK
  <2> QED
    BY <1>2, <2>1, <2>2 DEF CleanupVerified, SlotOutcome
<1> QED
  BY <1>1, <1>2, <1>4, <1>5, <1>6

(* A cleanup record depends on the root, the link and the slot of its node. *)
LEMMA SameEvidence ==
    ASSUME NEW r \in Ranks, UNCHANGED <<link[r], slot[r], clean[r]>>,
           \A name \in {"never-started", "inventory", "closure"} : Has(r, name)' = Has(r, name)
    PROVE  CleanupVerified(r)' = CleanupVerified(r) /\ Accounted(r)' = Accounted(r)
<1>1. SlotOutcome(r)' = SlotOutcome(r)
  BY DEF SlotOutcome, Declared
<1> QED
  BY <1>1 DEF CleanupVerified, Accounted, MkdirTooLate, Declared

(* What evidence asks of a step: receipts and records stay, records stay    *)
(* accounted for, and a cleanup has declared itself.                        *)
Witnessed(r) ==
    /\ rc[r] \subseteq rc'[r]
    /\ clean[r] # "none" => clean'[r] # "none"
    /\ clean'[r] # "none" => Accounted(r)'
    /\ clean'[r] # "none" \/ holder'[r].act = "cleanup" => Has(r, "recovery-started")'

(* A closure packet, relayed or late, is true.                              *)
LEMMA PacketTrue ==
    ASSUME PairInv, NEW p \in Callers, NEW r \in Ranks, NEW b \in Packets(p, r)
    PROVE  b \in BOOLEAN /\ (b => "ack" \notin shared /\ Over)
<1>1. \E q \in Relays : b = absent[q]
  BY DEF Packets
<1> QED
  BY <1>1 DEF PairInv, TypeOK, Acknowledged

(* A step that at most stops the link of a node keeps its evidence.         *)
LEMMA PlainWitness ==
    ASSUME PairInv, NEW r \in Ranks, rc[r] \subseteq rc'[r], clean'[r] = clean[r],
           clean[r] # "none" =>
              /\ link'[r] \in {link[r], "stopped"} /\ slot'[r] = slot[r]
              /\ \A name \in {"never-started", "inventory", "closure"} :
                    Has(r, name)' = Has(r, name),
           holder'[r].act = "cleanup" =>
              holder[r].act = "cleanup" \/ Has(r, "recovery-started")'
    PROVE  Witnessed(r)
<1>1. Has(r, "recovery-started") => Has(r, "recovery-started")'
  BY DEF Has
<1>2. ASSUME clean[r] # "none"
      PROVE  Accounted(r)'
  <2>1. Accounted(r)
    BY <1>2 DEF PairInv, Evident
  <2>2. UNCHANGED <<link[r], slot[r], clean[r]>>
    BY <1>2, <2>1 DEF CleanupVerified, Accounted, MkdirTooLate
  <2> QED
    BY <1>2, <2>1, <2>2, SameEvidence
<1> QED
  BY <1>1, <1>2 DEF Witnessed, PairInv, Evident

(* Receipts are only added.                                                 *)
LEMMA WritesMore ==
    ASSUME TypeOK, NEW r \in Ranks, NEW names, Writes(r, names) \/ UNCHANGED rc
    PROVE  /\ \A q \in Ranks : rc[q] \subseteq rc'[q]
           /\ \A q \in Ranks : \A name : name \notin names => Has(q, name)' = Has(q, name)
<1>1. rc \in [Ranks -> SUBSET Receipts]
  BY DEF TypeOK
<1>2. ASSUME NEW q \in Ranks
      PROVE  rc'[q] = rc[q] \/ rc'[q] = rc[q] \cup names
  BY <1>1 DEF Writes
<1> QED
  BY <1>2 DEF Has

(* Handlers keep the evidence of both nodes,                                *)
LEMMA ServeWitness ==
    ASSUME PairInv, NEW p \in Callers, NEW r \in Ranks, Serve(p, r)
    PROVE  \A q \in Ranks : Witnessed(q)
<1> USE DEF PairInv
<1>1. ASSUME NEW act, Handler(p, act, r)
      PROVE  UNCHANGED <<holder, shared, absent>>
  BY <1>1 DEF Handler
<1>2. ASSUME NEW names, Writes(r, names) \/ UNCHANGED rc, UNCHANGED <<link, slot, clean>>,
             names \cap {"never-started", "inventory", "closure"} = {},
             \A q \in Ranks : holder'[q].act = "cleanup" =>
                 holder[q].act = "cleanup" \/ Has(q, "recovery-started")'
      PROVE  \A q \in Ranks : Witnessed(q)
  <2>1. \A q \in Ranks : rc[q] \subseteq rc'[q]
    BY <1>2, WritesMore
  <2>2. \A q \in Ranks : \A name \in {"never-started", "inventory", "closure"} :
           Has(q, name)' = Has(q, name)
    BY <1>2, WritesMore
  <2> QED
    BY <1>2, <2>1, <2>2, PlainWitness
<1>3. CASE AcceptControllerStart(p, r)
  BY <1>1, <1>2, <1>3 DEF AcceptControllerStart
<1>4. CASE DirectReady(p, r)
  BY <1>1, <1>2, <1>4 DEF DirectReady
<1>5. CASE AcceptPairClosure(p, r)
  BY <1>1, <1>2, <1>5 DEF AcceptPairClosure
<1>6. CASE Disarm(p, r)
  BY <1>1, <1>2, <1>6 DEF Disarm
<1>7. ASSUME NEW act, Begins(p, act, r), act # "cleanup"
      PROVE  \A q \in Ranks : holder'[q].act = "cleanup" => holder[q].act = "cleanup"
  BY <1>7 DEF Begins, TypeOK
<1>8. CASE BeginEnterIdle(p, r)
  <2>1. UNCHANGED rc \/ Writes(r, {"transition-started"})
    BY <1>8 DEF BeginEnterIdle
  <2>2. Begins(p, "enter", r) /\ UNCHANGED <<link, slot, clean>>
    BY <1>8 DEF BeginEnterIdle
  <2>3. \A q \in Ranks : holder'[q].act = "cleanup" => holder[q].act = "cleanup"
    BY <1>7, <2>2
  <2>4. {"transition-started"} \cap {"never-started", "inventory", "closure"} = {}
    OBVIOUS
  <2> QED
    BY <1>2, <2>1, <2>2, <2>3, <2>4
<1>9. CASE BeginInstallFirewall(p, r)
  <2>1. UNCHANGED rc \/ Writes(r, {"firewall-insert"})
    BY <1>9 DEF BeginInstallFirewall
  <2>2. Begins(p, "firewall", r) /\ UNCHANGED <<link, slot, clean>>
    BY <1>9 DEF BeginInstallFirewall
  <2>3. \A q \in Ranks : holder'[q].act = "cleanup" => holder[q].act = "cleanup"
    BY <1>7, <2>2
  <2>4. {"firewall-insert"} \cap {"never-started", "inventory", "closure"} = {}
    OBVIOUS
  <2> QED
    BY <1>2, <2>1, <2>2, <2>3, <2>4
<1>10. CASE BeginRestore(p, r)
  <2>1. UNCHANGED rc \/ Writes(r, {"restore-started"})
    BY <1>10 DEF BeginRestore
  <2>2. Begins(p, "restore", r) /\ UNCHANGED <<link, slot, clean>>
    BY <1>10 DEF BeginRestore
  <2>3. \A q \in Ranks : holder'[q].act = "cleanup" => holder[q].act = "cleanup"
    BY <1>7, <2>2
  <2>4. {"restore-started"} \cap {"never-started", "inventory", "closure"} = {}
    OBVIOUS
  <2> QED
    BY <1>2, <2>1, <2>2, <2>3, <2>4
<1>11. CASE BeginCleanup(p, r)
  <2>1. \A q \in Ranks : q # r => holder'[q] = holder[q]
    BY <1>11 DEF BeginCleanup, Begins, TypeOK
  <2>2. Has(r, "recovery-started")'
    BY <1>11 DEF BeginCleanup, Writes, Has, TypeOK
  <2> QED
    BY <1>2, <1>11, <2>1, <2>2 DEF BeginCleanup
<1>12. CASE AcceptInventory(p, r)
  <2>1. clean[r] = "none"
    BY <1>12 DEF AcceptInventory, MayDeclare, Without, Evident, Has
  <2>2. Writes(r, {"inventory"}) /\ UNCHANGED <<holder, link, slot, clean>>
    BY <1>1, <1>12 DEF AcceptInventory
  <2>3. \A q \in Ranks : q # r => rc'[q] = rc[q]
    BY <2>2 DEF Writes, TypeOK
  <2>4. \A q \in Ranks : rc[q] \subseteq rc'[q]
    BY <2>2, WritesMore
  <2> QED
    BY <2>1, <2>2, <2>3, <2>4, PlainWitness DEF Has
<1>13. CASE AcceptControllerClosure(p, r)
  <2>1. PICK b \in Packets(p, r) : MayClose(r, b) /\ Writes(r, Closing(b))
    BY <1>13 DEF AcceptControllerClosure
  <2>2. b \in BOOLEAN /\ (b => "ack" \notin shared)
    BY <2>1, PacketTrue
  <2>3. UNCHANGED <<holder, link, slot, clean>>
    BY <1>1, <1>13 DEF AcceptControllerClosure
  <2>4. \A q \in Ranks : rc[q] \subseteq rc'[q] /\ (q # r => rc'[q] = rc[q])
    BY <2>1 DEF Writes, TypeOK
  <2>5. ASSUME clean[r] # "none"
        PROVE  Accounted(r)'
    <3>1. Accounted(r)
      BY <2>5 DEF Evident
    <3>2. Has(r, "inventory")' = Has(r, "inventory") /\ Has(r, "closure")'
      BY <2>1 DEF Writes, Has, Closing, TypeOK
    <3>3. Has(r, "never-started")' = (Has(r, "never-started") \/ b)
      BY <2>1, <2>2 DEF Writes, Has, Closing, TypeOK
    <3>4. CASE Has(r, "never-started")
      BY <2>3, <3>1, <3>3, <3>4 DEF CleanupVerified, SlotOutcome, Accounted, MkdirTooLate, Declared
    <3>5. CASE ~Has(r, "never-started") /\ Has(r, "closure")
      <4>1. ~b
        BY <2>1, <2>2, <3>5 DEF MayClose
      <4> QED
        BY <2>3, <3>1, <3>2, <3>3, <3>5, <4>1 DEF CleanupVerified, SlotOutcome, Declared, Accounted,
                                                  MkdirTooLate
    <3>6. CASE ~Has(r, "never-started") /\ ~Has(r, "closure")
      <4>1. clean[r] = "stopped" /\ slot[r] = "stopped"
        BY <2>5, <3>1, <3>6 DEF CleanupVerified, SlotOutcome, TypeOK, Accounted, MkdirTooLate
      <4>2. ~b
        BY <2>2, <4>1 DEF Acknowledged
      <4> QED
        BY <2>3, <3>1, <3>2, <3>3, <3>6, <4>1, <4>2 DEF CleanupVerified, SlotOutcome, Declared,
                                                        Accounted, MkdirTooLate
    <3> QED
      BY <3>4, <3>5, <3>6
  <2>6. Witnessed(r)
    BY <2>3, <2>4, <2>5 DEF Witnessed, Evident, Has
  <2>7. \A q \in Ranks : q # r => Witnessed(q)
    BY <2>3, <2>4, PlainWitness DEF Has
  <2> QED
    BY <2>6, <2>7
<1> QED
  BY <1>3, <1>4, <1>5, <1>6, <1>8, <1>9, <1>10, <1>11, <1>12, <1>13 DEF Serve

(* so do the long handlers' ends,                                           *)
LEMMA FinishWitness ==
    ASSUME PairInv, NEW r \in Ranks, Finish(r)
    PROVE  \A q \in Ranks : Witnessed(q)
<1> USE DEF PairInv
<1>1. ASSUME NEW act, NEW ok, Finishes(act, r, ok)
      PROVE  \A q \in Ranks : holder'[q].act = "cleanup" => holder[q].act = "cleanup"
  BY <1>1 DEF Finishes, Free, TypeOK
<1>2. ASSUME NEW names, Writes(r, names), UNCHANGED <<link, slot, clean>>,
             names \cap {"never-started", "inventory", "closure"} = {},
             \A q \in Ranks : holder'[q].act = "cleanup" => holder[q].act = "cleanup"
      PROVE  \A q \in Ranks : Witnessed(q)
  <2>1. \A q \in Ranks : rc[q] \subseteq rc'[q]
    BY <1>2, WritesMore
  <2>2. \A q \in Ranks : \A name \in {"never-started", "inventory", "closure"} :
           Has(q, name)' = Has(q, name)
    BY <1>2, WritesMore
  <2> QED
    BY <1>2, <2>1, <2>2, PlainWitness
<1>3. CASE EnterIdle(r)
  BY <1>1, <1>2, <1>3 DEF EnterIdle
<1>4. CASE InstallFirewall(r)
  BY <1>1, <1>2, <1>4 DEF InstallFirewall
<1>5. CASE Restore(r)
  <2>1. ASSUME NEW names, Writes(r, names),
               names = (IF Has(r, "restore-started") THEN {"restored"} ELSE {"unchanged"})
                          \cup (IF RulesFound(r) THEN {"firewall-remove"} ELSE {})
        PROVE  \A q \in Ranks : Witnessed(q)
    <3>1. names \cap {"never-started", "inventory", "closure"} = {}
      BY <2>1
    <3> QED
      BY <1>1, <1>2, <1>5, <2>1, <3>1 DEF Restore
  <2> QED
    BY <1>5, <2>1 DEF Restore
<1>6. CASE CleanupResources(r)
  <2>1. Finishes("cleanup", r, Proved(r)) /\ UNCHANGED rc
    BY <1>6 DEF CleanupResources
  <2>2. \A q \in Ranks : q # r =>
           link'[q] = link[q] /\ slot'[q] = slot[q] /\ clean'[q] = clean[q]
    BY <1>6 DEF CleanupResources, TypeOK
  <2>3. \A q \in Ranks : q # r => Witnessed(q)
    BY <1>1, <2>1, <2>2, PlainWitness DEF Has
  <2>4. /\ link'[r] = "stopped"
        /\ slot'[r] = IF Declared(r) /\ slot[r] \in Stoppable THEN "stopped" ELSE slot[r]
        /\ clean'[r] = IF Proved(r) THEN SlotOutcome(r) ELSE clean[r]
    BY <1>6 DEF CleanupResources, TypeOK
  <2>5. Has(r, "recovery-started") /\ holder'[r] = Free
    BY <2>1 DEF Finishes, Evident, TypeOK
  <2>6. clean[r] # "none" => Proved(r) \/ MkdirTooLate(r)
    <3>1. clean[r] # "unproved"
      BY DEF TypeOK
    <3> QED
      BY <3>1 DEF Evident, Accounted, CleanupVerified, Proved
  <2>7. ASSUME Proved(r)
        PROVE  CleanupVerified(r)'
    <3>1. clean'[r] = SlotOutcome(r)
      BY <2>4, <2>7
    <3>2. \A name : Has(r, name)' = Has(r, name)
      BY <2>1 DEF Has
    <3>3. SlotOutcome(r)' = SlotOutcome(r)
      BY <2>4, <3>2 DEF SlotOutcome, Declared, Stoppable
    <3>4. SlotOutcome(r) # "none"
      BY DEF SlotOutcome
    <3>5. SlotOutcome(r) = "stopped" => slot'[r] = "stopped"
      BY <2>4 DEF SlotOutcome
    <3> QED
      BY <2>4, <3>1, <3>3, <3>4, <3>5 DEF CleanupVerified
  <2>8. ASSUME ~Proved(r), MkdirTooLate(r)
        PROVE  MkdirTooLate(r)' /\ clean'[r] # "none"
    <3>1. \A name : Has(r, name)' = Has(r, name)
      BY <2>1 DEF Has
    <3> QED
      BY <2>4, <2>8, <3>1 DEF MkdirTooLate, Declared, Stoppable
  <2>9. Witnessed(r)
    <3>1. clean[r] # "none" => clean'[r] # "none"
      BY <2>6, <2>7, <2>8 DEF CleanupVerified
    <3>2. clean'[r] # "none" => Accounted(r)'
      BY <2>4, <2>6, <2>7, <2>8 DEF Accounted
    <3> QED
      BY <2>1, <2>5, <3>1, <3>2 DEF Witnessed, Free, Has
  <2> QED
    BY <2>3, <2>9
<1> QED
  BY <1>3, <1>4, <1>5, <1>6 DEF Finish

(* refusals, time-outs and deaths,                                          *)
LEMMA FaultWitness ==
    ASSUME PairInv, NEW p \in Procs, Refuse(p) \/ TimeOut(p) \/ Die(p)
    PROVE  \A r \in Ranks : Witnessed(r)
<1> USE DEF PairInv
<1>1. CASE Refuse(p)
  <2>1. UNCHANGED <<rc, link, slot, clean, holder>>
    BY <1>1 DEF Refuse, node
  <2> QED
    BY <2>1, PlainWitness DEF Has
<1>2. CASE Leaves(p)
  <2>1. \A r \in Ranks : holder'[r].act = "cleanup" => holder[r].act = "cleanup"
    BY <1>2 DEF Leaves, Free, TypeOK
  <2>2. \A r \in Ranks : link'[r] \in {link[r], "stopped"}
    BY <1>2 DEF Leaves, TypeOK
  <2>3. UNCHANGED <<slot, clean>> /\ (UNCHANGED rc \/ Writes(HeadNode, {"firewall-remove"}))
    BY <1>2 DEF Leaves
  <2>4. HeadNode \in Ranks
    BY DEF Ranks
  <2>5. /\ \A r \in Ranks : rc[r] \subseteq rc'[r]
        /\ \A r \in Ranks : \A name \in {"never-started", "inventory", "closure"} :
               Has(r, name)' = Has(r, name)
    <3>1. CASE UNCHANGED rc
      BY <3>1 DEF Has
    <3>2. CASE Writes(HeadNode, {"firewall-remove"})
      BY <2>4, <3>2, WritesMore
    <3> QED
      BY <2>3, <3>1, <3>2
  <2> QED
    BY <2>1, <2>2, <2>3, <2>5, PlainWitness
<1> QED
  BY <1>1, <1>2 DEF TimeOut, Die

(* What is stopped is not started again, whoever asks.                      *)
LEMMA AskStays ==
    ASSUME TypeOK, NEW p \in {"controller", Nobody}, NEW r \in Ranks, Ask(p, r)
    PROVE  \A q \in Ranks : /\ link[q] = "stopped" => link'[q] = "stopped"
                            /\ slot[q] = "stopped" => slot'[q] = "stopped"
<1> USE DEF TypeOK
<1>1. CASE Profile(p, r) \/ RemoveProfile(p, r)
  BY <1>1 DEF Profile, RemoveProfile
<1>2. CASE StartLink(p, r) \/ StopLink(p, r)
  BY <1>2 DEF StartLink, StopLink
<1>3. CASE StageSlot(p, r) \/ ArmSlot(p, r) \/ StartSlot(p, r)
  <2>1. slot[r] # "stopped" /\ \E s : slot' = [slot EXCEPT ![r] = s]
    BY <1>3 DEF StageSlot, ArmSlot, StartSlot
  <2>2. UNCHANGED link
    BY <1>3 DEF StageSlot, ArmSlot, StartSlot
  <2> QED
    BY <2>1, <2>2
<1>4. CASE StopSlot(p, r)
  BY <1>4 DEF StopSlot
<1> QED
  BY <1>1, <1>2, <1>3, <1>4 DEF Ask

(* the controller's own steps, which nobody has yet evidence about,         *)
LEMMA ControllerWitness ==
    ASSUME PairInv, ControllerStep
    PROVE  ~Over /\ \A r \in Ranks : Witnessed(r)
<1> USE DEF PairInv
<1>1. status["controller"] = "on"
  <2>1. \E act : \E r \in Ranks : act # "none" /\ OnCall("controller") = <<act, r>>
    <3>1. CASE Gate \/ AttemptChild \/ LinkOnly \/ Acknowledge \/ Trap
      BY <3>1 DEF Gate, AttemptChild, LinkOnly, Acknowledge, Trap, Local, Ranks
    <3>2. ASSUME NEW r \in Ranks, Ask("controller", r)
          PROVE  \E act : act # "none" /\ OnCall("controller") = <<act, r>>
      BY <3>2, OwnAsked DEF RawActs, Local
    <3> QED
      BY <3>1, <3>2 DEF ControllerStep
  <2> QED
    BY <2>1, Callable, Processes
<1>2. ~Over
  BY <1>1 DEF Over
<1>3. \A r \in Ranks : clean[r] # "none" => link[r] = "stopped" /\ slot[r] = "stopped"
  BY <1>2, Alive
<1>4. ASSUME UNCHANGED <<rc, clean, holder>>,
             \A r \in Ranks : link[r] = "stopped" => link'[r] = "stopped",
             \A r \in Ranks : slot[r] = "stopped" => slot'[r] = "stopped"
      PROVE  \A r \in Ranks : Witnessed(r)
  BY <1>3, <1>4, PlainWitness DEF Has
<1>5. CASE Gate \/ AttemptChild \/ LinkOnly \/ Acknowledge
  <2>1. UNCHANGED <<rc, link, slot, clean, holder>>
    BY <1>5 DEF Gate, AttemptChild, LinkOnly, Acknowledge, Local, node
  <2> QED
    BY <1>2, <2>1, PlainWitness DEF Has
<1>6. CASE Trap
  <2>1. \A r \in Ranks : link'[r] \in {link[r], "stopped"}
    BY <1>6 DEF Trap, TypeOK
  <2> QED
    <3>1. UNCHANGED <<rc, slot, clean, holder>>
      BY <1>6 DEF Trap, Local
    <3> QED
      BY <1>2, <2>1, <3>1, PlainWitness DEF Has
<1>7. ASSUME NEW r \in Ranks, Ask("controller", r)
      PROVE  \A q \in Ranks : Witnessed(q)
  <2>1. UNCHANGED <<rc, clean, holder>>
    BY <1>7, OwnAsked DEF Local
  <2> QED
    BY <1>4, <1>7, <2>1, AskStays
<1>11. \A r \in Ranks : Witnessed(r)
  BY <1>5, <1>6, <1>7 DEF ControllerStep
<1> QED
  BY <1>2, <1>11

(* and what it asked for and no longer waits for.                           *)
LEMMA LateWitness ==
    ASSUME PairInv, NEW r \in Ranks, Ask(Nobody, r)
    PROVE  \A q \in Ranks : Witnessed(q)
<1> USE DEF PairInv
<1>1. UNCHANGED <<rc, clean, holder>> /\ \A q \in Ranks : \A name : Has(q, name)' = Has(q, name)
  BY LateAsks DEF Has
<1>2. ASSUME NEW act \in RawActs, Raw(Nobody, act, r)
      PROVE  \E c \in late : c.call = <<act, r>> /\ Carries(c)
  BY <1>2 DEF Raw, Calls, Delayed, Queued
<1>3. ASSUME NEW q \in Ranks, clean[q] # "none"
      PROVE  link[q] = "stopped" /\ clean[q] \in {"never", "absent", "stopped"} /\ Accounted(q)
             /\ (clean[q] = "never" => slot[q] = "absent" /\ "ack" \notin shared)
             /\ (clean[q] = "stopped" => slot[q] = "stopped")
             /\ (clean[q] = "absent" => slot[q] \in {"absent", "partial"} /\ Declared(q) /\ Has(q, "closure"))
  <2>1. Accounted(q) /\ clean[q] \in {"never", "absent", "stopped"}
    BY <1>3 DEF Evident, TypeOK
  <2>2. CASE MkdirTooLate(q)
    BY <2>1, <2>2 DEF MkdirTooLate
  <2>3. CASE CleanupVerified(q)
    <3>1. clean[q] = "never" => Has(q, "never-started")
      BY <2>3 DEF CleanupVerified, SlotOutcome
    <3> QED
      BY <2>1, <2>3, <3>1 DEF CleanupVerified, SlotOutcome, Acknowledged
  <2> QED
    BY <2>1, <2>2, <2>3 DEF Accounted
<1>5. \A q \in Ranks : link[q] = "stopped" => link'[q] = "stopped"
  BY AskStays
<1>11. ASSUME NEW q \in Ranks, clean[q] # "none" => slot'[q] = slot[q]
       PROVE  Witnessed(q)
  <2>1. clean[q] # "none" => link'[q] \in {link[q], "stopped"} /\ slot'[q] = slot[q]
    BY <1>3, <1>5, <1>11
  <2>2. rc[q] \subseteq rc'[q] /\ clean'[q] = clean[q] /\ holder'[q].act = holder[q].act
    BY <1>1
  <2> QED
    BY <1>1, <2>1, <2>2, PlainWitness
<1>4. ASSUME \A q \in Ranks : clean[q] # "none" => slot'[q] = slot[q]
      PROVE  \A q \in Ranks : Witnessed(q)
  BY <1>4, <1>11
<1>6. CASE Profile(Nobody, r) \/ RemoveProfile(Nobody, r) \/ StartLink(Nobody, r) \/ StopLink(Nobody, r)
  BY <1>4, <1>6 DEF Profile, RemoveProfile, StartLink, StopLink
<1>7. CASE StageSlot(Nobody, r)
  <2>1. "ack" \in shared /\ slot[r] = "absent" /\ UNCHANGED link
        /\ slot' = [slot EXCEPT ![r] = "partial"]
    BY <1>2, <1>7 DEF StageSlot, RawActs, Carries
  <2>2. \A q \in Ranks \ {r} : Witnessed(q)
    BY <1>11, <2>1 DEF TypeOK
  <2>3. ASSUME clean[r] = "none" PROVE Witnessed(r)
    BY <1>11, <2>3
  <2>4. ASSUME clean[r] # "none" PROVE Witnessed(r)
    <3>1. clean[r] = "absent" /\ link[r] = "stopped" /\ Declared(r) /\ Has(r, "closure")
      BY <1>3, <2>1, <2>4
    <3>2. slot'[r] = "partial"
      BY <2>1 DEF TypeOK
    <3>3. MkdirTooLate(r)'
      BY <1>1, <2>1, <3>1, <3>2 DEF MkdirTooLate, Declared, Has
    <3> QED
      <4>1. clean'[r] = clean[r] /\ rc'[r] = rc[r] /\ holder'[r] = holder[r]
        BY <1>1
      <4>2. Has(r, "recovery-started")'
        BY <1>1, <2>4 DEF Evident
      <4> QED
        BY <2>4, <3>3, <4>1, <4>2 DEF Witnessed, Accounted
  <2> QED
    BY <2>2, <2>3, <2>4
<1>8. CASE ArmSlot(Nobody, r)
  <2>1. r = WorkerNode /\ slot[r] = "partial" /\ clean[r] # "absent" /\ UNCHANGED link
        /\ slot' = [slot EXCEPT ![r] = "staged"]
    BY <1>2, <1>8 DEF ArmSlot, RawActs, Carries
  <2>2. clean[r] = "none"
    BY <1>3, <2>1
  <2> QED
    BY <1>4, <2>1, <2>2 DEF TypeOK
<1>9. CASE StartSlot(Nobody, r)
  <2>1. slot[r] = "staged" /\ UNCHANGED link /\ slot' = [slot EXCEPT ![r] = "up"]
    BY <1>9 DEF StartSlot
  <2>2. clean[r] = "none"
    BY <1>3, <2>1
  <2> QED
    BY <1>4, <2>1, <2>2 DEF TypeOK
<1>10. CASE StopSlot(Nobody, r)
  <2>1. UNCHANGED link /\ slot' \in {slot} \cup (IF slot[r] \in Stoppable
                                             THEN {[slot EXCEPT ![r] = "stopped"]} ELSE {})
    BY <1>10 DEF StopSlot
  <2>2. clean[r] # "none" /\ slot[r] \in Stoppable => slot[r] = "stopped"
    BY <1>3 DEF Stoppable
  <2> QED
    BY <1>4, <2>1, <2>2 DEF TypeOK
<1> QED
  BY <1>6, <1>7, <1>8, <1>9, <1>10 DEF Ask

(* Every step keeps the evidence of both nodes.                             *)
LEMMA EvidenceKept ==
    ASSUME PairInv, Next
    PROVE  \A r \in Ranks : Witnessed(r)
<1> USE DEF PairInv
<1>1. ASSUME NEW p \in Relays, RelayStep(p)
      PROVE  \A r \in Ranks : Witnessed(r)
  <2>1. UNCHANGED <<rc, link, slot, clean, holder>>
    BY <1>1 DEF RelayStep, ObserveTerminal, CleanupStatus, node
  <2> QED
    BY <2>1, PlainWitness DEF Has
<1>2. CASE Starting
  <2>1. UNCHANGED <<rc, link, slot, clean, holder>>
    BY <1>2, StartChanges
  <2> QED
    BY <2>1, PlainWitness DEF Has
<1>3. CASE Replicate
  <2>1. UNCHANGED <<rc, link, slot, clean, holder>>
    BY <1>3 DEF Replicate, Local, node
  <2> QED
    BY <2>1, PlainWitness DEF Has
<1>4. ASSUME NEW r \in Ranks, ContainerGuard(r)
      PROVE  \A q \in Ranks : Witnessed(q)
  <2>1. slot[r] \in {"staged", "up"} /\ UNCHANGED <<rc, link, clean, holder>>
        /\ \A q \in Ranks : q # r => slot'[q] = slot[q]
    BY <1>4 DEF ContainerGuard, TypeOK
  <2>2. clean[r] = "none"
    <3>1. "ack" \in shared /\ ~Has(r, "never-started")
      BY <2>1 DEF Acknowledged
    <3> QED
      BY <2>1, <3>1 DEF Evident, Accounted, MkdirTooLate, CleanupVerified, SlotOutcome, TypeOK
  <2> QED
    BY <2>1, <2>2, PlainWitness DEF Has
<1>5. ASSUME NEW r \in Ranks, Shorten(r)
      PROVE  \A q \in Ranks : Witnessed(q)
  <2>1. UNCHANGED <<rc, link, slot, clean, holder>>
    BY <1>5 DEF Shorten
  <2> QED
    BY <2>1, PlainWitness DEF Has
<1> QED
  BY <1>1, <1>2, <1>3, <1>4, <1>5, ServeWitness, FinishWitness, FaultWitness, ControllerWitness,
     LateWitness DEF Next, Step, LauncherStep, Starting, Callers

(* A settled node stays settled.                                            *)
LEMMA SettledKept ==
    ASSUME PairInv, Next
    PROVE  /\ \A r \in Ranks : Settled(r) => Settled(r)'
           /\ AllSettled => AllSettled'
           /\ Over => Over'
<1>1. \A r \in Ranks : Witnessed(r)
  BY EvidenceKept
<1>2. \A r \in Ranks : Settled(r) => Settled(r)'
  BY <1>1 DEF Witnessed, Settled, Has
<1>3. Over => Over'
  BY RestingKept DEF PairInv
<1> QED
  BY <1>2, <1>3 DEF AllSettled

(* A relay goes on where its call returned, and only its first call and its *)
(* queries are under no lock.                                               *)
LEMMA RelayMoves ==
    ASSUME PairInv, Next, NEW p \in Relays, at'[p] # at[p], at'[p] >= 2
    PROVE  /\ at'[p] = at[p] + 1 /\ status[p] = "on"
           /\ OnCall(p)[1] \in LockActs \/ RelayStep(p)
<1>1. p \in Procs /\ p # "launcher" /\ p # "controller"
  BY Processes DEF Relays
<1>2. TypeOK /\ Resting /\ Holding
  BY DEF PairInv
<1>3. ~Starting
  BY <1>1, <1>2, StartChanges
<1>4. PICK q \in Procs, ok \in BOOLEAN :
         /\ Answers(q, ok)
         /\ \/ ~ok
            \/ OnCall(q)[1] \in LockActs
            \/ q = "launcher"
            \/ q = "controller" /\ ControllerStep
            \/ q \in Relays /\ RelayStep(q)
  BY <1>2, <1>3, NextMoves
<1>5. q = p
  BY <1>1, <1>4 DEF Answers, Moves
<1>6. at'[p] = at[p] + 1 /\ (ok \/ TriesBoth(p)) /\ status[p] = "on"
  BY <1>1, <1>4, <1>5 DEF Answers, Moves
<1>7. TriesBoth(p) => OnCall(p)[1] \in LockActs
  BY DEF TriesBoth, LockActs
<1> QED
  BY <1>1, <1>4, <1>5, <1>6, <1>7

(* What the relays' own queries have seen.                                  *)
LEMMA RelaySteps ==
    ASSUME NEW p, RelayStep(p)
    PROVE  /\ OnCall(p)[1] = "terminal" => Over
           /\ \A r \in Ranks : OnCall(p) = <<"status", r>> => Settled(r)
<1>1. ASSUME ObserveTerminal(p)
      PROVE  Over /\ OnCall(p)[1] = "terminal"
  BY <1>1 DEF ObserveTerminal, ControllerTerminal, Over
<1>2. ASSUME NEW r \in Ranks, CleanupStatus(p, r)
      PROVE  Settled(r) /\ OnCall(p)[1] = "status" /\ OnCall(p)[2] = r
  BY <1>2 DEF CleanupStatus, Settled, Accounted, CleanupVerified
<1>3. \A r \in Ranks : OnCall(p) = <<"status", r>> => OnCall(p)[1] = "status" /\ OnCall(p)[2] = r
  OBVIOUS
<1> QED
  BY <1>1, <1>2, <1>3 DEF RelayStep

(* A relay's position is earned.                                            *)
LEMMA RelayingKept ==
    ASSUME PairInv, Next
    PROVE  Relaying'
<1> SUFFICES ASSUME NEW p \in Relays
             PROVE  /\ at'[p] >= 2 => Over'
                    /\ at'[p] >= 7 => Settled(HeadNode)'
                    /\ at'[p] >= 8 => Settled(WorkerNode)'
  BY DEF Relaying
<1>1. TypeOK /\ Relaying
  BY DEF PairInv
<1>2. at[p] \in Nat /\ at[p] >= 1 /\ HeadNode \in Ranks /\ WorkerNode \in Ranks
  BY <1>1, Processes DEF TypeOK, Relays, Ranks
<1>3. CASE at'[p] = at[p]
  BY <1>1, <1>2, <1>3, SettledKept DEF Relaying
<1>4. CASE at'[p] # at[p] /\ at'[p] >= 2
  <2>1. /\ at'[p] = at[p] + 1 /\ status[p] = "on"
        /\ OnCall(p)[1] \in LockActs \/ RelayStep(p)
    BY <1>4, RelayMoves
  <2>2. ASSUME at[p] = 1
        PROVE  Over
    <3>1. OnCall(p)[1] = "terminal"
      BY <1>1, <2>1, <2>2, OnFinalize
    <3>2. RelayStep(p)
      BY <2>1, <3>1 DEF LockActs
    <3> QED
      BY <1>2, <3>1, <3>2, RelaySteps
  <2>3. ASSUME at[p] = 6
        PROVE  Settled(HeadNode)
    <3>1. OnCall(p) = <<"status", HeadNode>>
      BY <1>1, <2>1, <2>3, OnFinalize
    <3>2. RelayStep(p)
      BY <2>1, <3>1 DEF LockActs
    <3> QED
      BY <1>2, <3>1, <3>2, RelaySteps
  <2>4. ASSUME at[p] = 7
        PROVE  Settled(WorkerNode)
    <3>1. OnCall(p) = <<"status", WorkerNode>>
      BY <1>1, <2>1, <2>4, OnFinalize
    <3>2. RelayStep(p)
      BY <2>1, <3>1 DEF LockActs
    <3> QED
      BY <1>2, <3>1, <3>2, RelaySteps
  <2>5. /\ at[p] >= 2 => Over
        /\ at[p] >= 7 => Settled(HeadNode)
        /\ at[p] >= 8 => Settled(WorkerNode)
    BY <1>1 DEF Relaying
  <2>6. /\ at[p] = 1 \/ at[p] >= 2
        /\ at'[p] >= 7 => at[p] = 6 \/ at[p] >= 7
        /\ at'[p] >= 8 => at[p] = 7 \/ at[p] >= 8
    BY <1>2, <2>1
  <2> QED
    BY <1>2, <2>2, <2>3, <2>4, <2>5, <2>6, SettledKept
<1>5. CASE ~(at'[p] >= 2)
  <2>1. at'[p] \in Nat
    BY <1>1, Processes, StepTyped DEF TypeOK, Relays, Keeps, PairInv
  <2> QED
    BY <1>5, <2>1
<1> QED
  BY <1>3, <1>4, <1>5

(* Every late call was its caller's.                                        *)
LEMMA LateLeft ==
    ASSUME TypeOK, Next, NEW c \in late', c \notin late
    PROVE  \E p \in Procs : /\ TimeOut(p) \/ Die(p)
                            /\ c.call = OnCall(p) /\ c.from = p /\ status[p] = "on"
                            /\ c.call[1] \in DelayedActs[lifecycle]
                            /\ c.call[2] = WorkerNode \/ c.call[1] = "inventory"
<1>1. ASSUME NEW p \in Procs, TimeOut(p) \/ Die(p)
      PROVE  /\ c.call = OnCall(p) /\ c.from = p /\ status[p] = "on"
             /\ c.call[1] \in DelayedActs[lifecycle]
             /\ c.call[2] = WorkerNode \/ c.call[1] = "inventory"
  <2>1. Leaves(p)
    BY <1>1 DEF TimeOut, Die
  <2>2. /\ late' = late \cup {[call |-> OnCall(p), from |-> p]}
        /\ OnCall(p)[1] \in DelayedActs[lifecycle]
        /\ OnCall(p)[2] = WorkerNode \/ OnCall(p)[1] = "inventory"
    BY <2>1 DEF Leaves
  <2>3. status[p] = "on"
    BY <1>1, FaultMoves DEF Answers
  <2> QED
    BY <2>2, <2>3
<1>2. ASSUME NEW p \in Callers, NEW r \in Ranks, Serve(p, r)
      PROVE  FALSE
  <2>1. \A act : Handler(p, act, r) \/ Begins(p, act, r) => late' \subseteq late
    BY DEF Handler, Begins, Begun
  <2>2. CASE AcceptControllerStart(p, r) \/ DirectReady(p, r) \/ AcceptInventory(p, r)
    BY <2>1, <2>2 DEF AcceptControllerStart, DirectReady, AcceptInventory
  <2>3. CASE AcceptControllerClosure(p, r) \/ AcceptPairClosure(p, r) \/ Disarm(p, r)
    BY <2>1, <2>3 DEF AcceptControllerClosure, AcceptPairClosure, Disarm
  <2>4. CASE BeginEnterIdle(p, r) \/ BeginInstallFirewall(p, r) \/ BeginCleanup(p, r) \/ BeginRestore(p, r)
    BY <2>1, <2>4 DEF BeginEnterIdle, BeginInstallFirewall, BeginCleanup, BeginRestore
  <2> QED
    BY <1>2, <2>2, <2>3, <2>4 DEF Serve
<1>3. ASSUME NEW r \in Ranks, Finish(r) \/ ContainerGuard(r) \/ Shorten(r) \/ Fire(r)
      PROVE  FALSE
  BY <1>3 DEF Finish, EnterIdle, InstallFirewall, CleanupResources, Restore, Finishes,
              ContainerGuard, Shorten, Fire
<1>4. CASE LauncherStep
  BY <1>4 DEF LauncherStep, Submit, Replicate, Await, Local
<1>5. CASE ControllerStep
  <2>1. CASE Gate \/ AttemptChild \/ LinkOnly \/ Acknowledge \/ Trap
    BY <2>1 DEF Gate, AttemptChild, LinkOnly, Acknowledge, Trap, Local
  <2> QED
    BY <1>5, <2>1, OwnAsked DEF ControllerStep, Local
<1>6. ASSUME NEW p \in Procs, Refuse(p) \/ RelayStep(p)
      PROVE  FALSE
  BY <1>6 DEF Refuse, RelayStep, ObserveTerminal, CleanupStatus
<1>7. ASSUME NEW r \in Ranks, Ask(Nobody, r)
      PROVE  FALSE
  BY <1>7, LateAsks
<1> QED
  BY <1>1, <1>2, <1>3, <1>4, <1>5, <1>6, <1>7 DEF Next, Step, Callers

(* Who writes the receipts that evidence consists of, and begins a restore. *)
LEMMA Writers ==
    ASSUME TypeOK, Next, NEW r \in Ranks, NEW name, Has(r, name)', ~Has(r, name)
    PROVE  /\ name \in {"closure", "never-started"} =>
                 \E p \in Callers : AcceptControllerClosure(p, r)
           /\ name = "pair-closure" => \E p \in Callers : AcceptPairClosure(p, r)
           /\ name = "restore-started" => \E p \in Callers : BeginRestore(p, r)
           /\ name \in {"restored", "unchanged"} => Restore(r)
<1>1. ASSUME NEW q \in Ranks, NEW names, Writes(q, names)
      PROVE  q = r /\ name \in names
  BY <1>1 DEF Writes, Has, TypeOK
<1>2. ASSUME UNCHANGED rc
      PROVE  FALSE
  BY <1>2 DEF Has
<1>3. ASSUME NEW p \in Callers, NEW q \in Ranks, Serve(p, q)
      PROVE  \/ name \in {"executing", "transition-started", "direct-ready", "firewall-insert",
                          "inventory", "recovery-started", "disarmed"}
             \/ name \in {"launch-closed", "closure", "never-started"} /\ AcceptControllerClosure(p, r)
             \/ name = "pair-closure" /\ AcceptPairClosure(p, r)
             \/ name = "restore-started" /\ BeginRestore(p, r)
  <2>1. CASE AcceptControllerStart(p, q) \/ DirectReady(p, q) \/ AcceptInventory(p, q)
    BY <1>1, <2>1 DEF AcceptControllerStart, DirectReady, AcceptInventory
  <2>2. CASE AcceptControllerClosure(p, q)
    <3>1. PICK b \in Packets(p, q) : Writes(q, Closing(b))
      BY <2>2 DEF AcceptControllerClosure
    <3>2. q = r /\ name \in Closing(b)
      BY <1>1, <3>1
    <3> QED
      BY <2>2, <3>2 DEF Closing
  <2>3. CASE AcceptPairClosure(p, q)
    BY <1>1, <2>3 DEF AcceptPairClosure
  <2>4. CASE Disarm(p, q)
    BY <1>1, <2>4 DEF Disarm
  <2>5. CASE BeginEnterIdle(p, q)
    BY <1>1, <1>2, <2>5 DEF BeginEnterIdle
  <2>6. CASE BeginInstallFirewall(p, q) \/ BeginCleanup(p, q)
    BY <1>1, <2>6 DEF BeginInstallFirewall, BeginCleanup
  <2>7. CASE BeginRestore(p, q)
    <3>1. UNCHANGED rc \/ Writes(q, {"restore-started"})
      BY <2>7 DEF BeginRestore
    <3> QED
      BY <1>1, <1>2, <2>7, <3>1
  <2> QED
    BY <1>3, <2>1, <2>2, <2>3, <2>4, <2>5, <2>6, <2>7 DEF Serve
<1>4. ASSUME NEW q \in Ranks, Finish(q)
      PROVE  \/ name \in {"idle", "firewall-ready", "firewall-remove"}
             \/ name \in {"restored", "unchanged"} /\ Restore(r)
  <2>1. CASE EnterIdle(q) \/ InstallFirewall(q)
    BY <1>1, <2>1 DEF EnterIdle, InstallFirewall
  <2>2. CASE CleanupResources(q)
    BY <1>2, <2>2 DEF CleanupResources
  <2>3. CASE Restore(q)
    BY <1>1, <2>3 DEF Restore
  <2> QED
    BY <1>4, <2>1, <2>2, <2>3 DEF Finish
<1>5. ASSUME NEW p \in Procs, Refuse(p) \/ TimeOut(p) \/ Die(p)
      PROVE  name = "firewall-remove"
  <2>1. UNCHANGED rc \/ Writes(HeadNode, {"firewall-remove"})
    BY <1>5 DEF Refuse, TimeOut, Die, Leaves, node
  <2>2. HeadNode \in Ranks
    BY DEF Ranks
  <2> QED
    BY <1>1, <1>2, <2>1, <2>2
<1>6. CASE LauncherStep
  BY <1>2, <1>6 DEF LauncherStep, Submit, Replicate, Await, node
<1>7. CASE ControllerStep
  <2>1. CASE Gate \/ AttemptChild \/ LinkOnly \/ Acknowledge \/ Trap
    BY <1>2, <2>1 DEF Gate, AttemptChild, LinkOnly, Acknowledge, Trap, node
  <2> QED
    BY <1>2, <1>7, <2>1, OwnAsked DEF ControllerStep
<1>8. ASSUME NEW p \in Relays, RelayStep(p)
      PROVE  FALSE
  BY <1>2, <1>8 DEF RelayStep, ObserveTerminal, CleanupStatus, node
<1>9. ASSUME NEW q \in Ranks, ContainerGuard(q) \/ Shorten(q) \/ Fire(q)
      PROVE  FALSE
  BY <1>2, <1>9 DEF ContainerGuard, Shorten, Fire
<1>10. CASE \E p \in Callers, q \in Ranks : Serve(p, q)
  BY <1>3, <1>10
<1>11. CASE \E q \in Ranks : Finish(q)
  BY <1>4, <1>11
<1>12. CASE \E p \in Procs : Refuse(p) \/ TimeOut(p) \/ Die(p)
  BY <1>5, <1>12
<1>13. CASE \E q \in Ranks : Ask(Nobody, q)
  BY <1>2, <1>13, LateAsks
<1> QED
  BY <1>6, <1>7, <1>8, <1>9, <1>10, <1>11, <1>12, <1>13 DEF Next, Step, Callers

(* A long handler is begun by its own action.                               *)
LEMMA LongBegins ==
    ASSUME TypeOK, Next, NEW r \in Ranks, NEW long \in {"firewall", "restore"},
           holder'[r].act = long, holder[r].act # long
    PROVE  \E p \in Callers : IF long = "restore" THEN BeginRestore(p, r)
                                                  ELSE BeginInstallFirewall(p, r)
<1>1. holder' # holder
  OBVIOUS
<1>2. ASSUME NEW p \in Callers, NEW q \in Ranks, Serve(p, q)
      PROVE  IF long = "restore" THEN BeginRestore(p, r) ELSE BeginInstallFirewall(p, r)
  <2>1. \A act : ~Handler(p, act, q)
    BY <1>1 DEF Handler
  <2>2. \A act : Begins(p, act, q) => act = long /\ q = r
    <3> SUFFICES ASSUME NEW act, Begins(p, act, q) PROVE act = long /\ q = r
      OBVIOUS
    <3>1. holder' = [holder EXCEPT ![q] = [act |-> act, by |-> p]]
      BY DEF Begins
    <3>2. holder'[r] = IF q = r THEN [act |-> act, by |-> p] ELSE holder[r]
      BY <3>1 DEF TypeOK
    <3> QED
      BY <3>2
  <2> QED
    BY <1>2, <2>1, <2>2 DEF Serve, AcceptControllerStart, DirectReady, AcceptInventory,
       AcceptControllerClosure, AcceptPairClosure, Disarm, BeginEnterIdle, BeginInstallFirewall,
       BeginCleanup, BeginRestore
<1>3. ASSUME NEW q \in Ranks, Finish(q)
      PROVE  FALSE
  <2>1. holder' = [holder EXCEPT ![q] = Free]
    BY <1>3 DEF Finish, EnterIdle, InstallFirewall, CleanupResources, Restore, Finishes
  <2>2. Free.act = "none"
    BY DEF Free
  <2> QED
    BY <2>1, <2>2 DEF TypeOK
<1>4. ASSUME NEW p \in Procs, TimeOut(p) \/ Die(p)
      PROVE  FALSE
  <2>1. holder'[r] \in {holder[r], Free, [holder[r] EXCEPT !.by = Nobody]}
    BY <1>4 DEF TimeOut, Die, Leaves
  <2>2. [holder[r] EXCEPT !.by = Nobody].act = holder[r].act
    BY DEF TypeOK
  <2>3. Free.act = "none"
    BY DEF Free
  <2>4. holder'[r].act \in {holder[r].act, "none"}
    BY <2>1, <2>2, <2>3
  <2> QED
    BY <2>4
<1>5. ASSUME NEW p \in Procs, Refuse(p) \/ RelayStep(p)
      PROVE  FALSE
  BY <1>1, <1>5 DEF Refuse, RelayStep, ObserveTerminal, CleanupStatus
<1>6. CASE LauncherStep
  BY <1>1, <1>6 DEF LauncherStep, Submit, Replicate, Await, Local
<1>7. CASE ControllerStep
  <2>1. CASE Gate \/ AttemptChild \/ LinkOnly \/ Acknowledge \/ Trap
    BY <1>1, <2>1 DEF Gate, AttemptChild, LinkOnly, Acknowledge, Trap, Local
  <2> QED
    BY <1>1, <1>7, <2>1, OwnAsked DEF ControllerStep, Local
<1>8. ASSUME NEW q \in Ranks, ContainerGuard(q) \/ Shorten(q) \/ Fire(q)
      PROVE  FALSE
  BY <1>1, <1>8 DEF ContainerGuard, Shorten, Fire
<1>9. ASSUME NEW q \in Ranks, Ask(Nobody, q)
      PROVE  FALSE
  BY <1>1, <1>9, LateAsks
<1> QED
  BY <1>2, <1>3, <1>4, <1>5, <1>6, <1>7, <1>8, <1>9 DEF Next, Step, Callers

(* Closures stand for what they say.                                        *)
LEMMA ClosingKept ==
    ASSUME PairInv, Next
    PROVE  Closed'
<1> USE DEF PairInv
<1> SUFFICES ASSUME NEW r \in Ranks
             PROVE  /\ Has(r, "closure")' => Over'
                    /\ Has(r, "pair-closure")' => AllSettled'
                    /\ Restores(r)' => Has(r, "pair-closure")'
  BY DEF Closed
<1>1. \A name : Has(r, name) => Has(r, name)'
  BY EvidenceKept DEF Witnessed, Has
<1>2. /\ Has(r, "closure") => Over
      /\ Has(r, "pair-closure") => AllSettled
      /\ Restores(r) => Has(r, "pair-closure")
  BY DEF Closed
<1>3. /\ Over => Over'
      /\ AllSettled => AllSettled'
  BY SettledKept
<1>4. ASSUME NEW p \in Callers, NEW act \in {"closure", "pair"}, Handler(p, act, r)
      PROVE  /\ act = "closure" => Over
             /\ act = "pair" => AllSettled
  <2>1. CASE p = Nobody
    <3>1. PICK c \in late : c.call = <<act, r>>
      BY <1>4, <2>1 DEF Handler, Calls, Delayed
    <3> QED
      BY <3>1 DEF Queued, Carries
  <2>2. CASE p \in Procs
    <3>1. OnCall(p) = <<act, r>> /\ r \in {0, 1}
      BY <1>4, <2>2, Processes DEF Handler, Calls, Nobody, Ranks, HeadNode, WorkerNode
    <3>2. CASE act = "closure"
      <4>1. p \in Relays /\ at[p] = 2 + r
        BY <2>2, <3>1, <3>2, Positions
      <4> QED
        BY <3>1, <3>2, <4>1 DEF Relaying
    <3>3. CASE act = "pair"
      <4>1. p \in Relays /\ at[p] = 8 + r
        BY <2>2, <3>1, <3>3, Positions
      <4> QED
        BY <3>1, <3>3, <4>1 DEF Relaying, AllSettled, Ranks
    <3> QED
      BY <3>2, <3>3
  <2> QED
    BY <2>1, <2>2 DEF Callers
<1>5. Has(r, "closure")' => Over'
  <2>1. ASSUME Has(r, "closure")', ~Has(r, "closure")
        PROVE  Over
    <3>1. PICK p \in Callers : AcceptControllerClosure(p, r)
      BY <2>1, Writers
    <3> QED
      BY <1>4, <3>1 DEF AcceptControllerClosure
  <2> QED
    BY <1>2, <1>3, <2>1
<1>6. Has(r, "pair-closure")' => AllSettled'
  <2>1. ASSUME Has(r, "pair-closure")', ~Has(r, "pair-closure")
        PROVE  AllSettled
    <3>1. PICK p \in Callers : AcceptPairClosure(p, r)
      BY <2>1, Writers
    <3> QED
      BY <1>4, <3>1 DEF AcceptPairClosure
  <2> QED
    BY <1>2, <1>3, <2>1
<1>7. ASSUME Restores(r)', ~Restores(r)
      PROVE  Has(r, "pair-closure")
  <2>1. CASE holder'[r].act = "restore"
    <3>1. PICK p \in Callers : BeginRestore(p, r)
      BY <1>7, <2>1, LongBegins DEF Restores
    <3> QED
      BY <3>1 DEF BeginRestore, MayRestore, PairStopped
  <2>2. ASSUME NEW name \in {"restore-started", "restored", "unchanged"}, Has(r, name)'
        PROVE  Has(r, "pair-closure")
    <3>1. ~Has(r, name)
      BY <1>7 DEF Restores, Without, Has
    <3>2. CASE name = "restore-started"
      <4>1. PICK p \in Callers : BeginRestore(p, r)
        BY <2>2, <3>1, <3>2, Writers
      <4> QED
        BY <4>1 DEF BeginRestore, MayRestore, PairStopped
    <3>3. CASE name \in {"restored", "unchanged"}
      <4>1. Restore(r)
        BY <2>2, <3>1, <3>3, Writers
      <4> QED
        BY <1>7, <4>1 DEF Restore, Finishes, Restores
    <3> QED
      BY <3>2, <3>3
  <2> QED
    BY <1>7, <2>1, <2>2 DEF Restores, Without, Has
<1>8. Restores(r)' => Has(r, "pair-closure")'
  BY <1>1, <1>2, <1>7
<1> QED
  BY <1>5, <1>6, <1>8

(* Only a controller that still runs is acknowledged.                       *)
LEMMA AckKept ==
    ASSUME PairInv, Next
    PROVE  /\ "ack" \in shared => "ack" \in shared'
           /\ "ack" \in shared' => "ack" \in shared \/ (~Over /\ Acknowledge)
<1> USE DEF PairInv
<1>1. ASSUME UNCHANGED shared
      PROVE  /\ "ack" \in shared => "ack" \in shared'
             /\ "ack" \in shared' => "ack" \in shared
  BY <1>1
<1>2. ASSUME NEW p \in Callers, NEW r \in Ranks, Serve(p, r)
      PROVE  UNCHANGED shared
  <2>1. \A act : Handler(p, act, r) \/ Begins(p, act, r) => UNCHANGED shared
    BY DEF Handler, Begins
  <2> QED
    BY <1>2, <2>1 DEF Serve, AcceptControllerStart, DirectReady, AcceptInventory,
       AcceptControllerClosure, AcceptPairClosure, Disarm, BeginEnterIdle, BeginInstallFirewall,
       BeginCleanup, BeginRestore
<1>3. ASSUME NEW r \in Ranks, Finish(r) \/ ContainerGuard(r) \/ Shorten(r) \/ Fire(r)
      PROVE  UNCHANGED shared
  BY <1>3 DEF Finish, EnterIdle, InstallFirewall, CleanupResources, Restore, Finishes,
              ContainerGuard, Shorten, Fire
<1>4. ASSUME NEW p \in Procs, Refuse(p) \/ RelayStep(p) \/ TimeOut(p) \/ Die(p)
      PROVE  UNCHANGED shared
  BY <1>4 DEF Refuse, RelayStep, ObserveTerminal, CleanupStatus, TimeOut, Die, Leaves
<1>5. CASE LauncherStep
  BY <1>5 DEF LauncherStep, Submit, Replicate, Await
<1>6. CASE ControllerStep
  <2>1. ~Over
    BY <1>6, ControllerWitness
  <2>2. CASE Acknowledge
    BY <2>1, <2>2 DEF Acknowledge
  <2>3. CASE ControllerStep /\ ~Acknowledge
    <3>1. shared' \in {shared, shared \cup {"child"}}
      BY <2>3, OwnAsked DEF ControllerStep, Gate, AttemptChild, LinkOnly, Trap
    <3> QED
      BY <3>1
  <2> QED
    BY <1>6, <2>2, <2>3
<1>7. ASSUME NEW r \in Ranks, Ask(Nobody, r)
      PROVE  UNCHANGED shared
  BY <1>7, LateAsks
<1> QED
  BY <1>1, <1>2, <1>3, <1>4, <1>5, <1>6, <1>7 DEF Next, Step, Callers

(* The controller stages slots only behind its acknowledgement.             *)
LEMMA ControlMoves ==
    ASSUME PairInv, Next, at'["controller"] \in 18..25
    PROVE  at["controller"] \in 18..25 \/ Acknowledge
<1> USE DEF PairInv
<1>1. at["controller"] \in Nat /\ at["controller"] >= 1 /\ at'["controller"] # 1
  BY Processes DEF TypeOK
<1>2. CASE at'["controller"] = at["controller"]
  BY <1>2
<1>3. CASE at'["controller"] # at["controller"]
  <2>1. ~Starting
    BY <1>3, StartChanges, Processes
  <2>2. PICK p \in Procs, ok \in BOOLEAN :
           /\ Answers(p, ok)
           /\ \/ ~ok
              \/ OnCall(p)[1] \in LockActs
              \/ p = "launcher"
              \/ p = "controller" /\ ControllerStep
              \/ p \in Relays /\ RelayStep(p)
    BY <1>3, <2>1, NextMoves
  <2>3. p = "controller"
    BY <1>3, <2>2, Processes DEF Answers, Moves
  <2>4. \/ at'["controller"] = at["controller"] + 1 /\ (ok \/ TriesBoth("controller"))
        \/ at["controller"] \in 18..23
        \/ at'["controller"] = 26
    BY <1>1, <2>2, <2>3 DEF Answers, Moves
  <2>5. CASE at["controller"] = 17
    <3>1. OnCall("controller")[1] = "ack"
      <4>1. status["controller"] = "on"
        BY <2>2, <2>3 DEF Answers
      <4>2. OnCall("controller") = Program["controller"][17]
        BY <2>5, <4>1, Processes DEF OnCall
      <4> QED
        BY <4>2, Programs, ControlCalls
    <3>2. ~TriesBoth("controller") /\ OnCall("controller")[1] \notin LockActs
      BY <3>1 DEF TriesBoth, LockActs
    <3>3. ControllerStep
      BY <2>2, <2>3, <2>4, <2>5, <3>2, Processes DEF Relays
    <3>4. \A act, r : OnCall("controller") = <<act, r>> => act = "ack"
      BY <3>1
    <3>5. \A act, r : Local("controller", act, r) => act = "ack"
      BY <3>4 DEF Local
    <3>6. ~LinkOnly
      BY <3>4 DEF LinkOnly
    <3> QED
      BY <3>3, <3>5, <3>6, OwnAsked DEF ControllerStep, Gate, AttemptChild, Trap, RawActs
  <2>6. CASE at["controller"] # 17
    BY <1>1, <2>4, <2>6
  <2> QED
    BY <2>5, <2>6
<1> QED
  BY <1>2, <1>3

(* A step of one node's link or slot that only stops.                       *)
Stops(r) == /\ link'[r] \in {link[r], "stopped"}
            /\ \/ slot'[r] = slot[r]
               \/ slot[r] \in Stoppable /\ slot'[r] = "stopped"

(* Links and slots go on only by what the controller asks or has asked.     *)
LEMMA ResourceSteps ==
    ASSUME TypeOK, Next, NEW r \in Ranks
    PROVE  \/ Stops(r)
           \/ \E p \in {"controller", Nobody} :
                 StartLink(p, r) \/ StageSlot(p, r) \/ ArmSlot(p, r) \/ StartSlot(p, r)
<1> USE DEF TypeOK
<1>1. ASSUME UNCHANGED <<link, slot>> PROVE Stops(r)
  BY <1>1 DEF Stops
<1>2. ASSUME NEW p \in Callers, NEW q \in Ranks, Serve(p, q)
      PROVE  Stops(r)
  BY <1>1, <1>2 DEF Serve, AcceptControllerStart, DirectReady, AcceptInventory,
       AcceptControllerClosure, AcceptPairClosure, Disarm, BeginEnterIdle, BeginInstallFirewall,
       BeginCleanup, BeginRestore
<1>3. ASSUME NEW q \in Ranks, Finish(q) \/ ContainerGuard(q) \/ Shorten(q) \/ Fire(q)
      PROVE  Stops(r)
  <2>1. CASE CleanupResources(q)
    BY <2>1 DEF CleanupResources, Stops
  <2>2. CASE ContainerGuard(q)
    BY <2>2 DEF ContainerGuard, Stops, Stoppable
  <2>3. CASE EnterIdle(q) \/ InstallFirewall(q) \/ Restore(q) \/ Shorten(q) \/ Fire(q)
    BY <1>1, <2>3 DEF EnterIdle, InstallFirewall, Restore, Shorten, Fire
  <2> QED
    BY <1>3, <2>1, <2>2, <2>3 DEF Finish
<1>4. ASSUME NEW p \in Procs, TimeOut(p) \/ Die(p)
      PROVE  Stops(r)
  BY <1>4 DEF TimeOut, Die, Leaves, Stops
<1>5. ASSUME NEW p \in Procs, Refuse(p) \/ RelayStep(p)
      PROVE  Stops(r)
  BY <1>1, <1>5 DEF Refuse, RelayStep, ObserveTerminal, CleanupStatus, node
<1>6. CASE LauncherStep
  BY <1>1, <1>6 DEF LauncherStep, Submit, Replicate, Await, node
<1>7. CASE Gate \/ AttemptChild \/ LinkOnly \/ Acknowledge \/ Trap
  <2>1. CASE Trap
    BY <2>1 DEF Trap, Stops
  <2> QED
    BY <1>1, <1>7, <2>1 DEF Gate, AttemptChild, LinkOnly, Acknowledge, node
<1>8. ASSUME NEW p \in {"controller", Nobody}, NEW q \in Ranks, Ask(p, q)
      PROVE  Stops(r) \/ StartLink(p, r) \/ StageSlot(p, r) \/ ArmSlot(p, r) \/ StartSlot(p, r)
  <2>1. CASE Profile(p, q) \/ RemoveProfile(p, q)
    BY <1>1, <2>1 DEF Profile, RemoveProfile
  <2>2. CASE StopLink(p, q)
    BY <2>2 DEF StopLink, Stops
  <2>3. CASE StopSlot(p, q)
    BY <2>3 DEF StopSlot, Stops
  <2>4. CASE StartLink(p, q)
    <3>1. q # r => Stops(r)
      BY <2>4 DEF StartLink, Stops
    <3> QED
      BY <2>4, <3>1
  <2>5. CASE StageSlot(p, q) \/ ArmSlot(p, q) \/ StartSlot(p, q)
    <3>1. UNCHANGED link /\ \E s : slot' = [slot EXCEPT ![q] = s]
      BY <2>5 DEF StageSlot, ArmSlot, StartSlot
    <3>2. q # r => Stops(r)
      BY <3>1 DEF Stops
    <3> QED
      BY <2>5, <3>2
  <2> QED
    BY <1>8, <2>1, <2>2, <2>3, <2>4, <2>5 DEF Ask
<1> QED
  BY <1>2, <1>3, <1>4, <1>5, <1>6, <1>7, <1>8 DEF Next, Step, ControllerStep, Callers

(* A slot appears only by its staging, and nothing goes back.               *)
LEMMA SlotStages ==
    ASSUME TypeOK, Next, NEW r \in Ranks
    PROVE  /\ slot'[r] # "absent" /\ slot[r] = "absent" =>
                 \E p \in {"controller", Nobody} : StageSlot(p, r)
           /\ slot'[r] = "absent" => slot[r] = "absent"
           /\ slot'[r] = "partial" => slot[r] \in {"absent", "partial"}
           /\ slot'[r] = "staged" => slot[r] \in {"partial", "staged"}
           /\ link'[r] = "staged" => link[r] = "staged"
<1> USE DEF TypeOK
<1>1. CASE Stops(r)
  BY <1>1 DEF Stops, Stoppable
<1>2. ASSUME NEW p \in {"controller", Nobody}, StartLink(p, r)
      PROVE  link'[r] = "up" /\ UNCHANGED slot
  BY <1>2 DEF StartLink
<1>3. ASSUME NEW p \in {"controller", Nobody}, StageSlot(p, r)
      PROVE  slot[r] = "absent" /\ slot'[r] = "partial" /\ UNCHANGED link
  BY <1>3 DEF StageSlot
<1>4. ASSUME NEW p \in {"controller", Nobody}, ArmSlot(p, r)
      PROVE  slot[r] = "partial" /\ slot'[r] = "staged" /\ UNCHANGED link
  BY <1>4 DEF ArmSlot
<1>5. ASSUME NEW p \in {"controller", Nobody}, StartSlot(p, r)
      PROVE  slot[r] = "staged" /\ slot'[r] = "up" /\ UNCHANGED link
  BY <1>5 DEF StartSlot
<1> QED
  BY <1>1, <1>2, <1>3, <1>4, <1>5, ResourceSteps

(* Only a cleanup writes its record.                                        *)
LEMMA Records ==
    ASSUME TypeOK, Next, NEW r \in Ranks, clean'[r] # clean[r]
    PROVE  CleanupResources(r)
<1>1. clean' # clean
  OBVIOUS
<1>2. ASSUME NEW p \in Callers, NEW q \in Ranks, Serve(p, q)
      PROVE  FALSE
  BY <1>1, <1>2 DEF Serve, AcceptControllerStart, DirectReady, AcceptInventory,
       AcceptControllerClosure, AcceptPairClosure, Disarm, BeginEnterIdle, BeginInstallFirewall,
       BeginCleanup, BeginRestore
<1>3. ASSUME NEW q \in Ranks, Finish(q) \/ ContainerGuard(q) \/ Shorten(q) \/ Fire(q)
      PROVE  CleanupResources(r)
  <2>1. CASE CleanupResources(q)
    <3>1. q # r => clean'[r] = clean[r]
      BY <2>1 DEF CleanupResources, TypeOK
    <3> QED
      BY <2>1, <3>1
  <2> QED
    BY <1>1, <1>3, <2>1 DEF Finish, EnterIdle, InstallFirewall, Restore, ContainerGuard, Shorten, Fire
<1>4. ASSUME NEW p \in Procs, TimeOut(p) \/ Die(p) \/ Refuse(p) \/ RelayStep(p)
      PROVE  FALSE
  BY <1>1, <1>4 DEF TimeOut, Die, Leaves, Refuse, RelayStep, ObserveTerminal, CleanupStatus, node
<1>5. CASE LauncherStep
  BY <1>1, <1>5 DEF LauncherStep, Submit, Replicate, Await, node
<1>6. CASE ControllerStep
  <2>1. CASE Gate \/ AttemptChild \/ LinkOnly \/ Acknowledge \/ Trap
    BY <1>1, <2>1 DEF Gate, AttemptChild, LinkOnly, Acknowledge, Trap, node
  <2> QED
    BY <1>1, <1>6, <2>1, OwnAsked DEF ControllerStep
<1>7. ASSUME NEW q \in Ranks, Ask(Nobody, q)
      PROVE  FALSE
  BY <1>1, <1>7, LateAsks
<1> QED
  BY <1>2, <1>3, <1>4, <1>5, <1>6, <1>7 DEF Next, Step, Callers

(* What the controller asks for is what it calls.                           *)
LEMMA AskedFor ==
    ASSUME NEW act, NEW q, OnCall("controller") = <<act, q>>, NEW r \in Ranks, Ask("controller", r)
    PROVE  /\ act = "link" => StartLink("controller", q)
           /\ act = "stage" => StageSlot("controller", q)
           /\ act = "arm" => ArmSlot("controller", q)
<1>1. ASSUME NEW a, Raw("controller", a, r)
      PROVE  a = act /\ r = q
  <2>1. Local("controller", a, r)
    BY <1>1, OwnAsks
  <2>2. <<a, r>> = <<act, q>>
    BY <2>1 DEF Local
  <2> QED
    BY <2>2
<1> QED
  BY <1>1 DEF Ask, Profile, StartLink, StopLink, StageSlot, ArmSlot, StartSlot, StopSlot, RemoveProfile

(* The controller goes from a call of its own to the next by that call.     *)
LEMMA Advances ==
    ASSUME TypeOK, Resting, Holding, Next, at'["controller"] # at["controller"]
    PROVE  \/ at'["controller"] \in {1, 24, 26}
           \/ /\ at'["controller"] = at["controller"] + 1
              /\ at["controller"] = 10 => StartLink("controller", HeadNode)
              /\ at["controller"] = 19 => StageSlot("controller", WorkerNode)
              /\ at["controller"] = 21 => ArmSlot("controller", WorkerNode)
<1>1. ~Starting
  BY StartChanges, Processes
<1>2. PICK p \in Procs, ok \in BOOLEAN :
         /\ Answers(p, ok)
         /\ \/ ~ok
            \/ OnCall(p)[1] \in LockActs
            \/ p = "launcher"
            \/ p = "controller" /\ ControllerStep
            \/ p \in Relays /\ RelayStep(p)
  BY <1>1, NextMoves
<1>3. p = "controller" /\ status["controller"] = "on"
  BY <1>2, Processes DEF Answers, Moves
<1>4. \/ at'["controller"] \in {1, 24, 26}
      \/ at'["controller"] = at["controller"] + 1 /\ (ok \/ TriesBoth("controller"))
  BY <1>2, <1>3 DEF Answers, Moves
<1>5. ASSUME at["controller"] \in {10, 19, 21}, at'["controller"] = at["controller"] + 1,
             ok \/ TriesBoth("controller")
      PROVE  /\ at["controller"] = 10 => StartLink("controller", HeadNode)
             /\ at["controller"] = 19 => StageSlot("controller", WorkerNode)
             /\ at["controller"] = 21 => ArmSlot("controller", WorkerNode)
  <2>1. OnCall("controller") = Control[at["controller"]]
    BY <1>3, <1>5, Processes, Programs DEF OnCall
  <2>2. /\ at["controller"] = 10 => OnCall("controller") = <<"link", HeadNode>>
        /\ at["controller"] = 19 => OnCall("controller") = <<"stage", WorkerNode>>
        /\ at["controller"] = 21 => OnCall("controller") = <<"arm", WorkerNode>>
    <3>1. /\ Control[10 + 0] = <<"link", 0>> /\ Control[18 + 1] = <<"stage", 1>>
          /\ Control[20 + 1] = <<"arm", 1>>
      BY ControlCalls
    <3> QED
      BY <2>1, <3>1 DEF HeadNode, WorkerNode
  <2>3. ~TriesBoth("controller") /\ OnCall("controller")[1] \notin LockActs
    BY <1>5, <2>2 DEF TriesBoth, LockActs
  <2>4. ControllerStep
    BY <1>2, <1>3, <1>5, <2>3, Processes DEF Relays
  <2>5. PICK r \in Ranks : Ask("controller", r)
    <3>1. OnCall("controller")[1] \in {"link", "stage", "arm"}
      BY <1>5, <2>2
    <3>2. \A act, q : OnCall("controller") = <<act, q>> => act \in {"link", "stage", "arm"}
      BY <3>1
    <3>3. \A act, q : Local("controller", act, q) => act \in {"link", "stage", "arm"}
      BY <3>2 DEF Local
    <3>4. ~LinkOnly
      BY <3>2 DEF LinkOnly
    <3> QED
      BY <2>4, <3>3, <3>4 DEF ControllerStep, Gate, AttemptChild, Acknowledge, Trap
  <2>6. CASE at["controller"] = 10
    BY <2>2, <2>5, <2>6, AskedFor
  <2>7. CASE at["controller"] = 19
    BY <2>2, <2>5, <2>7, AskedFor
  <2>8. CASE at["controller"] = 21
    BY <2>2, <2>5, <2>8, AskedFor
  <2> QED
    BY <1>5, <2>6, <2>7, <2>8
<1> QED
  BY <1>4, <1>5

(* Where the controller stands it has started and staged what comes before. *)
LEMMA StepwiseKept ==
    ASSUME PairInv, Next
    PROVE  Stepwise'
<1>1. TypeOK /\ Resting /\ Holding /\ Stepwise
  BY DEF PairInv
<1>2. at["controller"] \in Nat /\ HeadNode \in Ranks /\ WorkerNode \in Ranks
  BY <1>1, Processes DEF TypeOK, Ranks
<1>3. /\ link'[HeadNode] = "staged" => link[HeadNode] = "staged"
      /\ slot'[WorkerNode] = "absent" => slot[WorkerNode] = "absent"
      /\ slot'[WorkerNode] = "partial" => slot[WorkerNode] \in {"absent", "partial"}
  BY <1>1, <1>2, SlotStages
<1>4. CASE at'["controller"] = at["controller"]
  BY <1>1, <1>2, <1>3, <1>4 DEF Stepwise
<1>5. CASE at'["controller"] \in {1, 24, 26}
  BY <1>5 DEF Stepwise
<1>6. CASE /\ at'["controller"] = at["controller"] + 1
           /\ at["controller"] = 10 => StartLink("controller", HeadNode)
           /\ at["controller"] = 19 => StageSlot("controller", WorkerNode)
           /\ at["controller"] = 21 => ArmSlot("controller", WorkerNode)
  <2>1. at["controller"] = 10 => link'[HeadNode] = "up"
    BY <1>1, <1>2, <1>6 DEF StartLink, TypeOK
  <2>2. at["controller"] = 19 => slot'[WorkerNode] = "partial"
    BY <1>1, <1>2, <1>6 DEF StageSlot, TypeOK
  <2>3. at["controller"] = 21 => slot'[WorkerNode] = "staged"
    BY <1>1, <1>2, <1>6 DEF ArmSlot, TypeOK
  <2>4. /\ at'["controller"] = 11 => at["controller"] = 10
        /\ at'["controller"] \in 20..23 => at["controller"] = 19 \/ at["controller"] \in 20..23
        /\ at'["controller"] \in 22..23 => at["controller"] = 21 \/ at["controller"] \in 22..23
        /\ at["controller"] \in 22..23 => at["controller"] \in 20..23
    BY <1>2, <1>6
  <2> QED
    BY <1>1, <1>3, <2>1, <2>2, <2>3, <2>4 DEF Stepwise
<1> QED
  BY <1>1, <1>4, <1>5, <1>6, Advances

(* A late call says what its caller knew.                                   *)
LEMMA QueuedKept ==
    ASSUME PairInv, Next
    PROVE  Queued'
<1> SUFFICES ASSUME NEW c \in late'
             PROVE  Carries(c)'
  BY DEF Queued
<1>1. /\ TypeOK /\ Relaying /\ Stepwise /\ Acknowledged
      /\ HeadNode \in Ranks /\ WorkerNode \in Ranks
  BY DEF PairInv, Ranks
<1>2. /\ (Over => Over') /\ (AllSettled => AllSettled')
      /\ "ack" \in shared => "ack" \in shared'
  BY SettledKept, AckKept
<1>3. /\ link[HeadNode] # "staged" => link'[HeadNode] # "staged"
      /\ slot[WorkerNode] # "absent" => slot'[WorkerNode] # "absent"
      /\ slot[WorkerNode] \notin {"absent", "partial"} => slot'[WorkerNode] # "partial"
  BY <1>1, SlotStages
<1>4. slot[WorkerNode] # "absent" /\ clean[WorkerNode] # "absent" => clean'[WorkerNode] # "absent"
  <2>1. ASSUME slot[WorkerNode] # "absent", clean'[WorkerNode] # clean[WorkerNode]
        PROVE  clean'[WorkerNode] # "absent"
    <3>1. clean' = [clean EXCEPT ![WorkerNode] = IF Proved(WorkerNode) THEN SlotOutcome(WorkerNode) ELSE @]
      BY <1>1, <2>1, Records DEF CleanupResources
    <3>2. SlotOutcome(WorkerNode) # "absent"
      BY <2>1 DEF SlotOutcome
    <3> QED
      BY <1>1, <2>1, <3>1, <3>2 DEF TypeOK
  <2> QED
    BY <2>1
<1>5. CASE c \in late
  <2>1. Carries(c)
    BY <1>5 DEF PairInv, Queued
  <2> QED
    BY <1>2, <1>3, <1>4, <2>1 DEF Carries
<1>6. CASE c \notin late
  <2>1. PICK p \in Procs : /\ c.call = OnCall(p) /\ status[p] = "on"
                           /\ c.call[2] = WorkerNode \/ c.call[1] = "inventory"
    BY <1>1, <1>6, LateLeft
  <2>2. OnCall(p) = <<OnCall(p)[1], OnCall(p)[2]>> /\ OnCall(p)[2] \in Ranks
    BY <1>1, CallShape DEF Callers
  <2>3. ASSUME OnCall(p)[1] = "closure"
        PROVE  Over
    <3>1. p \in Relays /\ at[p] = 2 + OnCall(p)[2]
      BY <1>1, <2>2, <2>3, Positions
    <3> QED
      BY <1>1, <2>2, <3>1 DEF Relaying, Ranks, HeadNode, WorkerNode
  <2>4. ASSUME OnCall(p)[1] = "pair"
        PROVE  AllSettled
    <3>1. p \in Relays /\ at[p] = 8 + OnCall(p)[2]
      BY <1>1, <2>2, <2>4, Positions
    <3> QED
      BY <1>1, <2>2, <3>1 DEF Relaying, AllSettled, Ranks, HeadNode, WorkerNode
  <2>5. c.call[1] \in RawActs => c.call[2] = WorkerNode
    BY <2>1 DEF RawActs
  <2>6. ASSUME OnCall(p)[1] \in {"link", "stage", "arm", "run"}
        PROVE  /\ p = "controller" /\ OnCall(p)[2] = WorkerNode
               /\ OnCall(p)[1] = "link" => at["controller"] = 11
               /\ OnCall(p)[1] = "stage" => at["controller"] = 19
               /\ OnCall(p)[1] = "arm" => at["controller"] = 21
               /\ OnCall(p)[1] = "run" => at["controller"] = 23
    <3>1. OnCall(p)[2] = 1
      BY <2>1, <2>6 DEF WorkerNode
    <3> QED
      BY <1>1, <2>2, <2>6, <3>1, Positions DEF WorkerNode
  <2>7. p = "controller" => clean[WorkerNode] # "absent"
    <3>1. p = "controller" => ~Over
      BY <2>1 DEF Over
    <3> QED
      BY <1>1, <3>1, Alive
  <2> QED
    <3>1. c.call[1] = OnCall(p)[1]
      BY <2>1
    <3>2. OnCall(p)[1] \in {"arm", "run"} => slot[WorkerNode] # "absent" /\ clean[WorkerNode] # "absent"
      BY <1>1, <2>6, <2>7 DEF Stepwise
    <3>3. OnCall(p)[1] = "run" => slot[WorkerNode] # "partial"
      BY <1>1, <2>6 DEF Stepwise
    <3>4. OnCall(p)[1] = "stage" => "ack" \in shared
      BY <1>1, <2>6 DEF Acknowledged
    <3>5. OnCall(p)[1] = "link" => link[HeadNode] # "staged"
      BY <1>1, <2>6 DEF Stepwise
    <3> QED
      BY <1>2, <1>3, <1>4, <2>3, <2>4, <2>5, <3>1, <3>2, <3>3, <3>4, <3>5 DEF Carries
<1> QED
  BY <1>5, <1>6

(* A relay takes its closure packet from the ended controller.              *)
LEMMA AbsentKept ==
    ASSUME TypeOK, Next, NEW p \in Relays, absent'[p], ~absent[p]
    PROVE  ObserveTerminal(p)
<1>1. absent' # absent
  OBVIOUS
<1>2. ASSUME NEW q \in Callers, NEW r \in Ranks, Serve(q, r)
      PROVE  FALSE
  <2>1. \A act : ~Handler(q, act, r) /\ ~Begins(q, act, r)
    BY <1>1 DEF Handler, Begins
  <2> QED
    BY <1>2, <2>1 DEF Serve, AcceptControllerStart, DirectReady, AcceptInventory,
       AcceptControllerClosure, AcceptPairClosure, Disarm, BeginEnterIdle, BeginInstallFirewall,
       BeginCleanup, BeginRestore
<1>3. ASSUME NEW r \in Ranks, Finish(r) \/ ContainerGuard(r) \/ Shorten(r) \/ Fire(r)
      PROVE  FALSE
  BY <1>1, <1>3 DEF Finish, EnterIdle, InstallFirewall, CleanupResources, Restore, Finishes,
              ContainerGuard, Shorten, Fire
<1>4. ASSUME NEW q \in Procs, Refuse(q) \/ TimeOut(q) \/ Die(q)
      PROVE  FALSE
  BY <1>1, <1>4 DEF Refuse, TimeOut, Die, Leaves
<1>5. CASE LauncherStep
  BY <1>1, <1>5 DEF LauncherStep, Submit, Replicate, Await, Local
<1>6. CASE ControllerStep
  <2>1. CASE Gate \/ AttemptChild \/ LinkOnly \/ Acknowledge \/ Trap
    BY <1>1, <2>1 DEF Gate, AttemptChild, LinkOnly, Acknowledge, Trap, Local
  <2> QED
    BY <1>1, <1>6, <2>1, OwnAsked DEF ControllerStep, Local
<1>8. ASSUME NEW r \in Ranks, Ask(Nobody, r)
      PROVE  FALSE
  BY <1>1, <1>8, LateAsks
<1>7. ASSUME NEW q \in Relays, RelayStep(q)
      PROVE  ObserveTerminal(p)
  <2>1. ObserveTerminal(q)
    BY <1>1, <1>7 DEF RelayStep, CleanupStatus
  <2>2. absent' = [absent EXCEPT ![q] = "ack" \notin shared]
    BY <2>1 DEF ObserveTerminal
  <2>3. q = p
    BY <2>2 DEF TypeOK
  <2> QED
    BY <2>1, <2>3
<1> QED
  BY <1>2, <1>3, <1>4, <1>5, <1>6, <1>7, <1>8 DEF Next, Step, Callers

(* Acknowledgement and tombstone keep excluding each other.                 *)
LEMMA AcknowledgedKept ==
    ASSUME PairInv, Next
    PROVE  Acknowledged'
<1> USE DEF PairInv
<1>1. /\ "ack" \in shared => "ack" \in shared'
      /\ "ack" \in shared' => "ack" \in shared \/ (~Over /\ Acknowledge)
      /\ Acknowledge => "ack" \in shared'
  BY AckKept DEF Acknowledge
<1>2. Over => Over'
  BY SettledKept
<1>3. at'["controller"] \in 18..25 => "ack" \in shared'
  BY <1>1, ControlMoves DEF Acknowledged
<1>4. ASSUME NEW r \in Ranks, slot'[r] # "absent"
      PROVE  "ack" \in shared'
  <2>1. CASE slot[r] # "absent"
    BY <1>1, <2>1 DEF Acknowledged
  <2>2. CASE slot[r] = "absent"
    <3>1. CASE StageSlot("controller", r)
      <4>1. OnCall("controller") = <<"stage", r>>
        BY <3>1, OwnAsks DEF StageSlot, Local
      <4>2. at["controller"] = 18 + r /\ r \in {0, 1}
        BY <4>1, Positions, Processes DEF Ranks, HeadNode, WorkerNode
      <4> QED
        BY <1>1, <4>2 DEF Acknowledged
    <3>2. CASE StageSlot(Nobody, r)
      <4>1. \E c \in late : c.call = <<"stage", r>>
        BY <3>2 DEF StageSlot, Raw, Calls, Delayed
      <4> QED
        BY <1>1, <4>1 DEF Queued, Carries
    <3> QED
      BY <1>4, <2>2, <3>1, <3>2, SlotStages
  <2> QED
    BY <2>1, <2>2
<1>5. ASSUME NEW p \in Relays, absent'[p]
      PROVE  "ack" \notin shared' /\ Over'
  <2>1. "ack" \notin shared /\ Over
    <3>1. CASE absent[p]
      BY <3>1 DEF Acknowledged
    <3>2. CASE ~absent[p]
      <4>1. ObserveTerminal(p)
        BY <1>5, <3>2, AbsentKept
      <4> QED
        BY <1>5, <4>1 DEF ObserveTerminal, ControllerTerminal, Over, TypeOK
    <3> QED
      BY <3>1, <3>2
  <2> QED
    BY <1>1, <1>2, <2>1
<1>6. ASSUME NEW r \in Ranks, Has(r, "never-started")'
      PROVE  "ack" \notin shared' /\ Over'
  <2>1. "ack" \notin shared /\ Over
    <3>1. CASE Has(r, "never-started")
      BY <3>1 DEF Acknowledged
    <3>2. CASE ~Has(r, "never-started")
      <4>1. PICK p \in Callers : AcceptControllerClosure(p, r)
        BY <1>6, <3>2, Writers
      <4>2. PICK b \in Packets(p, r) : Writes(r, Closing(b))
        BY <4>1 DEF AcceptControllerClosure
      <4>3. b \in BOOLEAN /\ (b => "ack" \notin shared /\ Over)
        BY <4>2, PacketTrue
      <4>4. b
        BY <1>6, <3>2, <4>2, <4>3 DEF Writes, Closing, Has, TypeOK
      <4> QED
        BY <4>3, <4>4
    <3> QED
      BY <3>1, <3>2
  <2> QED
    BY <1>1, <1>2, <2>1
<1> QED
  BY <1>3, <1>4, <1>5, <1>6 DEF Acknowledged
-----------------------------------------------------------------------------
(* The invariant and what follows from it.                                  *)

(* The armed pair satisfies the invariant.                                  *)
LEMMA PairInit == Init => PairInv
<1> SUFFICES ASSUME Init PROVE PairInv
  OBVIOUS
<1>1. TypeOK
  BY InitTyped
<1>2. /\ \A r \in Ranks : /\ rc[r] = {"pair-armed"} /\ holder[r] = Free
                          /\ clean[r] = "none" /\ slot[r] = "absent"
      /\ \A p \in Procs : at[p] = 1
      /\ \A p \in Relays : absent[p] = FALSE
      /\ late = {} /\ shared = {}
      /\ status["launcher"] = "on" /\ status["controller"] = "off"
  BY Processes DEF Init
<1>3. Resting /\ Holding
  BY <1>2, Processes DEF Resting, Holding, Free, Nobody
<1>4. Relaying /\ Queued /\ Acknowledged
  BY <1>2, Processes DEF Relaying, Queued, Acknowledged, Relays, Has
<1>6. Stepwise
  BY <1>2, Processes DEF Stepwise
<1>5. Evident /\ Closed
  BY <1>2 DEF Evident, Closed, Restores, Has, Without, Free
<1> QED
  BY <1>1, <1>3, <1>4, <1>5, <1>6 DEF PairInv

(* Every step keeps it.                                                     *)
LEMMA PairStep == PairInv /\ [Next]_vars => PairInv'
<1> SUFFICES ASSUME PairInv, [Next]_vars PROVE PairInv'
  OBVIOUS
<1>1. TypeOK'
  BY StepTyped DEF PairInv
<1>2. CASE Next
  <2>1. Resting' /\ Holding'
    BY <1>2, RestingKept, HoldingKept DEF PairInv
  <2>2. Relaying' /\ Queued' /\ Stepwise' /\ Acknowledged' /\ Closed'
    BY <1>2, RelayingKept, QueuedKept, StepwiseKept, AcknowledgedKept, ClosingKept
  <2>3. Evident'
    BY <1>2, EvidenceKept DEF Witnessed, Evident
  <2> QED
    BY <1>1, <2>1, <2>2, <2>3 DEF PairInv
<1>3. CASE UNCHANGED vars
  <2>1. (Resting /\ Holding /\ Stepwise)'
    BY <1>3 DEF vars, PairInv, Resting, Holding, OnCall, Stepwise
  <2>2. \A r \in Ranks : Accounted(r)' = Accounted(r)
    BY <1>3 DEF vars, Accounted, MkdirTooLate, CleanupVerified, SlotOutcome, Declared, Has
  <2>3. (\A r \in Ranks : Settled(r)' = Settled(r)) /\ AllSettled' = AllSettled /\ Over' = Over
    BY <1>3, <2>2 DEF vars, Settled, AllSettled, Has, Over
  <2>4. (Relaying /\ Queued)'
    BY <1>3, <2>3 DEF vars, PairInv, Relaying, Queued, Carries, Ranks
  <2>5. (Acknowledged /\ Evident /\ Closed)'
    BY <1>3, <2>2, <2>3 DEF vars, PairInv, Acknowledged, Evident, Closed, Restores, Without, Has
  <2> QED
    BY <1>1, <2>1, <2>4, <2>5 DEF PairInv
<1> QED
  BY <1>2, <1>3

(* What the evidence says stays so in every run, whoever dies, whatever is  *)
(* delayed: the inductive invariant of guard.py's closures and cleanups.    *)
THEOREM EvidenceKeeps == Spec => []PairInv
  BY PairInit, PairStep, PTL DEF Spec

(* Behind a pair closure the controller is gone and nothing runs.           *)
LEMMA PairClosedAlone ==
    ASSUME PairInv, NEW r \in Ranks, Has(r, "pair-closure")
    PROVE  Over /\ \A q \in Ranks : ~Running(q) /\ ~MayRun(q)
<1>1. AllSettled
  BY DEF PairInv, Closed
<1>2. Over
  BY <1>1 DEF AllSettled, Settled, PairInv, Closed, Ranks
<1>3. ASSUME NEW q \in Ranks
      PROVE  link[q] = "stopped" /\ slot[q] \notin {"up", "staged"}
  <2>1. Accounted(q)
    BY <1>1 DEF AllSettled, Settled
  <2>2. Has(q, "never-started") => slot[q] = "absent"
    BY DEF PairInv, Acknowledged
  <2> QED
    BY <2>1, <2>2 DEF Accounted, MkdirTooLate, CleanupVerified, SlotOutcome, Stoppable, PairInv, TypeOK
<1> QED
  BY <1>2, <1>3 DEF Running, MayRun, MayServe

(* From the first write of a restore on, the controller is gone and no link *)
(* test or model runs on either node (guard.py finalize, network.py         *)
(* restore), whatever the lifecycle, the deaths and the late calls.         *)
THEOREM RestoresAlone == Spec => []NoRestoreWhileRunning
<1>1. PairInv => NoRestoreWhileRunning
  BY PairClosedAlone DEF PairInv, Closed, Restores, NoRestoreWhileRunning, Over
<1> QED
  BY <1>1, EvidenceKeeps, PTL

(* A tombstone is right about both nodes, and a cleanup record never goes   *)
(* stale, but for a mkdir that the dead controller had asked for (guard.py  *)
(* accept_controller_closure, cleanup.py verify_local_cleanup and           *)
(* never_created_slot, owned-adapter.sh's plain calls).                     *)
THEOREM EvidenceHolds == Spec => []EvidenceStaysTrue
<1>1. PairInv => EvidenceStaysTrue
  BY DEF PairInv, EvidenceStaysTrue, Acknowledged, Evident, Accounted
<1> QED
  BY <1>1, EvidenceKeeps, PTL
-----------------------------------------------------------------------------
(* The network.                                                             *)

(* The network invariant of one node.                                       *)
NodeInv(r) == Borrowing(r) /\ Returning(r)

(* A step that leaves a node's network and its phases alone.                *)
LEMMA NodePlain ==
    ASSUME NEW r \in Ranks, NodeInv(r), UNCHANGED <<lifecycle, net[r], fw[r]>>,
           \A name \in {"idle", "transition-started", "restore-started", "restored", "disarmed"} :
               Has(r, name)' = Has(r, name),
           lease[r] = "off" => lease'[r] = "off",
           holder'[r].act \in {"enter", "firewall"} => holder'[r].act = holder[r].act
    PROVE  NodeInv(r)'
<1>1. Predeclared' = Predeclared /\ Baseline' = Baseline
  BY DEF Predeclared, Baseline
<1>2. Borrowing(r)'
  BY <1>1 DEF NodeInv, Borrowing
<1>3. Without(r, {"transition-started", "idle"})' = Without(r, {"transition-started", "idle"})
  BY DEF Without, Has
<1>4. Returned(r)' = Returned(r)
  BY <1>1 DEF Returned
<1>5. Returning(r)'
  BY <1>3, <1>4 DEF NodeInv, Returning
<1> QED
  BY <1>2, <1>5 DEF NodeInv

(* Receipts about other things change no node's network.                    *)
LEMMA SilentNodes ==
    ASSUME TypeOK, \A q \in Ranks : NodeInv(q), NEW r \in Ranks,
           UNCHANGED <<lifecycle, net, fw>>,
           \/ UNCHANGED rc
           \/ \E names : names \cap {"idle", "transition-started", "restore-started", "restored",
                                     "disarmed"} = {} /\ Writes(r, names),
           \A q \in Ranks : lease[q] = "off" => lease'[q] = "off",
           \A q \in Ranks :
               holder'[q].act \in {"enter", "firewall"} => holder'[q].act = holder[q].act
    PROVE  \A q \in Ranks : NodeInv(q)'
<1>1. ASSUME NEW q \in Ranks,
             NEW name \in {"idle", "transition-started", "restore-started", "restored", "disarmed"}
      PROVE  Has(q, name)' = Has(q, name)
  <2>1. CASE UNCHANGED rc
    BY <2>1 DEF Has
  <2>2. ASSUME NEW names, Writes(r, names),
               names \cap {"idle", "transition-started", "restore-started", "restored",
                           "disarmed"} = {}
        PROVE  Has(q, name)' = Has(q, name)
    <3>1. name \notin names
      BY <2>2
    <3> QED
      BY <2>2, <3>1, WritesMore
  <2> QED
    BY <2>1, <2>2
<1> QED
  BY <1>1, NodePlain

(* A step at one node leaves the other as it is.                            *)
LEMMA OtherNode ==
    ASSUME NEW r \in Ranks, NodeInv(r),
           UNCHANGED <<lifecycle, rc[r], net[r], fw[r], lease[r], holder[r]>>
    PROVE  NodeInv(r)'
<1>1. \A name : Has(r, name)' = Has(r, name)
  BY DEF Has
<1> QED
  BY <1>1, NodePlain

(* A long handler begins on a free node.                                    *)
LEMMA Busy ==
    ASSUME TypeOK, NEW p \in Callers, NEW r \in Ranks, NEW act, Begins(p, act, r)
    PROVE  /\ holder[r] = Free /\ holder'[r].act = act
           /\ \A q \in Ranks \ {r} : holder'[q] = holder[q]
  BY DEF Begins, TypeOK

(* Receipts are written on one node.                                        *)
LEMMA AtNode ==
    ASSUME TypeOK, NEW r \in Ranks, NEW names, Writes(r, names)
    PROVE  /\ rc'[r] = rc[r] \cup names
           /\ \A q \in Ranks \ {r} : rc'[q] = rc[q]
  BY DEF Writes, TypeOK

(* The entry of a node begins behind none.                                  *)
LEMMA EnterBegun ==
    ASSUME PairInv, \A q \in Ranks : NodeInv(q), UNCHANGED lifecycle,
           NEW p \in Callers, NEW r \in Ranks, BeginEnterIdle(p, r)
    PROVE  \A q \in Ranks : NodeInv(q)'
<1> USE DEF PairInv
<1>1. /\ MayEnter(r) /\ Begins(p, "enter", r) /\ UNCHANGED <<lease, fw>>
      /\ IF Predeclared THEN UNCHANGED <<rc, net>>
         ELSE Writes(r, {"transition-started"}) /\ net' = [net EXCEPT ![r] = "partial"]
  BY DEF BeginEnterIdle
<1>2. \A q \in Ranks \ {r} : NodeInv(q)'
  <2>1. \A q \in Ranks \ {r} : UNCHANGED <<rc[q], net[q], holder[q]>>
    BY <1>1, AtNode, Busy DEF TypeOK
  <2> QED
    BY <1>1, <2>1, OtherNode
<1>3. lease[r] = "ample" /\ holder'[r].act = "enter"
  BY <1>1, Busy DEF MayEnter
<1>4. ~Has(r, "disarmed")
  BY <1>3 DEF NodeInv, Returning
<1>5. Predeclared' = Predeclared /\ Baseline' = Baseline
  BY DEF Predeclared, Baseline
<1>6. CASE Predeclared
  <2>1. UNCHANGED <<rc, net, fw>>
    BY <1>1, <1>6
  <2>2. Borrowing(r)'
    BY <1>3, <1>5, <1>6, <2>1 DEF NodeInv, Borrowing, Has
  <2>3. Returning(r)'
    BY <1>4, <1>5, <2>1 DEF NodeInv, Returning, Returned, Has
  <2> QED
    BY <1>2, <2>2, <2>3 DEF NodeInv
<1>7. CASE ~Predeclared
  <2>1. ~Has(r, "transition-started")
    BY <1>1, <1>7 DEF MayEnter, Without, Has
  <2>2. ~Has(r, "idle") /\ ~Has(r, "restore-started") /\ ~Has(r, "restored")
    BY <1>7, <2>1 DEF NodeInv, Borrowing, Returning
  <2>3. rc'[r] = rc[r] \cup {"transition-started"} /\ UNCHANGED fw
    BY <1>1, <1>7, AtNode
  <2>4. /\ Has(r, "transition-started")' /\ ~Has(r, "idle")' /\ ~Has(r, "restore-started")'
        /\ ~Has(r, "restored")' /\ ~Has(r, "disarmed")'
    BY <1>4, <2>2, <2>3 DEF Has
  <2>5. ~fw'[r]
    BY <2>2, <2>3 DEF NodeInv, Borrowing, TypeOK
  <2>6. Borrowing(r)'
    BY <1>3, <1>5, <1>7, <2>4, <2>5 DEF Borrowing
  <2>7. Returning(r)'
    BY <2>4 DEF Returning
  <2> QED
    BY <1>2, <2>6, <2>7 DEF NodeInv
<1> QED
  BY <1>6, <1>7

(* It ends in idle.                                                         *)
LEMMA EnterDone ==
    ASSUME PairInv, \A q \in Ranks : NodeInv(q), UNCHANGED lifecycle,
           NEW r \in Ranks, EnterIdle(r)
    PROVE  \A q \in Ranks : NodeInv(q)'
<1> USE DEF PairInv
<1>1. /\ holder[r].act = "enter" /\ holder' = [holder EXCEPT ![r] = Free]
      /\ Writes(r, {"idle"}) /\ UNCHANGED <<lease, fw>>
      /\ net' = [net EXCEPT ![r] = IF Predeclared THEN @ ELSE "idle"]
  BY DEF EnterIdle, Finishes
<1>2. \A q \in Ranks \ {r} : NodeInv(q)'
  <2>1. \A q \in Ranks \ {r} : UNCHANGED <<rc[q], net[q], holder[q]>>
    BY <1>1, AtNode DEF TypeOK
  <2> QED
    BY <1>1, <2>1, OtherNode
<1>3. ~Has(r, "disarmed")
  BY <1>1 DEF NodeInv, Returning
<1>4. Predeclared' = Predeclared /\ Baseline' = Baseline
  BY DEF Predeclared, Baseline
<1>5. rc'[r] = rc[r] \cup {"idle"} /\ holder'[r] = Free
  BY <1>1, AtNode DEF TypeOK
<1>6. \A name : name # "idle" => Has(r, name)' = Has(r, name)
  BY <1>5 DEF Has
<1>7. Has(r, "idle")'
  BY <1>5 DEF Has
<1>8. CASE Predeclared
  <2>1. net' = net
    BY <1>1, <1>8 DEF TypeOK
  <2>2. Borrowing(r)'
    BY <1>4, <1>5, <1>7, <1>8, <2>1 DEF NodeInv, Borrowing, Free
  <2>3. Returning(r)'
    BY <1>1, <1>3, <1>4, <1>6, <2>1 DEF NodeInv, Returning, Returned
  <2> QED
    BY <1>2, <2>2, <2>3 DEF NodeInv
<1>9. CASE ~Predeclared
  <2>1. Has(r, "transition-started") /\ ~Has(r, "restore-started") /\ ~Has(r, "restored")
    BY <1>1, <1>9 DEF NodeInv, Borrowing, Returning
  <2>2. Borrowing(r)'
    BY <1>4, <1>5, <1>6, <1>7, <1>9, <2>1 DEF Borrowing, Free
  <2>3. Returning(r)'
    BY <1>3, <1>6, <2>1 DEF Returning
  <2> QED
    BY <1>2, <2>2, <2>3 DEF NodeInv
<1> QED
  BY <1>8, <1>9

(* Rules are asked for behind both entries, and never behind a restore.     *)
LEMMA InstallBegun ==
    ASSUME PairInv, NetInv, UNCHANGED lifecycle,
           NEW p \in Callers, NEW r \in Ranks, BeginInstallFirewall(p, r)
    PROVE  \A q \in Ranks : NodeInv(q)'
<1> USE DEF PairInv
<1>1. /\ MayInstall(r) /\ Begins(p, "firewall", r) /\ UNCHANGED <<lease, net>>
      /\ Writes(r, {"firewall-insert"}) /\ fw' = [fw EXCEPT ![r] = TRUE]
  BY DEF BeginInstallFirewall
<1>2. \A q \in Ranks : NodeInv(q)
  BY DEF NetInv, NodeInv
<1>3. \A q \in Ranks \ {r} : NodeInv(q)'
  <2>1. \A q \in Ranks \ {r} : UNCHANGED <<rc[q], fw[q], holder[q]>>
    BY <1>1, AtNode, Busy DEF TypeOK
  <2> QED
    BY <1>1, <1>2, <2>1, OtherNode
<1>4. Has(r, "idle") /\ (Predeclared => ~Has(r, "restored"))
  <2>1. CASE p = Nobody
    <3>1. PICK c \in late : c.call = <<"firewall", r>>
      BY <1>1, <2>1 DEF Begins, Calls, Delayed
    <3> QED
      BY <3>1 DEF NetInv, Entering
  <2>2. CASE p \in Procs
    <3>1. OnCall(p) = <<"firewall", r>> /\ r \in {0, 1}
      BY <1>1, <2>2, Processes DEF Begins, Calls, Nobody, Ranks, HeadNode, WorkerNode
    <3>2. p = "controller" /\ at[p] = 8 + r /\ status[p] = "on"
      BY <2>2, <3>1, Positions
    <3>3. Has(HeadNode, "idle") /\ Has(WorkerNode, "idle")
      BY <3>1, <3>2 DEF NetInv, Entering
    <3>4. ~Restores(r)
      BY <3>2, Alive DEF Over
    <3> QED
      BY <3>3, <3>4 DEF Restores, Without, Has, Ranks
  <2> QED
    BY <2>1, <2>2 DEF Callers
<1>5. net[r] = "direct" /\ lease[r] = "ample" /\ holder'[r].act = "firewall"
  BY <1>1, Busy DEF MayInstall
<1>6. ~Has(r, "disarmed") /\ ~Has(r, "restored")
  <2>1. ~Has(r, "disarmed")
    BY <1>2, <1>5 DEF NodeInv, Returning
  <2>2. ~Predeclared => ~Has(r, "restored")
    BY <1>2, <1>5 DEF NodeInv, Returning, Returned, Baseline
  <2> QED
    BY <1>4, <2>1, <2>2
<1>7. Predeclared' = Predeclared
  BY DEF Predeclared
<1>8. rc'[r] = rc[r] \cup {"firewall-insert"}
  BY <1>1, AtNode
<1>9. \A name : name # "firewall-insert" => Has(r, name)' = Has(r, name)
  BY <1>8 DEF Has
<1>10. Borrowing(r)'
  BY <1>1, <1>2, <1>4, <1>5, <1>7, <1>9 DEF NodeInv, Borrowing
<1>11. Returning(r)'
  BY <1>6, <1>9 DEF Returning
<1> QED
  BY <1>3, <1>10, <1>11 DEF NodeInv

(* A restore begins behind an entry, or has nothing to return.              *)
LEMMA RestoreBegun ==
    ASSUME PairInv, \A q \in Ranks : NodeInv(q), UNCHANGED lifecycle,
           NEW p \in Callers, NEW r \in Ranks, BeginRestore(p, r)
    PROVE  \A q \in Ranks : NodeInv(q)'
<1> USE DEF PairInv
<1>1. /\ MayRestore(r) /\ Begins(p, "restore", r) /\ UNCHANGED <<lease, fw>>
      /\ IF PartlyEntered(r) \/ Entered(r)
         THEN /\ Writes(r, {"restore-started"})
              /\ net' = [net EXCEPT ![r] = IF Predeclared THEN @ ELSE "partial"]
         ELSE UNCHANGED <<rc, net>>
  BY DEF BeginRestore
<1>2. holder'[r].act = "restore" /\ \A q \in Ranks \ {r} : holder'[q] = holder[q]
  BY <1>1, Busy
<1>3. \A q \in Ranks \ {r} : NodeInv(q)'
  <2>1. \A q \in Ranks \ {r} : UNCHANGED <<rc[q], net[q]>>
    BY <1>1, AtNode DEF TypeOK
  <2> QED
    BY <1>1, <1>2, <2>1, OtherNode
<1>4. Predeclared' = Predeclared /\ Baseline' = Baseline
  BY DEF Predeclared, Baseline
<1>5. CASE ~(PartlyEntered(r) \/ Entered(r))
  <2>1. NodeInv(r)'
    BY <1>1, <1>2, <1>5, NodePlain DEF Has
  <2> QED
    BY <1>3, <2>1
<1>6. CASE PartlyEntered(r) \/ Entered(r)
  <2>1. /\ rc'[r] = rc[r] \cup {"restore-started"}
        /\ net'[r] = IF Predeclared THEN net[r] ELSE "partial"
    BY <1>1, <1>6, AtNode DEF TypeOK
  <2>2. \A name : name # "restore-started" => Has(r, name)' = Has(r, name)
    BY <2>1 DEF Has
  <2>3. ~Predeclared => Has(r, "transition-started")
    BY <1>6 DEF PartlyEntered, Entered, NodeInv, Borrowing
  <2>4. ~Has(r, "restored")
    <3>1. CASE PartlyEntered(r)
      BY <3>1 DEF PartlyEntered, Without, Has, NodeInv, Returning
    <3>2. CASE Entered(r)
      BY <3>2 DEF Entered, NodeInv, Returning
    <3> QED
      BY <1>6, <3>1, <3>2
  <2>5. Borrowing(r)'
    BY <1>1, <1>2, <1>4, <2>1, <2>2, <2>3 DEF NodeInv, Borrowing
  <2>6. Has(r, "disarmed") => Without(r, {"transition-started", "idle"})'
    BY <2>1, <2>4 DEF NodeInv, Returning, Without
  <2>7. Returning(r)'
    BY <1>1, <1>2, <2>2, <2>4, <2>6 DEF NodeInv, Returning
  <2> QED
    BY <1>3, <2>5, <2>7 DEF NodeInv
<1> QED
  BY <1>5, <1>6

(* It ends with the network returned.                                       *)
LEMMA RestoreDone ==
    ASSUME PairInv, \A q \in Ranks : NodeInv(q), UNCHANGED lifecycle,
           NEW r \in Ranks, Restore(r)
    PROVE  \A q \in Ranks : NodeInv(q)'
<1> USE DEF PairInv
<1>1. PICK names :
        /\ Writes(r, names)
        /\ names = (IF Has(r, "restore-started") THEN {"restored"} ELSE {"unchanged"})
                      \cup (IF RulesFound(r) THEN {"firewall-remove"} ELSE {})
  BY DEF Restore
<1>2. /\ holder' = [holder EXCEPT ![r] = Free] /\ UNCHANGED lease
      /\ net' = [net EXCEPT ![r] = Baseline]
      /\ fw' = [fw EXCEPT ![r] = @ /\ ~RulesFound(r)]
  BY DEF Restore, Finishes
<1>3. \A q \in Ranks \ {r} : NodeInv(q)'
  <2>1. \A q \in Ranks \ {r} : UNCHANGED <<rc[q], net[q], fw[q], holder[q]>>
    BY <1>1, <1>2, AtNode DEF TypeOK
  <2> QED
    BY <1>2, <2>1, OtherNode
<1>4. Predeclared' = Predeclared /\ Baseline' = Baseline
  BY DEF Predeclared, Baseline
<1>5. net'[r] = Baseline /\ ~fw'[r] /\ holder'[r] = Free
  BY <1>2 DEF RulesFound, TypeOK
<1>6. rc'[r] = rc[r] \cup names
  BY <1>1, AtNode
<1>7. \A name \in {"idle", "transition-started", "restore-started", "disarmed"} :
          Has(r, name)' = Has(r, name)
  BY <1>1, <1>6 DEF Has
<1>8. Has(r, "restored")' => Has(r, "restored") \/ Has(r, "restore-started")
  BY <1>1, <1>6 DEF Has
<1>9. Has(r, "restored") => Has(r, "restored")'
  BY <1>6 DEF Has
<1>10. Borrowing(r)'
  BY <1>4, <1>5, <1>7 DEF NodeInv, Borrowing, Baseline, Free
<1>11. Without(r, {"transition-started", "idle"})' = Without(r, {"transition-started", "idle"})
  BY <1>7 DEF Without, Has
<1>12. Returning(r)'
  <2>1. Returned(r)'
    BY <1>4, <1>5 DEF Returned
  <2>2. Has(r, "restored")' => Has(r, "restore-started")'
    BY <1>7, <1>8 DEF NodeInv, Returning
  <2>3. Has(r, "disarmed")' =>
          /\ lease'[r] = "off" /\ holder'[r].act \notin {"enter", "firewall"}
          /\ Has(r, "restored")' \/ Without(r, {"transition-started", "idle"})'
    BY <1>2, <1>5, <1>7, <1>9, <1>11 DEF NodeInv, Returning, Free
  <2> QED
    BY <2>1, <2>2, <2>3 DEF Returning
<1> QED
  BY <1>3, <1>10, <1>12 DEF NodeInv

(* A lease goes only behind its terminal receipt.                           *)
LEMMA DisarmDone ==
    ASSUME PairInv, \A q \in Ranks : NodeInv(q), UNCHANGED lifecycle,
           NEW p \in Callers, NEW r \in Ranks, Disarm(p, r)
    PROVE  \A q \in Ranks : NodeInv(q)'
<1> USE DEF PairInv
<1>1. /\ MayDisarm(r) /\ Writes(r, {"disarmed"}) /\ UNCHANGED <<net, fw, holder>>
      /\ lease' = [lease EXCEPT ![r] = "off"] /\ holder[r] = Free
  BY DEF Disarm, Handler
<1>2. \A q \in Ranks \ {r} : NodeInv(q)'
  <2>1. \A q \in Ranks \ {r} : UNCHANGED <<rc[q], lease[q]>>
    BY <1>1, AtNode DEF TypeOK
  <2> QED
    BY <1>1, <2>1, OtherNode
<1>3. Predeclared' = Predeclared /\ Baseline' = Baseline
  BY DEF Predeclared, Baseline
<1>4. rc'[r] = rc[r] \cup {"disarmed"} /\ lease'[r] = "off"
  BY <1>1, AtNode DEF TypeOK
<1>5. \A name : name # "disarmed" => Has(r, name)' = Has(r, name)
  BY <1>4 DEF Has
<1>6. Borrowing(r)'
  BY <1>1, <1>3, <1>5 DEF NodeInv, Borrowing
<1>7. Has(r, "restored")' \/ Without(r, {"transition-started", "idle"})'
  <2>1. Has(r, "restored") \/ Without(r, {"transition-started", "idle"})
    <3>1. (Has(r, "restored") # Has(r, "unchanged"))
             /\ (Has(r, "unchanged") => Without(r, {"transition-started", "idle"}))
      BY <1>1 DEF MayDisarm
    <3>2. Has(r, "restored") \in BOOLEAN /\ Has(r, "unchanged") \in BOOLEAN
      BY DEF Has
    <3>3. Has(r, "restored") \/ Has(r, "unchanged")
      BY <3>1, <3>2
    <3> QED
      BY <3>1, <3>3
  <2> QED
    BY <1>4, <1>5, <2>1 DEF Without, Has
<1>8. Returning(r)'
  <2>1. Returned(r)' = Returned(r)
    BY <1>1, <1>3 DEF Returned
  <2> QED
    BY <1>1, <1>4, <1>5, <1>7, <2>1 DEF NodeInv, Returning, Free
<1> QED
  BY <1>2, <1>6, <1>8 DEF NodeInv

(* Profiles change no network that was returned: there is none any more.    *)
LEMMA ProfileDone ==
    ASSUME PairInv, \A q \in Ranks : NodeInv(q), UNCHANGED lifecycle,
           NEW p \in {"controller", Nobody}, NEW r \in Ranks, Profile(p, r) \/ RemoveProfile(p, r)
    PROVE  \A q \in Ranks : NodeInv(q)'
<1> USE DEF PairInv
<1>1. PICK to \in {"direct", "idle"} :
        /\ UNCHANGED <<rc, lease, fw, holder>>
        /\ net' = [net EXCEPT ![r] = to]
        /\ Predeclared => to = net[r]
        /\ net[r] # "switched"
  <2>1. UNCHANGED <<rc, lease, fw, holder>>
    BY Asked DEF Ask
  <2>2. CASE Profile(p, r)
    BY <2>1, <2>2 DEF Profile
  <2>3. CASE RemoveProfile(p, r)
    BY <2>1, <2>3 DEF RemoveProfile
  <2> QED
    BY <2>2, <2>3
<1>3. Has(r, "restored") => Predeclared
  BY <1>1 DEF NodeInv, Returning, Returned, Baseline
<1>4. \A q \in Ranks \ {r} : NodeInv(q)'
  <2>1. \A q \in Ranks \ {r} : UNCHANGED net[q]
    BY <1>1 DEF TypeOK
  <2> QED
    BY <1>1, <2>1, OtherNode
<1>5. Predeclared' = Predeclared
  BY DEF Predeclared
<1>6. \A name : Has(r, name)' = Has(r, name)
  BY <1>1 DEF Has
<1>7. net'[r] = to
  BY <1>1 DEF TypeOK
<1>8. Borrowing(r)'
  BY <1>1, <1>5, <1>6, <1>7 DEF NodeInv, Borrowing
<1>9. Without(r, {"transition-started", "idle"})' = Without(r, {"transition-started", "idle"})
  BY <1>1 DEF Without
<1>11. Has(r, "restored") => Returned(r)'
  BY <1>1, <1>3, <1>5, <1>7 DEF NodeInv, Returning, Returned, Baseline, Predeclared
<1>10. Returning(r)'
  BY <1>1, <1>6, <1>9, <1>11 DEF NodeInv, Returning
<1> QED
  BY <1>4, <1>8, <1>10 DEF NodeInv

(* A handler killed on the head may have taken rules away.                  *)
LEMMA LeavesNodes ==
    ASSUME PairInv, \A q \in Ranks : NodeInv(q), UNCHANGED lifecycle,
           NEW p \in Procs, Leaves(p)
    PROVE  \A q \in Ranks : NodeInv(q)'
<1> USE DEF PairInv
<1>1. /\ UNCHANGED <<net, lease>>
      /\ UNCHANGED rc \/ Writes(HeadNode, {"firewall-remove"})
      /\ UNCHANGED fw \/ fw' = [fw EXCEPT ![HeadNode] = FALSE]
  BY DEF Leaves
<1>2. HeadNode \in Ranks
  BY DEF Ranks
<1>3. \A q \in Ranks : holder'[q].act \in {holder[q].act, "none"}
  <2>1. \A q \in Ranks : holder'[q] \in {holder[q], Free, [holder[q] EXCEPT !.by = Nobody]}
    BY DEF Leaves
  <2>2. \A q \in Ranks : [holder[q] EXCEPT !.by = Nobody].act = holder[q].act
    BY DEF TypeOK
  <2>3. Free.act = "none"
    BY DEF Free
  <2> QED
    BY <2>1, <2>2, <2>3
<1>4. \A q \in Ranks : fw'[q] => fw[q]
  BY <1>1, <1>2 DEF TypeOK
<1>5. \A q \in Ranks : \A name : name # "firewall-remove" => Has(q, name)' = Has(q, name)
  <2>1. CASE UNCHANGED rc
    BY <2>1 DEF Has
  <2>2. CASE Writes(HeadNode, {"firewall-remove"})
    BY <1>2, <2>2, WritesMore
  <2> QED
    BY <1>1, <2>1, <2>2
<1>6. Predeclared' = Predeclared /\ Baseline' = Baseline
  BY DEF Predeclared, Baseline
<1> SUFFICES ASSUME NEW q \in Ranks PROVE Borrowing(q)' /\ Returning(q)'
  BY DEF NodeInv
<1>7. Borrowing(q)'
  BY <1>1, <1>3, <1>4, <1>5, <1>6 DEF NodeInv, Borrowing
<1>8. Returning(q)'
  <2>1. Returned(q) => Returned(q)'
    BY <1>1, <1>4, <1>6 DEF Returned
  <2>2. Without(q, {"transition-started", "idle"})' = Without(q, {"transition-started", "idle"})
    BY <1>5 DEF Without, Has
  <2> QED
    BY <1>1, <1>3, <1>5, <2>1, <2>2 DEF NodeInv, Returning
<1> QED
  BY <1>7, <1>8

(* Every step keeps the network invariant of both nodes.                    *)
LEMMA NodesKept ==
    ASSUME PairInv, NetInv, Next
    PROVE  \A q \in Ranks : NodeInv(q)'
<1> USE DEF PairInv
<1>1. \A q \in Ranks : NodeInv(q)
  BY DEF NetInv, NodeInv
<1>2. UNCHANGED lifecycle /\ HeadNode \in Ranks
  BY DEF Next, Ranks
<1>3. ASSUME UNCHANGED <<rc, net, fw>>,
             \A q \in Ranks : lease[q] = "off" => lease'[q] = "off",
             \A q \in Ranks :
                 holder'[q].act \in {"enter", "firewall"} => holder'[q].act = holder[q].act
      PROVE  \A q \in Ranks : NodeInv(q)'
  BY <1>1, <1>2, <1>3, SilentNodes
<1>4. ASSUME NEW p \in Callers, NEW r \in Ranks, Serve(p, r)
      PROVE  \A q \in Ranks : NodeInv(q)'
  <2>1. ASSUME NEW names, Writes(r, names), UNCHANGED <<lease, net, fw>>,
               names \cap {"idle", "transition-started", "restore-started", "restored",
                           "disarmed"} = {},
               \A q \in Ranks :
                   holder'[q].act \in {"enter", "firewall"} => holder'[q].act = holder[q].act
        PROVE  \A q \in Ranks : NodeInv(q)'
    BY <1>1, <1>2, <2>1, SilentNodes
  <2>2. ASSUME NEW act, Handler(p, act, r)
        PROVE  \A q \in Ranks :
                   holder'[q].act \in {"enter", "firewall"} => holder'[q].act = holder[q].act
    BY <2>2 DEF Handler
  <2>3. CASE AcceptControllerStart(p, r)
    BY <2>1, <2>2, <2>3 DEF AcceptControllerStart
  <2>4. CASE DirectReady(p, r)
    BY <2>1, <2>2, <2>4 DEF DirectReady
  <2>5. CASE AcceptInventory(p, r)
    BY <2>1, <2>2, <2>5 DEF AcceptInventory
  <2>6. CASE AcceptPairClosure(p, r)
    BY <2>1, <2>2, <2>6 DEF AcceptPairClosure
  <2>7. CASE AcceptControllerClosure(p, r)
    <3>1. PICK b \in Packets(p, r) : Writes(r, Closing(b)) /\ UNCHANGED <<lease, net, fw>>
      BY <2>7 DEF AcceptControllerClosure
    <3>2. Closing(b) \cap {"idle", "transition-started", "restore-started", "restored",
                           "disarmed"} = {}
      BY DEF Closing
    <3>3. UNCHANGED holder
      BY <2>7 DEF AcceptControllerClosure, Handler
    <3> QED
      BY <2>1, <3>1, <3>2, <3>3
  <2>8. CASE BeginCleanup(p, r)
    <3>1. \A q \in Ranks :
              holder'[q].act \in {"enter", "firewall"} => holder'[q].act = holder[q].act
      BY <2>8, Busy DEF BeginCleanup
    <3> QED
      BY <2>1, <2>8, <3>1 DEF BeginCleanup
  <2> QED
    BY <1>1, <1>2, <1>4, <2>3, <2>4, <2>5, <2>6, <2>7, <2>8, EnterBegun, InstallBegun,
       RestoreBegun, DisarmDone DEF Serve
<1>5. ASSUME NEW r \in Ranks, Finish(r)
      PROVE  \A q \in Ranks : NodeInv(q)'
  <2>1. ASSUME holder' = [holder EXCEPT ![r] = Free]
        PROVE  \A q \in Ranks :
                   holder'[q].act \in {"enter", "firewall"} => holder'[q].act = holder[q].act
    BY <2>1 DEF Free, TypeOK
  <2>2. CASE InstallFirewall(r)
    <3>1. /\ Writes(r, {"firewall-ready"}) /\ UNCHANGED <<lease, net, fw>>
          /\ holder' = [holder EXCEPT ![r] = Free]
      BY <2>2 DEF InstallFirewall, Finishes
    <3> QED
      BY <1>1, <1>2, <2>1, <3>1, SilentNodes
  <2>3. CASE CleanupResources(r)
    <3>1. UNCHANGED <<rc, lease, net, fw>> /\ holder' = [holder EXCEPT ![r] = Free]
      BY <2>3 DEF CleanupResources, Finishes
    <3> QED
      BY <1>3, <2>1, <3>1
  <2> QED
    BY <1>1, <1>2, <1>5, <2>2, <2>3, EnterDone, RestoreDone DEF Finish
<1>6. CASE LauncherStep
  BY <1>3, <1>6 DEF LauncherStep, Submit, Replicate, Await, Local, node
<1>7. ASSUME NEW p \in Procs, Refuse(p) \/ RelayStep(p)
      PROVE  \A q \in Ranks : NodeInv(q)'
  <2>1. UNCHANGED <<rc, net, fw, lease, holder>>
    BY <1>7 DEF Refuse, RelayStep, ObserveTerminal, CleanupStatus, node
  <2> QED
    BY <1>3, <2>1
<1>11. ASSUME NEW p \in {"controller", Nobody}, NEW r \in Ranks, Ask(p, r)
       PROVE  \A q \in Ranks : NodeInv(q)'
  <2>1. UNCHANGED <<rc, fw, lease, holder>>
    BY <1>11, Asked
  <2>2. CASE StartLink(p, r) \/ StopLink(p, r) \/ StageSlot(p, r) \/ ArmSlot(p, r)
             \/ StartSlot(p, r) \/ StopSlot(p, r)
    <3>1. UNCHANGED net
      BY <2>2 DEF StartLink, StopLink, StageSlot, ArmSlot, StartSlot, StopSlot
    <3> QED
      BY <1>3, <2>1, <3>1
  <2> QED
    BY <1>1, <1>2, <1>11, <2>2, ProfileDone DEF Ask
<1>8. CASE ControllerStep
  <2>1. CASE Gate \/ AttemptChild \/ LinkOnly \/ Acknowledge \/ Trap
    BY <1>3, <2>1 DEF Gate, AttemptChild, LinkOnly, Acknowledge, Trap, Local, node
  <2> QED
    BY <1>8, <1>11, <2>1 DEF ControllerStep
<1>9. ASSUME NEW r \in Ranks, ContainerGuard(r) \/ Shorten(r) \/ Fire(r)
      PROVE  \A q \in Ranks : NodeInv(q)'
  <2>1. UNCHANGED <<rc, net, fw, holder>>
    BY <1>9 DEF ContainerGuard, Shorten, Fire
  <2>2. \A q \in Ranks : lease[q] = "off" => lease'[q] = "off"
    BY <1>9 DEF ContainerGuard, Shorten, Fire, TypeOK
  <2> QED
    BY <1>3, <2>1, <2>2
<1>10. ASSUME NEW p \in Procs, TimeOut(p) \/ Die(p)
       PROVE  \A q \in Ranks : NodeInv(q)'
  BY <1>1, <1>2, <1>10, LeavesNodes DEF TimeOut, Die
<1> QED
  BY <1>4, <1>5, <1>6, <1>7, <1>8, <1>9, <1>10, <1>11 DEF Next, Step, Callers, Relays

(* The controller's program goes one call on, or ends, or jumps from behind *)
(* both entries.                                                            *)
LEMMA ControlUp ==
    ASSUME PairInv, Next
    PROVE  \/ at'["controller"] \in {at["controller"], 1}
           \/ at'["controller"] = at["controller"] + 1 /\ status["controller"] = "on"
           \/ at["controller"] \in 4..25 /\ at'["controller"] = 26
           \/ at["controller"] \in 18..23 /\ at'["controller"] = 24
<1> USE DEF PairInv
<1>1. CASE at'["controller"] # at["controller"]
  <2>1. ~Starting
    BY <1>1, StartChanges, Processes
  <2>2. PICK p \in Procs, ok \in BOOLEAN : Answers(p, ok)
    BY <1>1, <2>1, NextMoves
  <2>3. p = "controller"
    BY <1>1, <2>2, Processes DEF Answers, Moves
  <2> QED
    BY <2>2, <2>3 DEF Answers, Moves
<1> QED
  BY <1>1

(* A call of the controller on r's network returns only from its handler.   *)
LEMMA HandlerMoves ==
    ASSUME PairInv, Next, at'["controller"] = at["controller"] + 1, NEW r \in Ranks,
           NEW act \in {"enter", "firewall"}, OnCall("controller") = <<act, r>>
    PROVE  IF act = "enter" THEN EnterIdle(r) ELSE InstallFirewall(r)
<1> USE DEF PairInv
<1>1. at["controller"] \in Nat /\ at["controller"] >= 1
  BY Processes DEF TypeOK
<1>2. ASSUME NEW p \in Procs, NEW ok \in BOOLEAN, Answers(p, ok)
      PROVE  p = "controller" /\ ok
  <2>1. p = "controller"
    BY <1>1, <1>2, Processes DEF Answers, Moves
  <2>2. ~TriesBoth("controller") /\ at["controller"] = IF act = "enter" THEN 2 + r ELSE 8 + r
    BY Positions, Processes DEF TriesBoth
  <2> QED
    BY <1>1, <1>2, <2>1, <2>2 DEF Answers, Moves, Ranks, HeadNode, WorkerNode
<1>3. \A a, q : OnCall("controller") = <<a, q>> => a = act /\ q = r
  OBVIOUS
<1>4. ASSUME NEW p \in Callers, NEW q \in Ranks, Serve(p, q)
      PROVE  FALSE
  <2>1. p \in Procs /\ Answers(p, TRUE) /\ p = "controller"
    <3>1. Answers(p, TRUE)
      <4>1. UNCHANGED <<at, status>> \/ Answers(p, TRUE)
        BY <1>4, ServeMoves
      <4>2. at' # at
        BY <1>1
      <4> QED
        BY <4>1, <4>2
    <3>2. p \in Procs
      BY <3>1 DEF Answers
    <3> QED
      BY <1>2, <3>1, <3>2
  <2>2. \A a : Handler(p, a, q) => a = act
    BY <1>3, <2>1, Processes DEF Handler, Calls, Nobody
  <2>3. \A a : ~Begins(p, a, q)
    BY <1>1 DEF Begins
  <2>4. CASE AcceptControllerStart(p, q) \/ DirectReady(p, q) \/ AcceptInventory(p, q)
    BY <2>2, <2>4 DEF AcceptControllerStart, DirectReady, AcceptInventory
  <2>5. CASE AcceptControllerClosure(p, q) \/ AcceptPairClosure(p, q) \/ Disarm(p, q)
    BY <2>2, <2>5 DEF AcceptControllerClosure, AcceptPairClosure, Disarm
  <2>6. CASE BeginEnterIdle(p, q) \/ BeginInstallFirewall(p, q) \/ BeginCleanup(p, q)
             \/ BeginRestore(p, q)
    BY <2>3, <2>6 DEF BeginEnterIdle, BeginInstallFirewall, BeginCleanup, BeginRestore
  <2> QED
    BY <1>4, <2>4, <2>5, <2>6 DEF Serve
<1>5. ASSUME NEW q \in Ranks, Finish(q)
      PROVE  q = r /\ holder[q].act = act
  <2>1. PICK a \in Long, ok \in BOOLEAN : Finishes(a, q, ok)
    <3>1. Proved(q) \in BOOLEAN
      BY DEF Proved
    <3> QED
      BY <1>5, <3>1 DEF Finish, EnterIdle, InstallFirewall, CleanupResources, Restore, Long
  <2>2. holder[q].by \in Callers
    BY DEF TypeOK
  <2>3. CASE holder[q].by = Nobody
    BY <1>1, <2>1, <2>2, <2>3, Answered DEF Finishes
  <2>4. CASE holder[q].by \in Procs
    <3>1. OnCall(holder[q].by) = <<a, q>> /\ a # "none" /\ holder[q].act = a
      BY <2>1, <2>4 DEF Finishes, Holding, Long
    <3>2. Answers(holder[q].by, ok)
      BY <2>1, <2>4, <3>1, Callable, Answering DEF Finishes, Answers
    <3>3. holder[q].by = "controller"
      BY <1>2, <2>4, <3>2
    <3> QED
      BY <1>3, <3>1, <3>3
  <2> QED
    BY <2>2, <2>3, <2>4 DEF Callers
<1>6. ASSUME NEW p \in Procs, Refuse(p) \/ TimeOut(p) \/ Die(p)
      PROVE  FALSE
  BY <1>2, <1>6, FaultMoves
<1>7. ASSUME NEW p \in Relays, RelayStep(p)
      PROVE  FALSE
  BY <1>2, <1>7, OwnMoves, Processes DEF Relays, Answers
<1>8. ASSUME Replicate
      PROVE  FALSE
  BY <1>2, <1>8, OwnMoves DEF Answers
<1>9. ASSUME NEW q \in Ranks, ContainerGuard(q) \/ Shorten(q)
      PROVE  FALSE
  BY <1>1, <1>9 DEF ContainerGuard, Shorten
<1>10. ASSUME Starting
       PROVE  FALSE
  BY <1>1, <1>10, StartChanges, Processes
<1>11. ~ControllerStep
  <2>1. \A a, q : Local("controller", a, q) => a = act
    BY <1>3 DEF Local
  <2>2. ~LinkOnly
    BY <1>3 DEF LinkOnly
  <2>3. ~(Gate \/ AttemptChild \/ Acknowledge \/ Trap)
    BY <2>1 DEF Gate, AttemptChild, Acknowledge, Trap
  <2>4. \A q \in Ranks : ~Ask("controller", q)
    BY <2>1, OwnAsked DEF RawActs
  <2> QED
    BY <2>2, <2>3, <2>4 DEF ControllerStep
<1>12. ~\E p \in Procs : Step(p) \/ TimeOut(p) \/ Die(p)
  <2> SUFFICES ASSUME NEW p \in Procs, Step(p) PROVE FALSE
    BY <1>6
  <2>1. ~\E q \in Ranks : Serve(p, q)
    BY <1>4 DEF Callers
  <2>2. ~LauncherStep
    BY <1>8, <1>10 DEF LauncherStep, Starting
  <2> QED
    BY <1>6, <1>7, <1>11, <2>1, <2>2 DEF Step
<1>13. \E q \in Ranks : Finish(q)
  <2>1. ~\E q \in Ranks : Serve(Nobody, q)
    BY <1>4 DEF Callers
  <2>2. ~\E q \in Ranks : Fire(q)
    BY <1>10 DEF Starting
  <2>3. ~\E q \in Ranks : Ask(Nobody, q)
    BY <1>1, LateAsks
  <2> QED
    BY <1>9, <1>12, <2>1, <2>2, <2>3 DEF Next
<1>14. Finish(r) /\ holder[r].act = act
  BY <1>5, <1>13
<1> QED
  BY <1>14 DEF Finish, EnterIdle, InstallFirewall, CleanupResources, Restore, Finishes

(* The controller goes on only behind its entries, and no late call asks for*)
(* rules in the predeclared lifecycle.                                      *)
LEMMA EnteringKept ==
    ASSUME RulesNeverLate, PairInv, NetInv, Next
    PROVE  Entering'
<1> USE DEF PairInv
<1>1. at["controller"] \in Nat /\ at["controller"] >= 1 /\ HeadNode \in Ranks /\ WorkerNode \in Ranks
  BY Processes DEF TypeOK, Ranks
<1>2. \A r \in Ranks : Has(r, "idle") => Has(r, "idle")'
  BY EvidenceKept DEF Witnessed, Has
<1>3. Predeclared' = Predeclared
  BY DEF Next, Predeclared
<1>4. ASSUME NEW r \in Ranks, at["controller"] = 2 + r, at'["controller"] = at["controller"] + 1
      PROVE  Has(r, "idle")'
  <2>1. status["controller"] = "on"
    BY <1>1, <1>4, ControlUp DEF Ranks, HeadNode, WorkerNode
  <2>2. OnCall("controller") = <<"enter", r>>
    BY <1>4, <2>1, Programs, ControlCalls, Processes DEF OnCall, Ranks, HeadNode, WorkerNode
  <2>3. EnterIdle(r)
    BY <1>4, <2>2, HandlerMoves
  <2> QED
    BY <2>3 DEF EnterIdle, Writes, Has, TypeOK
<1>5. at'["controller"] >= 3 => Has(HeadNode, "idle")'
  <2>1. CASE at["controller"] >= 3
    BY <1>1, <1>2, <2>1 DEF NetInv, Entering
  <2>2. CASE at["controller"] = 2 /\ at'["controller"] = 3
    BY <1>1, <1>4, <2>2 DEF HeadNode
  <2>3. ~(at["controller"] >= 3) /\ at'["controller"] >= 3
           => at["controller"] = 2 /\ at'["controller"] = 3
    BY <1>1, ControlUp
  <2> QED
    BY <2>1, <2>2, <2>3
<1>6. at'["controller"] >= 4 => Has(WorkerNode, "idle")'
  <2>1. CASE at["controller"] >= 4
    BY <1>1, <1>2, <2>1 DEF NetInv, Entering
  <2>2. CASE at["controller"] = 3 /\ at'["controller"] = 4
    BY <1>1, <1>4, <2>2 DEF WorkerNode
  <2>3. ~(at["controller"] >= 4) /\ at'["controller"] >= 4
           => at["controller"] = 3 /\ at'["controller"] = 4
    BY <1>1, ControlUp
  <2> QED
    BY <2>1, <2>2, <2>3
<1>7. ASSUME NEW c \in late', c.call[1] = "firewall"
      PROVE  Has(c.call[2], "idle")' /\ ~Predeclared'
  <2>1. TypeOK'
    BY StepTyped
  <2>2. c.call[2] \in Ranks
    BY <2>1 DEF TypeOK
  <2>3. Has(c.call[2], "idle") /\ ~Predeclared
    <3>1. CASE c \in late
      BY <1>7, <3>1 DEF NetInv, Entering
    <3>2. CASE c \notin late
      <4>1. PICK p \in Procs : /\ c.call = OnCall(p) /\ status[p] = "on"
                               /\ "firewall" \in DelayedActs[lifecycle]
        BY <1>7, <3>2, LateLeft
      <4>2. ~Predeclared
        BY <4>1 DEF RulesNeverLate, Predeclared, TypeOK
      <4>3. OnCall(p) = <<"firewall", c.call[2]>>
        BY <1>7, <4>1, CallShape DEF Callers
      <4>4. at["controller"] = 8 + c.call[2]
        BY <2>2, <4>3, Positions
      <4> QED
        BY <2>2, <4>2, <4>4 DEF NetInv, Entering, Ranks, HeadNode, WorkerNode
    <3> QED
      BY <3>1, <3>2
  <2> QED
    BY <1>2, <1>3, <2>2, <2>3
<1> QED
  BY <1>5, <1>6, <1>7 DEF Entering

(* What the receipts say of the network stays so.                           *)
LEMMA NetworkKeeps ==
    ASSUME RulesNeverLate
    PROVE  Spec => []NetInv
<1>1. Init => NetInv
  <2> SUFFICES ASSUME Init PROVE NetInv
    OBVIOUS
  <2>1. /\ \A r \in Ranks : /\ rc[r] = {"pair-armed"} /\ holder[r] = Free
                            /\ net[r] = Baseline /\ fw[r] = FALSE
        /\ at["controller"] = 1 /\ late = {}
    BY Processes DEF Init
  <2> QED
    BY <2>1 DEF NetInv, Entering, Borrowing, Returning, Has, Free, Baseline
<1>2. PairInv /\ NetInv /\ [Next]_vars => NetInv'
  <2> SUFFICES ASSUME PairInv, NetInv, [Next]_vars PROVE NetInv'
    OBVIOUS
  <2>1. CASE Next
    BY <2>1, NodesKept, EnteringKept DEF NetInv, NodeInv
  <2>2. CASE UNCHANGED vars
    <3>1. \A r \in Ranks : NodeInv(r)'
      BY <2>2, OtherNode DEF vars, NetInv, NodeInv
    <3>2. Entering'
      BY <2>2 DEF vars, NetInv, Entering, Has, Predeclared
    <3> QED
      BY <3>1, <3>2 DEF NetInv, NodeInv
  <2> QED
    BY <2>1, <2>2
<1> QED
  BY <1>1, <1>2, EvidenceKeeps, PTL DEF Spec

(* A disarmed node, or one about to be, has its network.                    *)
LEMMA HasNetwork ==
    ASSUME NetInv, NEW r \in Ranks,
           Has(r, "restored") \/ Without(r, {"transition-started", "idle"})
    PROVE  Returned(r)
  BY DEF NetInv, Borrowing, Returning, Without, Has, Returned, Baseline

(* A node without its lease has its network back, whenever calls are served *)
(* and restores killed (network.py restore, guard.py disarm).               *)
THEOREM DisarmedReturned ==
    ASSUME RulesNeverLate
    PROVE  Spec => []DisarmedMeansReturned
<1>1. NetInv => DisarmedMeansReturned
  BY HasNetwork DEF NetInv, Returning, DisarmedMeansReturned, Returned
<1> QED
  BY <1>1, NetworkKeeps, PTL
-----------------------------------------------------------------------------
(* The payload.                                                             *)

(* A controller past its gate is on.                                        *)
LEMMA ControllerOn ==
    ASSUME PairInv, at["controller"] > 1
    PROVE  status["controller"] = "on" /\ ~Over
<1>1. at["controller"] \in Nat
  BY Processes DEF PairInv, TypeOK
<1> QED
  BY <1>1, Processes DEF PairInv, Resting, Over

(* A call of the controller's own returns only from its step.               *)
LEMMA LocalMoves ==
    ASSUME PairInv, Next, at'["controller"] = at["controller"] + 1, NEW r \in Ranks,
           NEW act \in {"profile", "child", "trap"}, OnCall("controller") = <<act, r>>
    PROVE  /\ act = "profile" => Profile("controller", r)
           /\ act = "child" => AttemptChild
           /\ act = "trap" => Trap
<1> USE DEF PairInv
<1>1. at["controller"] \in Nat /\ at["controller"] >= 1
  BY Processes DEF TypeOK
<1>2. ~Starting
  BY <1>1, StartChanges, Processes
<1>3. PICK p \in Procs, ok \in BOOLEAN :
         /\ Answers(p, ok)
         /\ \/ ~ok
            \/ OnCall(p)[1] \in LockActs
            \/ p = "launcher"
            \/ p = "controller" /\ ControllerStep
            \/ p \in Relays /\ RelayStep(p)
  <2>1. at' # at
    BY <1>1
  <2> QED
    BY <1>2, <2>1, NextMoves
<1>4. p = "controller"
  BY <1>1, <1>3, Processes DEF Answers, Moves
<1>5. ~TriesBoth("controller") /\ act \notin LockActs
  BY DEF TriesBoth, LockActs
<1>6. /\ act = "profile" => at["controller"] = 4 + r
      /\ act = "child" => at["controller"] = 14
      /\ act = "trap" => at["controller"] = 26
  BY Positions, Processes
<1>7. ok
  BY <1>1, <1>3, <1>4, <1>5, <1>6 DEF Answers, Moves, Ranks, HeadNode, WorkerNode
<1>8. ControllerStep
  BY <1>3, <1>4, <1>5, <1>7, Processes DEF Relays
<1>9. \A a, q : OnCall("controller") = <<a, q>> => a = act /\ q = r
  OBVIOUS
<1>10. \A a, q : Local("controller", a, q) => a = act /\ q = r
  BY <1>9 DEF Local
<1>11. ~LinkOnly
  <2> SUFFICES ASSUME LinkOnly PROVE FALSE
    OBVIOUS
  <2>1. act = "child"
    BY <1>9 DEF LinkOnly
  <2>2. at'["controller"] = 26
    BY LinkOnlyMoves
  <2> QED
    BY <1>6, <2>1, <2>2
<1>12. CASE Gate \/ AttemptChild \/ Acknowledge \/ Trap
  BY <1>10, <1>12 DEF Gate, AttemptChild, Acknowledge, Trap
<1>13. ASSUME NEW q \in Ranks, Ask("controller", q)
       PROVE  act = "profile" /\ Profile("controller", r)
  <2>1. \A a : Raw("controller", a, q) => a = act /\ q = r
    BY <1>10, OwnAsks
  <2> QED
    BY <1>13, <2>1 DEF Ask, Profile, StartLink, StopLink, StageSlot, ArmSlot, StartSlot, StopSlot,
                       RemoveProfile
<1> QED
  BY <1>8, <1>11, <1>12, <1>13 DEF ControllerStep

(* A start that was asked for and not answered is not far.                  *)
LEMMA AwaitsMore ==
    ASSUME PairInv, Next, NEW r \in Ranks, NEW act \in {"link", "run"},
           Awaits(act, r)', ~Awaits(act, r)
    PROVE  at["controller"] = (IF act = "link" THEN 10 ELSE 22) + r
<1>1. TypeOK
  BY DEF PairInv
<1>2. PICK c \in late' : c.call = <<act, r>> /\ c \notin late
  BY DEF Awaits
<1>3. PICK p \in Procs : c.call = OnCall(p)
  BY <1>1, <1>2, LateLeft
<1>4. OnCall(p) = <<act, r>>
  BY <1>2, <1>3
<1> QED
  BY <1>1, <1>4, Positions

(* Only a controller at its links or runs makes anything run, by starting   *)
(* it or by leaving its start to be carried out late.                       *)
LEMMA ControllerStarts ==
    ASSUME PairInv, Next, NEW r \in Ranks, MayRun(r)', ~MayRun(r)
    PROVE  at["controller"] = 10 + r \/ at["controller"] = 22 + r
<1>1. TypeOK /\ Queued
  BY DEF PairInv
<1>2. ASSUME NEW act, NEW p \in {"controller", Nobody}, Raw(p, act, r), act \in {"link", "run"},
             ~Awaits(act, r)
      PROVE  at["controller"] = (IF act = "link" THEN 10 ELSE 22) + r
  <2>1. p = "controller"
    BY <1>2 DEF Raw, Calls, Delayed, Awaits
  <2>2. OnCall("controller") = <<act, r>>
    BY <1>2, <2>1, OwnAsks DEF Local
  <2> QED
    BY <1>1, <1>2, <2>2, Positions, Processes
<1>3. ASSUME NEW p \in {"controller", Nobody}, StartLink(p, r)
      PROVE  at["controller"] = 10 + r
  <2>1. Raw(p, "link", r) /\ ~Awaits("link", r)
    BY <1>3 DEF StartLink, MayRun
  <2> QED
    BY <1>2, <2>1
<1>4. ASSUME NEW p \in {"controller", Nobody}, StartSlot(p, r)
      PROVE  at["controller"] = 22 + r
  <2>1. Raw(p, "run", r) /\ ~Awaits("run", r)
    BY <1>4 DEF StartSlot, MayRun, MayServe
  <2> QED
    BY <1>2, <2>1
<1>5. \/ link'[r] = "up" \/ slot'[r] = "up"
      \/ link'[r] = "staged" /\ Awaits("link", r)'
      \/ slot'[r] = "staged" /\ Awaits("run", r)'
  BY DEF MayRun, MayServe
<1>6. link[r] # "up" /\ slot[r] # "up"
  BY DEF MayRun, MayServe
<1>7. ASSUME link'[r] = "up" \/ slot'[r] = "up"
      PROVE  \E p \in {"controller", Nobody} : StartLink(p, r) \/ StartSlot(p, r)
  <2>1. ~Stops(r)
    BY <1>6, <1>7 DEF Stops
  <2>2. ASSUME NEW p \in {"controller", Nobody}, StageSlot(p, r) \/ ArmSlot(p, r)
        PROVE  FALSE
    BY <1>1, <1>6, <1>7, <2>2 DEF StageSlot, ArmSlot, TypeOK
  <2> QED
    BY <1>1, <2>1, <2>2, ResourceSteps
<1>8. CASE link'[r] = "staged" /\ Awaits("link", r)'
  <2>1. link[r] = "staged"
    BY <1>1, <1>8, SlotStages
  <2>2. ~Awaits("link", r)
    BY <2>1 DEF MayRun
  <2> QED
    BY <1>8, <2>2, AwaitsMore
<1>9. CASE slot'[r] = "staged" /\ Awaits("run", r)'
  <2>1. ASSUME Awaits("run", r)
        PROVE  FALSE
    <3>1. PICK c \in late : c.call = <<"run", r>>
      BY <2>1 DEF Awaits
    <3>2. c.call[1] = "run" /\ c.call[2] = r
      BY <3>1
    <3>3. r = WorkerNode /\ slot[r] # "partial"
      BY <1>1, <3>2 DEF Queued, Carries, RawActs
    <3>4. slot[r] = "staged"
      BY <1>1, <1>9, <3>3, SlotStages
    <3> QED
      BY <2>1, <3>4 DEF MayRun, MayServe
  <2> QED
    BY <1>9, <2>1, AwaitsMore
<1> QED
  BY <1>3, <1>4, <1>5, <1>7, <1>8, <1>9

(* While the controller is at its profiles or beyond, or anything runs,     *)
(* interfaces become direct at most, and rules stay.                        *)
LEMMA NetHeld ==
    ASSUME PairInv, ServingInv, Next,
           at["controller"] \in 4..26 \/ \E r \in Ranks : MayRun(r)
    PROVE  /\ \A q \in Ranks : net'[q] \in {net[q], "direct"}
           /\ \A q \in Ranks : fw[q] => fw'[q]
<1> USE DEF PairInv
<1>2. \A r \in Ranks : ~Restores(r)
  <2>1. CASE at["controller"] \in 4..26
    <3>1. at["controller"] > 1
      BY <2>1
    <3> QED
      BY <3>1, ControllerOn, Alive
  <2>2. CASE \E r \in Ranks : MayRun(r)
    BY <2>2, PairClosedAlone DEF Closed
  <2> QED
    BY <2>1, <2>2
<1>3. \A r \in Ranks : holder[r].act = "enter" => at["controller"] \in 2..3
  <2> SUFFICES ASSUME NEW r \in Ranks, holder[r].act = "enter"
               PROVE  at["controller"] \in 2..3
    OBVIOUS
  <2>1. CASE holder[r].by = "controller"
    <3>1. OnCall("controller") = <<"enter", r>>
      BY <2>1, Processes DEF Holding
    <3> QED
      BY <3>1, Positions, Processes DEF Ranks, HeadNode, WorkerNode
  <2>2. CASE holder[r].by # "controller"
    <3>1. Over /\ \A q \in Ranks : ~MayRun(q)
      BY <2>2 DEF ServingInv, Strays, Stray
    <3>2. at["controller"] = 1
      BY <3>1, Processes DEF Over, Resting
    <3> QED
      BY <3>1, <3>2
  <2> QED
    BY <2>1, <2>2
<1>4. ~\E r \in Ranks : holder[r].act = "enter"
  <2>1. at["controller"] \in 2..3 => \A r \in Ranks : ~MayRun(r)
    <3>1. at["controller"] \in 2..3 => at["controller"] > 1 /\ at["controller"] <= 9
      OBVIOUS
    <3> QED
      BY <3>1, ControllerOn DEF ServingInv, Serving
  <2> QED
    BY <1>3, <2>1
<1>5. ASSUME NEW p \in Callers, NEW r \in Ranks, BeginEnterIdle(p, r)
      PROVE  FALSE
  <2>1. CASE p = Nobody
    <3>1. \E c \in late : c.call = <<"enter", r>>
      BY <1>5, <2>1 DEF BeginEnterIdle, Begins, Calls, Delayed
    <3>2. \E c \in late : c.call[1] = "enter"
      BY <3>1
    <3>3. Over /\ \A q \in Ranks : ~MayRun(q)
      BY <3>2 DEF ServingInv, Strays, Stray
    <3>4. at["controller"] = 1
      BY <3>3, Processes DEF Over, Resting
    <3> QED
      BY <3>3, <3>4
  <2>2. CASE p \in Procs
    <3>1. OnCall(p) = <<"enter", r>>
      BY <1>5, <2>2, Processes DEF BeginEnterIdle, Begins, Calls, Nobody
    <3>2. at["controller"] = 2 + r
      BY <2>2, <3>1, Positions
    <3>3. at["controller"] > 1 /\ at["controller"] <= 9 /\ at["controller"] \notin 4..26
      BY <3>2 DEF Ranks, HeadNode, WorkerNode
    <3>5. \A q \in Ranks : ~MayRun(q)
      BY <3>3, ControllerOn DEF ServingInv, Serving
    <3> QED
      BY <3>3, <3>5
  <2> QED
    BY <2>1, <2>2 DEF Callers
<1>6. ASSUME NEW r \in Ranks, RemoveProfile("controller", r)
      PROVE  FALSE
  <2>1. OnCall("controller") = <<"unprofile", r>>
    BY <1>6, OwnAsks DEF RemoveProfile, Local
  <2>2. at["controller"] = 28 - r
    BY <2>1, Positions, Processes
  <2>3. at["controller"] >= 27
    BY <2>2 DEF Ranks, HeadNode, WorkerNode
  <2> QED
    BY <2>3 DEF ServingInv, Serving
<1>7. ASSUME NEW p \in Callers, NEW r \in Ranks, BeginRestore(p, r)
      PROVE  UNCHANGED <<net, fw>>
  <2>1. Has(r, "pair-closure")
    BY <1>7 DEF BeginRestore, MayRestore, PairStopped
  <2>2. Over /\ \A q \in Ranks : ~MayRun(q)
    BY <2>1, PairClosedAlone
  <2>3. at["controller"] = 1
    BY <2>2, Processes DEF Over, Resting
  <2> QED
    BY <2>2, <2>3
<1>8. ASSUME UNCHANGED <<net, fw>>
      PROVE  /\ \A q \in Ranks : net'[q] \in {net[q], "direct"}
             /\ \A q \in Ranks : fw[q] => fw'[q]
  BY <1>8
<1>9. ASSUME NEW p \in Callers, NEW r \in Ranks, Serve(p, r)
      PROVE  net' = net /\ \A q \in Ranks : fw[q] => fw'[q]
  <2>1. CASE BeginInstallFirewall(p, r)
    BY <2>1 DEF BeginInstallFirewall, TypeOK
  <2> QED
    BY <1>5, <1>7, <1>9, <2>1 DEF Serve, AcceptControllerStart, DirectReady, AcceptInventory,
       AcceptControllerClosure, AcceptPairClosure, Disarm, BeginCleanup
<1>10. ASSUME NEW r \in Ranks, Finish(r)
       PROVE  UNCHANGED <<net, fw>>
  <2>1. ~EnterIdle(r)
    BY <1>4 DEF EnterIdle, Finishes
  <2>2. ~Restore(r)
    BY <1>2 DEF Restore, Finishes, Restores
  <2> QED
    BY <1>10, <2>1, <2>2 DEF Finish, InstallFirewall, CleanupResources
<1>11. ASSUME NEW p \in Procs, Leaves(p)
       PROVE  UNCHANGED <<net, fw>>
  <2>1. holder[HeadNode].act # "restore"
    BY <1>2 DEF Restores, Ranks
  <2> QED
    BY <1>11, <2>1 DEF Leaves
<1>12. CASE LauncherStep
  BY <1>12 DEF LauncherStep, Submit, Replicate, Await, node
<1>13. ASSUME NEW p \in Procs, Refuse(p) \/ RelayStep(p)
       PROVE  UNCHANGED <<net, fw>>
  BY <1>13 DEF Refuse, RelayStep, ObserveTerminal, CleanupStatus, node
<1>14. ASSUME NEW r \in Ranks, ContainerGuard(r) \/ Shorten(r) \/ Fire(r)
       PROVE  UNCHANGED <<net, fw>>
  BY <1>14 DEF ContainerGuard, Shorten, Fire
<1>16. ASSUME NEW r \in Ranks, RemoveProfile(Nobody, r)
       PROVE  FALSE
  <2>1. \E c \in late : c.call = <<"unprofile", r>>
    BY <1>16 DEF RemoveProfile, Raw, Calls, Delayed
  <2>2. \E c \in late : c.call[1] = "unprofile"
    BY <2>1
  <2>3. Over /\ \A q \in Ranks : ~MayRun(q)
    BY <2>2 DEF ServingInv, Strays, Stray
  <2>4. at["controller"] = 1
    BY <2>3, Processes DEF Over, Resting
  <2> QED
    BY <2>3, <2>4
<1>17. ASSUME NEW p \in {"controller", Nobody}, NEW r \in Ranks, Ask(p, r)
       PROVE  fw' = fw /\ \A q \in Ranks : net'[q] \in {net[q], "direct"}
  <2>1. fw' = fw
    BY <1>17, Asked
  <2>2. CASE Profile(p, r)
    BY <2>1, <2>2 DEF Profile, TypeOK
  <2>3. ~RemoveProfile(p, r)
    BY <1>6, <1>16
  <2> QED
    BY <1>17, <2>1, <2>2, <2>3 DEF Ask, StartLink, StopLink, StageSlot, ArmSlot, StartSlot, StopSlot
<1>15. CASE ControllerStep
  <2>1. CASE Gate \/ AttemptChild \/ LinkOnly \/ Acknowledge \/ Trap
    BY <2>1 DEF Gate, AttemptChild, LinkOnly, Acknowledge, Trap, node
  <2> QED
    BY <1>15, <1>17, <2>1 DEF ControllerStep
<1> QED
  BY <1>8, <1>9, <1>10, <1>11, <1>12, <1>13, <1>14, <1>15, <1>17 DEF Next, Step, Callers, TimeOut, Die

(* Only a controller that gives up its entry, or at its end the profile of  *)
(* the worker, leaves one behind.                                           *)
LEMMA StrayLeft ==
    ASSUME PairInv, Next, Stray', ~Stray
    PROVE  at["controller"] \in {2, 3, 27} /\ Over'
<1> USE DEF PairInv
<1>1. ASSUME NEW p \in Procs, TimeOut(p) \/ Die(p),
             \/ OnCall(p)[1] = "enter"
             \/ OnCall(p) = <<"unprofile", WorkerNode>>
      PROVE  at["controller"] \in {2, 3, 27} /\ Over'
  <2>1. PICK r \in Ranks : OnCall(p) = <<"enter", r>> \/ (OnCall(p) = <<"unprofile", r>> /\ r = 1)
    <3>1. WorkerNode \in Ranks /\ WorkerNode = 1
      BY DEF Ranks, WorkerNode
    <3> QED
      BY <1>1, <3>1, CallShape DEF Callers
  <2>2. p = "controller" /\ at[p] = (IF OnCall(p) = <<"enter", r>> THEN 2 + r ELSE 28 - r)
    <3>1. CASE OnCall(p) = <<"enter", r>>
      BY <3>1, Positions
    <3>2. CASE OnCall(p) = <<"unprofile", r>>
      <4>1. OnCall(p) # <<"enter", r>>
        BY <3>2
      <4> QED
        BY <3>2, <4>1, Positions
    <3> QED
      BY <2>1, <3>1, <3>2
  <2>3. at[p] \in {2, 3, 27}
    BY <2>1, <2>2 DEF Ranks, HeadNode, WorkerNode
  <2>4. Answers(p, FALSE)
    BY <1>1, FaultMoves
  <2>5. ~TriesBoth(p)
    BY <1>1 DEF TriesBoth
  <2>6. Over'
    BY <2>2, <2>3, <2>4, <2>5 DEF Answers, Moves, Over
  <2> QED
    BY <2>2, <2>3, <2>6
<1>2. ASSUME NEW c \in late', c.call[1] \in {"enter", "unprofile"}, c \notin late
      PROVE  \E p \in Procs : /\ TimeOut(p) \/ Die(p)
                              /\ \/ OnCall(p)[1] = "enter"
                                 \/ OnCall(p) = <<"unprofile", WorkerNode>>
  <2>1. PICK p \in Procs : /\ TimeOut(p) \/ Die(p)
                           /\ c.call = OnCall(p)
                           /\ c.call[2] = WorkerNode \/ c.call[1] = "inventory"
    BY <1>2, LateLeft
  <2>2. OnCall(p) = <<OnCall(p)[1], OnCall(p)[2]>>
    BY CallShape DEF Callers
  <2> QED
    BY <1>2, <2>1, <2>2
<1>3. ASSUME NEW r \in Ranks, holder'[r].act = "enter", holder'[r].by # "controller"
      PROVE  \E p \in Procs : (TimeOut(p) \/ Die(p)) /\ OnCall(p)[1] = "enter"
  <2>1. holder[r].act = "enter" => holder[r].by = "controller"
    BY DEF Stray
  <2>2. holder'[r] # holder[r]
    BY <1>3, <2>1
  <2>3. ASSUME NEW p \in Callers, NEW q \in Ranks, NEW act, Begins(p, act, q)
        PROVE  act = "enter" => p = "controller"
    <3> SUFFICES ASSUME act = "enter" PROVE p = "controller"
      OBVIOUS
    <3>1. CASE p = Nobody
      <4>1. Delayed("enter", q) # {}
        BY <2>3, <3>1 DEF Begins, Calls
      <4>2. \E c \in late : c.call = <<"enter", q>>
        BY <4>1 DEF Delayed
      <4>3. \E c \in late : c.call[1] = "enter"
        BY <4>2
      <4> QED
        BY <4>3 DEF Stray
    <3>2. CASE p \in Procs
      <4>1. OnCall(p) = <<"enter", q>>
        BY <2>3, <3>2, Processes DEF Begins, Calls, Nobody
      <4> QED
        BY <3>2, <4>1, Positions
    <3> QED
      BY <3>1, <3>2 DEF Callers
  <2>4. ASSUME NEW p \in Callers, NEW q \in Ranks, NEW act, Begins(p, act, q)
        PROVE  FALSE
    <3>1. holder' = [holder EXCEPT ![q] = [act |-> act, by |-> p]]
      BY <2>4 DEF Begins
    <3>2. holder'[r] = holder[r] \/ holder'[r] = [act |-> act, by |-> p]
      BY <3>1 DEF TypeOK
    <3>3. holder'[r] = [act |-> act, by |-> p]
      BY <2>2, <3>2
    <3>4. act = "enter" /\ p # "controller"
      BY <1>3, <3>3
    <3> QED
      BY <2>3, <2>4, <3>4
  <2>5. ASSUME NEW p \in Callers, NEW q \in Ranks, Serve(p, q)
        PROVE  FALSE
    <3>1. \A act : ~Begins(p, act, q)
      BY <2>4
    <3>2. \A act : Handler(p, act, q) => UNCHANGED holder
      BY DEF Handler
    <3>3. holder' # holder
      BY <2>2
    <3> QED
      BY <2>5, <3>1, <3>2, <3>3 DEF Serve, AcceptControllerStart, DirectReady, AcceptInventory,
         AcceptControllerClosure, AcceptPairClosure, Disarm, BeginEnterIdle,
         BeginInstallFirewall, BeginCleanup, BeginRestore
  <2>6. ASSUME NEW q \in Ranks, Finish(q)
        PROVE  FALSE
    <3>1. holder' = [holder EXCEPT ![q] = Free]
      BY <2>6 DEF Finish, EnterIdle, InstallFirewall, CleanupResources, Restore, Finishes
    <3>2. holder'[r] = holder[r] \/ holder'[r] = Free
      BY <3>1 DEF TypeOK
    <3>3. Free.act = "none"
      BY DEF Free
    <3> QED
      BY <1>3, <2>2, <3>2, <3>3
  <2>7. ASSUME NEW p \in Procs, TimeOut(p) \/ Die(p)
        PROVE  OnCall(p)[1] = "enter"
    <3>1. holder'[r] = IF holder[r].by # p THEN holder[r]
                       ELSE IF r = HeadNode THEN Free ELSE [holder[r] EXCEPT !.by = Nobody]
      BY <2>7 DEF TimeOut, Die, Leaves
    <3>2. holder[r].by = p /\ r # HeadNode
      BY <1>3, <2>2, <3>1 DEF Free
    <3>3. holder[r].act = "enter"
      BY <1>3, <3>1, <3>2 DEF TypeOK
    <3>4. OnCall(p) = <<"enter", r>>
      BY <3>2, <3>3 DEF Holding
    <3> QED
      BY <3>4
  <2>11. ASSUME NEW p \in {"controller", Nobody}, NEW q \in Ranks, Ask(p, q)
         PROVE  UNCHANGED holder
    BY <2>11, Asked
  <2>8. LauncherStep \/ ControllerStep => UNCHANGED holder
    BY <2>11 DEF LauncherStep, Submit, Replicate, Await, ControllerStep, Gate, AttemptChild, LinkOnly,
       Acknowledge, Trap, Local
  <2>9. ASSUME NEW p \in Procs, Refuse(p) \/ RelayStep(p)
        PROVE  UNCHANGED holder
    BY <2>9 DEF Refuse, RelayStep, ObserveTerminal, CleanupStatus
  <2>10. ASSUME NEW q \in Ranks, ContainerGuard(q) \/ Shorten(q) \/ Fire(q)
        PROVE  UNCHANGED holder
    BY <2>10 DEF ContainerGuard, Shorten, Fire
  <2> QED
    BY <2>2, <2>5, <2>6, <2>7, <2>8, <2>9, <2>10, <2>11 DEF Next, Step, Callers
<1> QED
  BY <1>1, <1>2, <1>3 DEF Stray

(* Stray entries find a dead run.                                           *)
LEMMA StraysKept ==
    ASSUME PairInv, ServingInv, Next
    PROVE  Strays'
<1> USE DEF PairInv
<1> SUFFICES ASSUME Stray'
             PROVE  Over' /\ \A q \in Ranks : ~MayRun(q)'
  BY DEF Strays, Stray
<1>1. at["controller"] \in Nat
  BY Processes DEF TypeOK
<1>2. CASE Stray
  <2>1. Over /\ \A q \in Ranks : ~MayRun(q)
    BY <1>2 DEF ServingInv, Strays, Stray
  <2>2. at["controller"] = 1 /\ Over'
    BY <2>1, RestingKept, Processes DEF Over, Resting
  <2>3. ASSUME NEW q \in Ranks, MayRun(q)'
        PROVE  FALSE
    <3>1. at["controller"] = 10 + q \/ at["controller"] = 22 + q
      BY <2>1, <2>3, ControllerStarts
    <3> QED
      BY <2>2, <3>1 DEF Ranks, HeadNode, WorkerNode
  <2> QED
    BY <2>2, <2>3
<1>3. CASE ~Stray
  <2>1. at["controller"] \in {2, 3, 27} /\ Over'
    BY <1>3, StrayLeft
  <2>2. at["controller"] > 1 /\ (at["controller"] <= 9 \/ at["controller"] >= 27)
    BY <2>1
  <2>3. \A q \in Ranks : ~MayRun(q)
    BY <2>2, ControllerOn DEF ServingInv, Serving
  <2>4. ASSUME NEW q \in Ranks, MayRun(q)'
        PROVE  FALSE
    <3>1. at["controller"] = 10 + q \/ at["controller"] = 22 + q
      BY <2>3, <2>4, ControllerStarts
    <3> QED
      BY <2>1, <3>1 DEF Ranks, HeadNode, WorkerNode
  <2> QED
    BY <2>1, <2>4
<1> QED
  BY <1>2, <1>3

(* From the profiles on, what the controller has taken it holds.            *)
LEMMA ServingHeld ==
    ASSUME PairInv, ServingInv, Next
    PROVE  /\ at'["controller"] \in 5..25 => net'[HeadNode] = "direct"
           /\ at'["controller"] \in 6..25 => net'[WorkerNode] = "direct"
           /\ at'["controller"] \in 9..25 => fw'[HeadNode]
           /\ at'["controller"] \in 10..25 => fw'[WorkerNode]
<1> USE DEF PairInv
<1>1. at["controller"] \in Nat /\ at["controller"] >= 1 /\ HeadNode \in Ranks /\ WorkerNode \in Ranks
      /\ HeadNode = 0 /\ WorkerNode = 1
  BY Processes DEF TypeOK, Ranks, HeadNode, WorkerNode
<1>2. ASSUME NEW i \in 5..10, at'["controller"] \in i..25, at["controller"] \notin i..25
      PROVE  /\ at["controller"] = i - 1 /\ at'["controller"] = at["controller"] + 1
             /\ status["controller"] = "on"
  BY <1>1, <1>2, ControlUp
<1>3. ASSUME at["controller"] \in 4..26
      PROVE  /\ \A q \in Ranks : net[q] = "direct" => net'[q] = "direct"
             /\ \A q \in Ranks : fw[q] => fw'[q]
  BY <1>3, NetHeld
<1>4. ASSUME status["controller"] = "on", NEW r \in Ranks, at["controller"] = 4 + r,
             at'["controller"] = at["controller"] + 1
      PROVE  net'[r] = "direct"
  <2>1. OnCall("controller") = <<"profile", r>>
    BY <1>4, Programs, ControlCalls, Processes DEF OnCall, Ranks, HeadNode, WorkerNode
  <2>2. Profile("controller", r)
    BY <1>4, <2>1, LocalMoves
  <2> QED
    BY <2>2 DEF Profile, TypeOK
<1>5. ASSUME status["controller"] = "on", NEW r \in Ranks, at["controller"] = 8 + r,
             at'["controller"] = at["controller"] + 1
      PROVE  fw'[r]
  <2>1. OnCall("controller") = <<"firewall", r>>
    BY <1>5, Programs, ControlCalls, Processes DEF OnCall, Ranks, HeadNode, WorkerNode
  <2>2. InstallFirewall(r)
    BY <1>5, <2>1, HandlerMoves
  <2>3. fw[r] /\ fw' = fw
    BY <2>2 DEF InstallFirewall, Finishes, ServingInv, Serving
  <2> QED
    BY <2>3
<1>6. at'["controller"] \in 5..25 => net'[HeadNode] = "direct"
  <2>1. CASE at["controller"] \in 5..25
    BY <1>1, <1>3, <2>1 DEF ServingInv, Serving
  <2>2. CASE at'["controller"] \in 5..25 /\ at["controller"] \notin 5..25
    BY <1>1, <1>2, <1>4, <2>2
  <2> QED
    BY <2>1, <2>2
<1>7. at'["controller"] \in 6..25 => net'[WorkerNode] = "direct"
  <2>1. CASE at["controller"] \in 6..25
    BY <1>1, <1>3, <2>1 DEF ServingInv, Serving
  <2>2. CASE at'["controller"] \in 6..25 /\ at["controller"] \notin 6..25
    BY <1>1, <1>2, <1>4, <2>2
  <2> QED
    BY <2>1, <2>2
<1>8. at'["controller"] \in 9..25 => fw'[HeadNode]
  <2>1. CASE at["controller"] \in 9..25
    BY <1>1, <1>3, <2>1 DEF ServingInv, Serving
  <2>2. CASE at'["controller"] \in 9..25 /\ at["controller"] \notin 9..25
    BY <1>1, <1>2, <1>5, <2>2
  <2> QED
    BY <2>1, <2>2
<1>9. at'["controller"] \in 10..25 => fw'[WorkerNode]
  <2>1. CASE at["controller"] \in 10..25
    BY <1>1, <1>3, <2>1 DEF ServingInv, Serving
  <2>2. CASE at'["controller"] \in 10..25 /\ at["controller"] \notin 10..25
    BY <1>1, <1>2, <1>5, <2>2
  <2> QED
    BY <2>1, <2>2
<1> QED
  BY <1>6, <1>7, <1>8, <1>9

(* Rules being inserted are there, unless their node is being restored.     *)
LEMMA RulesHeld ==
    ASSUME PairInv, ServingInv, Next, NEW r \in Ranks, holder'[r].act = "firewall"
    PROVE  fw'[r]
<1> USE DEF PairInv
<1>1. ASSUME holder[r].act = "firewall", ~fw'[r]
      PROVE  FALSE
  <2>1. fw[r]
    BY <1>1 DEF ServingInv, Serving
  <2>2. holder[r].act # "restore" /\ fw'[r] # fw[r] /\ holder[r] # Free
    <3>1. Free.act = "none"
      BY DEF Free
    <3> QED
      BY <1>1, <2>1, <3>1
  <2>3. ASSUME NEW p \in Callers, NEW q \in Ranks, Serve(p, q)
        PROVE  FALSE
    <3>1. CASE BeginInstallFirewall(p, q)
      BY <1>1, <2>1, <3>1 DEF BeginInstallFirewall, TypeOK
    <3> QED
      BY <2>2, <2>3, <3>1 DEF Serve, AcceptControllerStart, DirectReady, AcceptInventory,
         AcceptControllerClosure, AcceptPairClosure, Disarm, BeginEnterIdle, BeginCleanup,
         BeginRestore
  <2>4. ASSUME NEW q \in Ranks, Finish(q)
        PROVE  FALSE
    <3>1. CASE Restore(q)
      <4>1. q # r
        BY <2>2, <3>1 DEF Restore, Finishes
      <4> QED
        BY <2>2, <3>1, <4>1 DEF Restore, TypeOK
    <3> QED
      BY <2>2, <2>4, <3>1 DEF Finish, EnterIdle, InstallFirewall, CleanupResources
  <2>5. ASSUME NEW p \in Procs, Leaves(p)
        PROVE  FALSE
    <3>1. \/ fw' = fw
          \/ holder[HeadNode].act = "restore" /\ fw' = [fw EXCEPT ![HeadNode] = FALSE]
      BY <2>5 DEF Leaves
    <3> QED
      BY <2>2, <3>1 DEF TypeOK
  <2>9. ASSUME NEW p \in {"controller", Nobody}, NEW q \in Ranks, Ask(p, q)
        PROVE  UNCHANGED fw
    BY <2>9, Asked
  <2>6. LauncherStep \/ ControllerStep => UNCHANGED fw
    BY <2>9 DEF LauncherStep, Submit, Replicate, Await, ControllerStep, Gate, AttemptChild, LinkOnly,
       Acknowledge, Trap, node
  <2>7. ASSUME NEW p \in Procs, Refuse(p) \/ RelayStep(p)
        PROVE  UNCHANGED fw
    BY <2>7 DEF Refuse, RelayStep, ObserveTerminal, CleanupStatus, node
  <2>8. ASSUME NEW q \in Ranks, ContainerGuard(q) \/ Shorten(q) \/ Fire(q)
        PROVE  UNCHANGED fw
    BY <2>8 DEF ContainerGuard, Shorten, Fire
  <2> QED
    BY <2>2, <2>3, <2>4, <2>5, <2>6, <2>7, <2>8, <2>9 DEF Next, Step, Callers, TimeOut, Die
<1>2. ASSUME holder[r].act # "firewall"
      PROVE  fw'[r]
  BY <1>2, LongBegins DEF BeginInstallFirewall, TypeOK
<1> QED
  BY <1>1, <1>2

(* A controller that ends is over.                                          *)
LEMMA Ended ==
    ASSUME PairInv, Next, at'["controller"] = 1, at["controller"] # 1
    PROVE  Over'
<1> USE DEF PairInv
<1>1. at["controller"] \in Nat /\ at["controller"] >= 1
  BY Processes DEF TypeOK
<1>2. ~Starting
  BY StartChanges, Processes
<1>3. PICK p \in Procs, ok \in BOOLEAN : Answers(p, ok)
  BY <1>2, NextMoves
<1>4. p = "controller"
  BY <1>3, Processes DEF Answers, Moves
<1> QED
  BY <1>1, <1>3, <1>4 DEF Answers, Moves, Over

(* The payload parent is attempted before it is acknowledged.               *)
LEMMA ChildKept ==
    ASSUME PairInv, ServingInv, Next
    PROVE  /\ at'["controller"] \in 15..25 => "child" \in shared'
           /\ "ack" \in shared' => "child" \in shared'
<1> USE DEF PairInv
<1>1. at["controller"] \in Nat /\ at["controller"] >= 1
  BY Processes DEF TypeOK
<1>2. "child" \in shared => "child" \in shared'
  <2>1. ASSUME NEW p \in Callers, NEW r \in Ranks, Serve(p, r)
        PROVE  UNCHANGED shared
    <3>1. \A act : Handler(p, act, r) \/ Begins(p, act, r) => UNCHANGED shared
      BY DEF Handler, Begins
    <3> QED
      BY <2>1, <3>1 DEF Serve, AcceptControllerStart, DirectReady, AcceptInventory,
         AcceptControllerClosure, AcceptPairClosure, Disarm, BeginEnterIdle,
         BeginInstallFirewall, BeginCleanup, BeginRestore
  <2>2. ASSUME NEW r \in Ranks, Finish(r) \/ ContainerGuard(r) \/ Shorten(r) \/ Fire(r)
        PROVE  UNCHANGED shared
    BY <2>2 DEF Finish, EnterIdle, InstallFirewall, CleanupResources, Restore, Finishes,
                ContainerGuard, Shorten, Fire
  <2>3. ASSUME NEW p \in Procs, Refuse(p) \/ RelayStep(p) \/ TimeOut(p) \/ Die(p)
        PROVE  UNCHANGED shared
    BY <2>3 DEF Refuse, RelayStep, ObserveTerminal, CleanupStatus, TimeOut, Die, Leaves
  <2>4. LauncherStep => shared \subseteq shared'
    BY DEF LauncherStep, Submit, Replicate, Await
  <2>6. ASSUME NEW p \in {"controller", Nobody}, NEW r \in Ranks, Ask(p, r)
        PROVE  UNCHANGED shared
    BY <2>6, Asked
  <2>5. ControllerStep => shared \subseteq shared'
    BY <2>6 DEF ControllerStep, Gate, AttemptChild, LinkOnly, Acknowledge, Trap, node
  <2> QED
    BY <2>1, <2>2, <2>3, <2>4, <2>5, <2>6 DEF Next, Step, Callers
<1>3. at'["controller"] \in 15..25 => "child" \in shared'
  <2>1. CASE at["controller"] \in 15..25
    BY <1>2, <2>1 DEF ServingInv, Serving
  <2>2. CASE at'["controller"] \in 15..25 /\ at["controller"] \notin 15..25
    <3>1. at["controller"] = 14 /\ at'["controller"] = at["controller"] + 1
          /\ status["controller"] = "on"
      BY <1>1, <2>2, ControlUp
    <3>2. OnCall("controller") = <<"child", HeadNode>>
      BY <3>1, Programs, ControlCalls, Processes DEF OnCall, HeadNode
    <3>3. AttemptChild
      BY <3>1, <3>2, LocalMoves DEF Ranks
    <3> QED
      BY <3>3 DEF AttemptChild
  <2> QED
    BY <2>1, <2>2
<1>4. ASSUME "ack" \in shared'
      PROVE  "child" \in shared'
  <2>1. CASE "ack" \in shared
    BY <1>2, <2>1 DEF ServingInv, Serving
  <2>2. CASE "ack" \notin shared
    <3>1. Acknowledge
      BY <1>4, <2>2, AckKept
    <3>2. OnCall("controller") = <<"ack", HeadNode>>
      BY <3>1 DEF Acknowledge, Local
    <3>3. at["controller"] = 17
      BY <3>2, Positions, Processes DEF Ranks
    <3> QED
      BY <1>2, <3>3 DEF ServingInv, Serving
  <2> QED
    BY <2>1, <2>2
<1> QED
  BY <1>3, <1>4

(* Nothing runs before the rules nor behind the trap.                       *)
LEMMA QuietKept ==
    ASSUME PairInv, ServingInv, Next
    PROVE  /\ at'["controller"] <= 9 => Over' \/ \A r \in Ranks : ~MayRun(r)'
           /\ at'["controller"] >= 27 => \A r \in Ranks : ~MayRun(r)'
<1> USE DEF PairInv
<1>1. at["controller"] \in Nat /\ at["controller"] >= 1
  BY Processes DEF TypeOK
<1>2. ASSUME at'["controller"] <= 9, ~Over', NEW r \in Ranks, MayRun(r)'
      PROVE  FALSE
  <2>1. ~Over
    BY <1>2, RestingKept
  <2>2. \/ at["controller"] <= 9
        \/ at'["controller"] = 1 /\ at["controller"] # 1
    BY <1>1, <1>2, ControlUp
  <2>3. CASE at["controller"] <= 9
    <3>1. ~MayRun(r)
      BY <2>1, <2>3 DEF ServingInv, Serving
    <3>2. at["controller"] = 10 + r \/ at["controller"] = 22 + r
      BY <1>2, <3>1, ControllerStarts
    <3> QED
      BY <2>3, <3>2 DEF Ranks, HeadNode, WorkerNode
  <2>4. CASE at'["controller"] = 1 /\ at["controller"] # 1
    BY <1>2, <2>4, Ended
  <2> QED
    BY <2>2, <2>3, <2>4
<1>3. ASSUME at'["controller"] >= 27, NEW r \in Ranks, MayRun(r)'
      PROVE  FALSE
  <2>1. at["controller"] >= 27 \/ (at["controller"] = 26 /\ at'["controller"] = at["controller"] + 1
                                   /\ status["controller"] = "on")
    BY <1>1, <1>3, ControlUp
  <2>2. CASE at["controller"] >= 27
    <3>1. ~MayRun(r)
      BY <2>2 DEF ServingInv, Serving
    <3>2. at["controller"] = 10 + r \/ at["controller"] = 22 + r
      BY <1>3, <3>1, ControllerStarts
    <3> QED
      BY <2>2, <3>2 DEF Ranks, HeadNode, WorkerNode
  <2>3. CASE at["controller"] = 26 /\ at'["controller"] = at["controller"] + 1
             /\ status["controller"] = "on"
    <3>1. OnCall("controller") = <<"trap", HeadNode>>
      BY <2>3, Programs, ControlCalls, Processes DEF OnCall, HeadNode
    <3>2. Trap
      BY <2>3, <3>1, LocalMoves DEF Ranks
    <3>3. slot' = slot /\ (link'[r] = "stopped" \/ (link' = link /\ link[r] = "staged"))
      BY <3>2 DEF Trap
    <3>5. late' = late
      BY <3>2 DEF Trap, Local
    <3>6. link[r] = "staged" /\ link' = link => ~Awaits("link", r)'
      <4> SUFFICES ASSUME link[r] = "staged", link' = link, NEW c \in late, c.call = <<"link", r>>
                   PROVE  FALSE
        BY <3>5 DEF Awaits
      <4>1. c.call[1] = "link" /\ c.call[2] = r
        OBVIOUS
      <4>2. r = WorkerNode /\ link[HeadNode] # "staged"
        BY <4>1 DEF Queued, Carries, RawActs
      <4>3. link'[HeadNode] = "staged" \/ link'[r] = "stopped"
        BY <3>2 DEF Trap, Ranks
      <4> QED
        BY <4>2, <4>3
    <3>4. slot[r] \notin {"up", "staged"}
      <4>1. CASE "child" \in shared
        BY <3>2, <4>1 DEF Trap, TrapProof
      <4>2. CASE "child" \notin shared
        <5>1. "ack" \notin shared
          BY <4>2 DEF ServingInv, Serving
        <5> QED
          BY <5>1 DEF Acknowledged
      <4> QED
        BY <4>1, <4>2
    <3> QED
      BY <1>3, <3>3, <3>4, <3>6 DEF MayRun, MayServe
  <2> QED
    BY <2>1, <2>2, <2>3
<1> QED
  BY <1>2, <1>3

(* What runs, or is about to, keeps its network.                            *)
LEMMA PayloadKept ==
    ASSUME PairInv, ServingInv, Next
    PROVE  Provided'
<1> SUFFICES ASSUME NEW r \in Ranks, NEW q \in Ranks, MayRun(r)'
             PROVE  net'[q] = "direct" /\ fw'[q]
  BY DEF Provided
<1>1. net[q] = "direct" /\ fw[q] /\ (at["controller"] \in 4..26 \/ \E s \in Ranks : MayRun(s))
  <2>1. CASE MayRun(r)
    BY <2>1 DEF ServingInv, Provided
  <2>2. CASE ~MayRun(r)
    <3>1. at["controller"] = 10 + r \/ at["controller"] = 22 + r
      BY <2>2, ControllerStarts
    <3>2. at["controller"] \in 10..25 /\ at["controller"] \in 4..26
      BY <3>1 DEF Ranks, HeadNode, WorkerNode
    <3> QED
      BY <3>2 DEF ServingInv, Serving, Ranks
  <2> QED
    BY <2>1, <2>2
<1>2. net'[q] \in {net[q], "direct"} /\ (fw[q] => fw'[q])
  BY <1>1, NetHeld
<1> QED
  BY <1>1, <1>2

(* What the controller has taken and not given back stays so.               *)
LEMMA ServingKeeps == Spec => []ServingInv
<1>1. Init => ServingInv
  <2> SUFFICES ASSUME Init PROVE ServingInv
    OBVIOUS
  <2>1. /\ \A r \in Ranks : holder[r] = Free /\ link[r] = "staged" /\ slot[r] = "absent"
        /\ at["controller"] = 1 /\ late = {} /\ shared = {}
    BY Processes DEF Init
  <2>2. Free.act = "none" /\ \A r \in Ranks : ~MayRun(r)
    BY <2>1 DEF Free, MayRun, MayServe, Awaits
  <2>3. Strays
    BY <2>1, <2>2 DEF Strays, Stray
  <2>4. Serving
    BY <2>1, <2>2 DEF Serving
  <2>5. Provided
    BY <2>2 DEF Provided
  <2> QED
    BY <2>3, <2>4, <2>5 DEF ServingInv
<1>2. PairInv /\ ServingInv /\ [Next]_vars => ServingInv'
  <2> SUFFICES ASSUME PairInv, ServingInv, [Next]_vars PROVE ServingInv'
    OBVIOUS
  <2>1. CASE Next
    <3>1. Strays'
      BY <2>1, StraysKept
    <3>2. Serving'
      <4>1. /\ at'["controller"] \in 5..25 => net'[HeadNode] = "direct"
            /\ at'["controller"] \in 6..25 => net'[WorkerNode] = "direct"
            /\ at'["controller"] \in 9..25 => fw'[HeadNode]
            /\ at'["controller"] \in 10..25 => fw'[WorkerNode]
        BY <2>1, ServingHeld
      <4>2. \A r \in Ranks : holder'[r].act = "firewall" => fw'[r]
        BY <2>1, RulesHeld
      <4>3. /\ at'["controller"] <= 9 => Over' \/ \A r \in Ranks : ~MayRun(r)'
            /\ at'["controller"] >= 27 => \A r \in Ranks : ~MayRun(r)'
        BY <2>1, QuietKept
      <4>4. /\ at'["controller"] \in 15..25 => "child" \in shared'
            /\ "ack" \in shared' => "child" \in shared'
        BY <2>1, ChildKept
      <4> QED
        BY <4>1, <4>2, <4>3, <4>4 DEF Serving
    <3>3. Provided'
      BY <2>1, PayloadKept
    <3> QED
      BY <3>1, <3>2, <3>3 DEF ServingInv
  <2>2. CASE UNCHANGED vars
    BY <2>2 DEF vars, ServingInv, Strays, Stray, Serving, Provided, MayRun, MayServe, Awaits, Over
  <2> QED
    BY <2>1, <2>2
<1> QED
  BY <1>1, <1>2, EvidenceKeeps, PTL DEF Spec

(* The direct network is never pulled from under a link test or a payload   *)
(* (deuces-direct-model.sh's EXIT trap and the recoveries of guard.py),     *)
(* whoever dies, whatever times out, however early the timers fire and      *)
(* however late a call of the dead controller enters.                       *)
THEOREM PayloadServed == Spec => []PayloadKeepsNetwork
<1>1. ServingInv => PayloadKeepsNetwork
  BY DEF ServingInv, Provided, PayloadKeepsNetwork, MayRun, MayServe, Running
<1> QED
  BY <1>1, ServingKeeps, PTL

-----------------------------------------------------------------------------
(* The promise.                                                             *)

(* A restore under way has either said so, or found nothing to return.      *)
Unwinding ==
    \A r \in Ranks : holder[r].act = "restore" => Has(r, "restore-started") \/ Returned(r)

(* A step that neither borrows nor returns nor starts is at most a stop.    *)
LEMMA AtMostStops ==
    ASSUME \A q \in Ranks : /\ Borrowed(q)' = Borrowed(q)
                            /\ Running(q)' => Running(q)
                            /\ ReturnBegun(q)' = ReturnBegun(q)
                            /\ Has(q, "disarmed")' = Has(q, "disarmed")
    PROVE  Promise!Stop
  BY DEF Promise!Stop, ReturnBegun

(* Nothing that BorrowedPair sees is changed by receipts of other names.    *)
LEMMA SilentReceipts ==
    ASSUME TypeOK, NEW r \in Ranks, NEW names, Writes(r, names),
           names \cap {"restore-started", "restored", "unchanged", "disarmed"} = {}
    PROVE  \A q \in Ranks : ReturnBegun(q)' = ReturnBegun(q) /\ Has(q, "disarmed")' = Has(q, "disarmed")
<1>1. \A q \in Ranks : rc'[q] = rc[q] \/ rc'[q] = rc[q] \cup names
  BY AtNode
<1> QED
  BY <1>1 DEF ReturnBegun, Without, Has

(* Nor by a step that leaves interfaces and rules alone,                    *)
LEMMA SameNetwork ==
    ASSUME UNCHANGED <<lifecycle, net, fw>>
    PROVE  \A q \in Ranks : Borrowed(q)' = Borrowed(q)
  BY DEF Borrowed, Baseline, Predeclared

(* or the receipts,                                                         *)
LEMMA SameReceipts ==
    ASSUME UNCHANGED rc
    PROVE  \A q \in Ranks : ReturnBegun(q)' = ReturnBegun(q) /\ Has(q, "disarmed")' = Has(q, "disarmed")
  BY DEF ReturnBegun, Without, Has

(* or what runs.                                                            *)
LEMMA SameRuns ==
    ASSUME UNCHANGED <<link, slot>>
    PROVE  \A q \in Ranks : Running(q)' = Running(q)
  BY DEF Running

(* An entry or an insertion borrows.                                        *)
LEMMA EntryBorrows ==
    ASSUME PairInv, NetInv, UNCHANGED lifecycle, NEW p \in Callers, NEW r \in Ranks,
           BeginEnterIdle(p, r) \/ BeginInstallFirewall(p, r) \/ EnterIdle(r)
    PROVE  Promise!Next
<1> USE DEF PairInv
<1>1. PICK names \in {{}, {"transition-started"}, {"firewall-insert"}, {"idle"}} :
          Writes(r, names)
  <2>1. CASE BeginEnterIdle(p, r)
    <3>1. UNCHANGED rc => Writes(r, {})
      BY DEF Writes, TypeOK
    <3> QED
      BY <2>1, <3>1 DEF BeginEnterIdle
  <2> QED
    BY <2>1 DEF BeginInstallFirewall, EnterIdle
<1>2. \A q \in Ranks : ReturnBegun(q)' = ReturnBegun(q) /\ Has(q, "disarmed")' = Has(q, "disarmed")
  BY <1>1, SilentReceipts
<1>3. UNCHANGED <<link, slot>>
  BY DEF BeginEnterIdle, BeginInstallFirewall, EnterIdle
<1>4. \A q \in Ranks : Running(q)' = Running(q)
  BY <1>3, SameRuns
<1>5. ~Has(r, "disarmed")
  <2>1. CASE EnterIdle(r)
    BY <2>1 DEF EnterIdle, Finishes, NetInv, Returning
  <2> QED
    BY <2>1 DEF BeginEnterIdle, MayEnter, BeginInstallFirewall, MayInstall, NetInv, Returning
<1>6. /\ net'[r] = net[r] \/ (~Predeclared /\ net'[r] \in {"partial", "idle"})
      /\ fw'[r] = fw[r] \/ fw'[r] = TRUE
      /\ \A q \in Ranks \ {r} : net'[q] = net[q] /\ fw'[q] = fw[q]
  <2>1. CASE BeginEnterIdle(p, r)
    BY <2>1 DEF BeginEnterIdle, TypeOK
  <2>2. CASE BeginInstallFirewall(p, r)
    BY <2>2 DEF BeginInstallFirewall, TypeOK
  <2>3. CASE EnterIdle(r)
    BY <2>3 DEF EnterIdle, TypeOK
  <2> QED
    BY <2>1, <2>2, <2>3
<1>7. Baseline' = Baseline /\ (~Predeclared => Baseline = "switched")
  BY DEF Baseline, Predeclared
<1>8. \A q \in Ranks \ {r} : Borrowed(q)' = Borrowed(q)
  BY <1>6, <1>7 DEF Borrowed
<1>9. Borrowed(r)' = Borrowed(r) \/ (Borrowed(r)' /\ ~Borrowed(r))
  BY <1>6, <1>7 DEF Borrowed
<1>10. CASE Borrowed(r)' = Borrowed(r)
  BY <1>2, <1>4, <1>8, <1>10, AtMostStops DEF Promise!Next
<1>11. CASE Borrowed(r)' /\ ~Borrowed(r)
  <2>1. Promise!Borrow(r)
    BY <1>2, <1>4, <1>5, <1>8, <1>11 DEF Promise!Borrow, ReturnBegun
  <2> QED
    BY <2>1 DEF Promise!Next
<1> QED
  BY <1>9, <1>10, <1>11

(* A restore that has something to return begins only behind the end.       *)
LEMMA RestoreBegins ==
    ASSUME PairInv, UNCHANGED lifecycle, NEW p \in Callers, NEW r \in Ranks,
           BeginRestore(p, r)
    PROVE  Promise!Next
<1> USE DEF PairInv
<1>1. /\ MayRestore(r) /\ UNCHANGED <<fw, link, slot>>
      /\ IF PartlyEntered(r) \/ Entered(r)
         THEN /\ Writes(r, {"restore-started"})
              /\ net' = [net EXCEPT ![r] = IF Predeclared THEN @ ELSE "partial"]
         ELSE UNCHANGED <<rc, net>>
  BY DEF BeginRestore
<1>2. \A q \in Ranks : Running(q)' = Running(q)
  BY <1>1, SameRuns
<1>3. CASE ~(PartlyEntered(r) \/ Entered(r))
  BY <1>1, <1>2, <1>3, SameNetwork, SameReceipts, AtMostStops DEF Promise!Next
<1>4. CASE PartlyEntered(r) \/ Entered(r)
  <2>1. Over /\ \A q \in Ranks : ~Running(q)
    BY <1>1, PairClosedAlone DEF MayRestore, PairStopped
  <2>2. Baseline' = Baseline /\ (~Predeclared => Baseline = "switched")
    BY DEF Baseline, Predeclared
  <2>3. \A q \in Ranks : Borrowed(q)' = Borrowed(q)
    <3>1. ~Predeclared => net[r] # "switched"
      BY <1>4 DEF PartlyEntered, Entered
    <3>2. net'[r] = IF Predeclared THEN net[r] ELSE "partial"
      BY <1>1, <1>4 DEF TypeOK
    <3>3. \A q \in Ranks \ {r} : net'[q] = net[q]
      BY <1>1, <1>4 DEF TypeOK
    <3> QED
      BY <1>1, <2>2, <3>1, <3>2, <3>3 DEF Borrowed
  <2>4. rc'[r] = rc[r] \cup {"restore-started"} /\ \A q \in Ranks \ {r} : rc'[q] = rc[q]
    BY <1>1, <1>4, AtNode
  <2>5. /\ \A q \in Ranks : Has(q, "disarmed")' = Has(q, "disarmed")
        /\ \A q \in Ranks \ {r} : ReturnBegun(q)' = ReturnBegun(q)
        /\ ReturnBegun(r)'
    BY <2>4 DEF ReturnBegun, Without, Has
  <2>6. Promise!BeginReturn(r)
    BY <1>2, <2>1, <2>3, <2>5 DEF Promise!BeginReturn, ReturnBegun
  <2> QED
    BY <2>6 DEF Promise!Next
<1> QED
  BY <1>3, <1>4

(* It ends with what it has begun returned, or finds nothing to return.     *)
LEMMA RestoreReturns ==
    ASSUME PairInv, Unwinding, UNCHANGED lifecycle, NEW r \in Ranks, Restore(r)
    PROVE  Promise!Next
<1> USE DEF PairInv
<1>1. PICK names :
        /\ Writes(r, names)
        /\ names = (IF Has(r, "restore-started") THEN {"restored"} ELSE {"unchanged"})
                      \cup (IF RulesFound(r) THEN {"firewall-remove"} ELSE {})
  BY DEF Restore
<1>2. /\ holder[r].act = "restore" /\ UNCHANGED <<link, slot>>
      /\ net' = [net EXCEPT ![r] = Baseline]
      /\ fw' = [fw EXCEPT ![r] = @ /\ ~RulesFound(r)]
  BY DEF Restore, Finishes
<1>3. \A q \in Ranks : Running(q)' = Running(q)
  BY <1>2, SameRuns
<1>4. Baseline' = Baseline
  BY DEF Baseline, Predeclared
<1>5. ~Borrowed(r)' /\ \A q \in Ranks \ {r} : Borrowed(q)' = Borrowed(q)
  <2>1. net'[r] = Baseline /\ ~fw'[r]
    BY <1>2 DEF RulesFound, TypeOK
  <2>2. \A q \in Ranks \ {r} : net'[q] = net[q] /\ fw'[q] = fw[q]
    BY <1>2 DEF TypeOK
  <2> QED
    BY <1>4, <2>1, <2>2 DEF Borrowed
<1>6. rc'[r] = rc[r] \cup names /\ \A q \in Ranks \ {r} : rc'[q] = rc[q]
  BY <1>1, AtNode
<1>7. /\ \A q \in Ranks : Has(q, "disarmed")' = Has(q, "disarmed")
      /\ \A q \in Ranks \ {r} : ReturnBegun(q)' = ReturnBegun(q)
  BY <1>1, <1>6 DEF ReturnBegun, Without, Has
<1>8. ReturnBegun(r)'
  <2>1. "restored" \in names \/ "unchanged" \in names
    BY <1>1
  <2> QED
    BY <1>6, <2>1 DEF ReturnBegun, Without
<1>9. CASE Has(r, "restore-started")
  <2>1. ReturnBegun(r)
    BY <1>9 DEF ReturnBegun, Without, Has
  <2>2. Promise!Return(r)
    BY <1>3, <1>5, <1>7, <1>8, <2>1 DEF Promise!Return, ReturnBegun
  <2> QED
    BY <2>2 DEF Promise!Next
<1>10. CASE ~Has(r, "restore-started")
  <2>1. ~Borrowed(r)
    BY <1>2, <1>10 DEF Unwinding, Returned, Borrowed
  <2>2. \A q \in Ranks : ~Running(q)
    BY <1>2, PairClosedAlone DEF Closed, Restores
  <2>3. Promise!BeginReturn(r)
    BY <1>3, <1>5, <1>7, <1>8, <2>1, <2>2 DEF Promise!BeginReturn, ReturnBegun
  <2> QED
    BY <2>3 DEF Promise!Next
<1> QED
  BY <1>9, <1>10

(* A lease is disarmed behind a terminal receipt, which tells the truth.    *)
LEMMA DisarmReleases ==
    ASSUME PairInv, NetInv, UNCHANGED lifecycle, NEW p \in Callers, NEW r \in Ranks,
           Disarm(p, r)
    PROVE  Promise!Next
<1> USE DEF PairInv
<1>1. MayDisarm(r) /\ Writes(r, {"disarmed"}) /\ UNCHANGED <<net, fw, link, slot>>
  BY DEF Disarm
<1>2. /\ \A q \in Ranks : Running(q)' = Running(q)
      /\ \A q \in Ranks : Borrowed(q)' = Borrowed(q)
  BY <1>1, SameRuns, SameNetwork
<1>3. rc'[r] = rc[r] \cup {"disarmed"} /\ \A q \in Ranks \ {r} : rc'[q] = rc[q]
  BY <1>1, AtNode
<1>4. /\ \A q \in Ranks : ReturnBegun(q)' = ReturnBegun(q)
      /\ \A q \in Ranks \ {r} : Has(q, "disarmed")' = Has(q, "disarmed")
      /\ Has(r, "disarmed")'
  BY <1>3 DEF ReturnBegun, Without, Has
<1>5. Has(r, "restored") \/ Has(r, "unchanged")
  <2>1. Has(r, "restored") \in BOOLEAN /\ Has(r, "unchanged") \in BOOLEAN
    BY DEF Has
  <2> QED
    BY <1>1, <2>1 DEF MayDisarm
<1>6. ReturnBegun(r)
  BY <1>5 DEF ReturnBegun, Without, Has
<1>7. ~Borrowed(r)
  <2>1. Has(r, "restored") \/ Without(r, {"transition-started", "idle"})
    BY <1>1, <1>5 DEF MayDisarm
  <2> QED
    BY <2>1, HasNetwork DEF Returned, Borrowed
<1>8. Promise!Release(r)
  BY <1>2, <1>4, <1>6, <1>7 DEF Promise!Release, ReturnBegun
<1> QED
  BY <1>8 DEF Promise!Next

(* Handlers do what BorrowedPair allows.                                    *)
LEMMA ServePromised ==
    ASSUME PairInv, NetInv, UNCHANGED lifecycle, NEW p \in Callers, NEW r \in Ranks, Serve(p, r)
    PROVE  Promise!Next
<1> USE DEF PairInv
<1>1. ASSUME NEW names, Writes(r, names), UNCHANGED <<net, fw, link, slot>>,
             names \cap {"restore-started", "restored", "unchanged", "disarmed"} = {}
      PROVE  Promise!Next
  BY <1>1, SilentReceipts, SameNetwork, SameRuns, AtMostStops DEF Promise!Next
<1>2. CASE AcceptControllerClosure(p, r)
  <2>1. PICK b \in Packets(p, r) : Writes(r, Closing(b)) /\ UNCHANGED <<net, fw, link, slot>>
    BY <1>2 DEF AcceptControllerClosure
  <2>2. Closing(b) \cap {"restore-started", "restored", "unchanged", "disarmed"} = {}
    BY DEF Closing
  <2> QED
    BY <1>1, <2>1, <2>2
<1>3. CASE AcceptControllerStart(p, r)
  BY <1>1, <1>3 DEF AcceptControllerStart
<1>4. CASE DirectReady(p, r)
  BY <1>1, <1>4 DEF DirectReady
<1>5. CASE AcceptInventory(p, r)
  BY <1>1, <1>5 DEF AcceptInventory
<1>6. CASE AcceptPairClosure(p, r)
  BY <1>1, <1>6 DEF AcceptPairClosure
<1>7. CASE BeginCleanup(p, r)
  BY <1>1, <1>7 DEF BeginCleanup
<1> QED
  BY <1>2, <1>3, <1>4, <1>5, <1>6, <1>7, EntryBorrows, RestoreBegins, DisarmReleases DEF Serve

(* So do their ends.                                                        *)
LEMMA FinishPromised ==
    ASSUME PairInv, NetInv, Unwinding, Next, NEW r \in Ranks, Finish(r)
    PROVE  Promise!Next
<1> USE DEF PairInv
<1>1. UNCHANGED lifecycle
  BY DEF Next
<1>2. CASE InstallFirewall(r)
  <2>1. Writes(r, {"firewall-ready"}) /\ UNCHANGED <<net, fw, link, slot>>
    BY <1>2 DEF InstallFirewall
  <2> QED
    BY <1>1, <2>1, SilentReceipts, SameNetwork, SameRuns, AtMostStops DEF Promise!Next
<1>3. CASE CleanupResources(r)
  <2>1. UNCHANGED <<rc, net, fw>>
    BY <1>3 DEF CleanupResources
  <2>2. \A q \in Ranks : Running(q)' => Running(q)
    BY <1>3 DEF CleanupResources, Running, TypeOK
  <2> QED
    BY <1>1, <2>1, <2>2, SameReceipts, SameNetwork, AtMostStops DEF Promise!Next
<1>4. CASE EnterIdle(r)
  <2>1. Nobody \in Callers
    BY DEF Callers
  <2> QED
    BY <1>1, <1>4, <2>1, EntryBorrows
<1> QED
  BY <1>1, <1>2, <1>3, <1>4, RestoreReturns DEF Finish

(* Only what has both networks starts, however late.                        *)
LEMMA StartsPromised ==
    ASSUME PairInv, ServingInv, Next, NEW p \in {"controller", Nobody}, NEW r \in Ranks, Ask(p, r),
           NEW q \in Ranks, Running(q)', ~Running(q)
    PROVE  Promise!Next
<1> USE DEF PairInv
<1>1. Next /\ q = r /\ (StartLink(p, r) \/ StartSlot(p, r))
  <2>1. CASE Profile(p, r) \/ RemoveProfile(p, r)
    BY <2>1 DEF Profile, RemoveProfile, Running
  <2>2. CASE StopLink(p, r) \/ StopSlot(p, r)
    BY <2>2 DEF StopLink, StopSlot, Running, TypeOK
  <2>3. CASE StageSlot(p, r) \/ ArmSlot(p, r)
    BY <2>3 DEF StageSlot, ArmSlot, Running, TypeOK
  <2>4. CASE StartLink(p, r) \/ StartSlot(p, r)
    BY <2>4 DEF StartLink, StartSlot, Running, TypeOK
  <2> QED
    BY <2>1, <2>2, <2>3, <2>4 DEF Ask
<1>2. MayRun(r) \/ at["controller"] \in 10..25
  <2>1. MayRun(r)'
    BY <1>1 DEF Running, MayRun, MayServe
  <2>2. CASE ~MayRun(r)
    <3>1. at["controller"] = 10 + r \/ at["controller"] = 22 + r
      BY <2>1, <2>2, ControllerStarts
    <3> QED
      BY <3>1 DEF Ranks, HeadNode, WorkerNode
  <2> QED
    BY <2>2
<1>3. \A s \in Ranks : Borrowed(s)
  BY <1>2 DEF ServingInv, Provided, Serving, Ranks, Borrowed
<1>4. \A s \in Ranks : ~ReturnBegun(s)
  <2>1. \A s \in Ranks : ~Restores(s)
    <3>1. CASE MayRun(r)
      BY <3>1, PairClosedAlone DEF Closed
    <3>2. CASE at["controller"] \in 10..25
      <4>1. at["controller"] > 1
        BY <3>2
      <4> QED
        BY <4>1, ControllerOn, Alive
    <3> QED
      BY <1>2, <3>1, <3>2
  <2> QED
    BY <2>1 DEF Restores, ReturnBegun
<1>5. UNCHANGED <<lifecycle, rc, net, fw>>
  BY <1>1 DEF Next, StartLink, StartSlot
<1>6. \A s \in Ranks \ {r} : Running(s)' = Running(s)
  BY <1>1 DEF StartLink, StartSlot, Running, TypeOK
<1>7. Promise!Start(r)
  BY <1>1, <1>3, <1>4, <1>5, <1>6, SameNetwork, SameReceipts DEF Promise!Start, ReturnBegun
<1> QED
  BY <1>7 DEF Promise!Next

(* What the controller asks for, now or then.                               *)
LEMMA AskPromised ==
    ASSUME PairInv, ServingInv, Next, NEW p \in {"controller", Nobody}, NEW r \in Ranks, Ask(p, r)
    PROVE  Promise!Next
<1> USE DEF PairInv
<1>1. UNCHANGED <<lifecycle, rc, fw>>
  BY Asked DEF Next
<1>2. \A q \in Ranks : Borrowed(q)' = Borrowed(q)
  <2>1. CASE UNCHANGED net
    BY <1>1, <2>1, SameNetwork
  <2>2. CASE Profile(p, r) \/ RemoveProfile(p, r)
    <3>1. /\ \A q \in Ranks \ {r} : net'[q] = net[q]
          /\ net'[r] = net[r] \/ (~Predeclared /\ {net[r], net'[r]} \subseteq {"direct", "idle"})
      BY <2>2 DEF Profile, RemoveProfile, TypeOK
    <3>2. Baseline' = Baseline /\ (~Predeclared => Baseline = "switched")
      BY <1>1 DEF Baseline, Predeclared
    <3> QED
      BY <1>1, <3>1, <3>2 DEF Borrowed
  <2> QED
    BY <2>1, <2>2 DEF Ask, StartLink, StopLink, StageSlot, ArmSlot, StartSlot, StopSlot
<1>3. CASE \A q \in Ranks : Running(q)' => Running(q)
  BY <1>1, <1>2, <1>3, SameReceipts, AtMostStops DEF Promise!Next
<1> QED
  BY <1>3, StartsPromised

(* What the controller does itself.                                         *)
LEMMA ControllerPromised ==
    ASSUME PairInv, ServingInv, Next, ControllerStep
    PROVE  Promise!Next
<1>1. CASE Gate \/ AttemptChild \/ LinkOnly \/ Acknowledge \/ Trap
  <2>1. UNCHANGED <<lifecycle, rc, net, fw>>
    BY <1>1 DEF Next, Gate, AttemptChild, LinkOnly, Acknowledge, Trap, node
  <2>2. \A q \in Ranks : Running(q)' => Running(q)
    <3>1. slot' = slot /\ \A q \in Ranks : link'[q] \in {link[q], "stopped"}
      BY <1>1 DEF Gate, AttemptChild, LinkOnly, Acknowledge, Trap, node
    <3> QED
      BY <3>1 DEF Running
  <2> QED
    BY <2>1, <2>2, SameNetwork, SameReceipts, AtMostStops DEF Promise!Next
<1> QED
  BY <1>1, AskPromised DEF ControllerStep

(* A caller that dies or gives up may stop a link, or return a network with *)
(* the restore it kills.                                                    *)
LEMMA LeavesPromised ==
    ASSUME PairInv, Unwinding, UNCHANGED lifecycle, NEW p \in Procs, Leaves(p)
    PROVE  Promise!Next
<1> USE DEF PairInv
<1>1. HeadNode \in Ranks
  BY DEF Ranks
<1>2. UNCHANGED net /\ Baseline' = Baseline
  BY DEF Leaves, Baseline, Predeclared
<1>3. \A q \in Ranks : Running(q)' => Running(q)
  <2>1. slot' = slot /\ \A q \in Ranks : link'[q] = link[q] \/ link'[q] = "stopped"
    BY DEF Leaves, TypeOK
  <2> QED
    BY <2>1 DEF Running
<1>4. CASE UNCHANGED <<rc, fw>>
  BY <1>2, <1>3, <1>4, SameNetwork, SameReceipts, AtMostStops DEF Promise!Next
<1>5. CASE /\ holder[HeadNode].by = p /\ holder[HeadNode].act = "restore"
           /\ RulesFound(HeadNode)
           /\ Writes(HeadNode, {"firewall-remove"})
           /\ fw' \in {fw, [fw EXCEPT ![HeadNode] = FALSE]}
  <2>1. /\ \A q \in Ranks : ReturnBegun(q)' = ReturnBegun(q)
        /\ \A q \in Ranks : Has(q, "disarmed")' = Has(q, "disarmed")
    BY <1>1, <1>5, SilentReceipts
  <2>2. CASE fw' = fw
    BY <1>2, <1>3, <2>1, <2>2, SameNetwork, AtMostStops DEF Promise!Next
  <2>3. CASE fw' = [fw EXCEPT ![HeadNode] = FALSE]
    <3>1. Has(HeadNode, "restore-started")
      BY <1>1, <1>5 DEF Unwinding, Returned, RulesFound
    <3>2. ReturnBegun(HeadNode)
      BY <3>1 DEF ReturnBegun, Without, Has
    <3>3. \A q \in Ranks : ~Running(q)
      BY <1>1, <1>5, PairClosedAlone DEF Closed, Restores
    <3>4. \A q \in Ranks \ {HeadNode} : Borrowed(q)' = Borrowed(q)
      BY <1>2, <2>3 DEF Borrowed, TypeOK
    <3>5. Borrowed(HeadNode)' => Borrowed(HeadNode)
      BY <1>1, <1>2, <2>3 DEF Borrowed, TypeOK
    <3>6. CASE Borrowed(HeadNode)'
      <4>1. \A q \in Ranks : Borrowed(q)' = Borrowed(q)
        BY <3>4, <3>5, <3>6 DEF Borrowed
      <4> QED
        BY <1>3, <2>1, <4>1, AtMostStops DEF Promise!Next
    <3>7. CASE ~Borrowed(HeadNode)'
      <4>1. Promise!Return(HeadNode)
        BY <1>1, <1>3, <2>1, <3>2, <3>3, <3>4, <3>7 DEF Promise!Return, ReturnBegun
      <4> QED
        BY <1>1, <4>1 DEF Promise!Next
    <3> QED
      BY <3>6, <3>7
  <2> QED
    BY <1>5, <2>2, <2>3
<1> QED
  BY <1>4, <1>5 DEF Leaves

(* Every step is one that BorrowedPair allows, or none.                     *)
LEMMA StepPromised ==
    ASSUME PairInv, NetInv, ServingInv, Unwinding, Next
    PROVE  Promise!Next
<1> USE DEF PairInv
<1>1. UNCHANGED lifecycle
  BY DEF Next
<1>2. ASSUME UNCHANGED <<rc, net, fw>>, \A q \in Ranks : Running(q)' => Running(q)
      PROVE  Promise!Next
  BY <1>1, <1>2, SameNetwork, SameReceipts, AtMostStops DEF Promise!Next
<1>3. CASE LauncherStep
  BY <1>2, <1>3, SameRuns DEF LauncherStep, Submit, Replicate, Await, node
<1>4. ASSUME NEW p \in Procs, Refuse(p) \/ RelayStep(p)
      PROVE  Promise!Next
  <2>1. UNCHANGED <<rc, net, fw, link, slot>>
    BY <1>4 DEF Refuse, RelayStep, ObserveTerminal, CleanupStatus, node
  <2> QED
    BY <1>2, <2>1, SameRuns
<1>5. ASSUME NEW r \in Ranks, ContainerGuard(r) \/ Shorten(r) \/ Fire(r)
      PROVE  Promise!Next
  <2>1. UNCHANGED <<rc, net, fw, link>>
    BY <1>5 DEF ContainerGuard, Shorten, Fire
  <2>2. \A q \in Ranks : slot'[q] = "up" => slot[q] = "up"
    BY <1>5 DEF ContainerGuard, Shorten, Fire, TypeOK
  <2> QED
    BY <1>2, <2>1, <2>2 DEF Running
<1>6. ASSUME NEW r \in Ranks, Ask(Nobody, r)
      PROVE  Promise!Next
  BY <1>6, AskPromised
<1> QED
  BY <1>1, <1>3, <1>4, <1>5, <1>6, ServePromised, FinishPromised, ControllerPromised, LeavesPromised
  DEF Next, Step, Callers, Relays, TimeOut, Die

(* While a restore runs nothing else borrows its network: a late activation *)
(* finds no profile on a switched node, and the direct one is direct.       *)
LEMMA RestoreAlone ==
    ASSUME PairInv, Next, NEW r \in Ranks,
           holder[r].act = "restore", holder'[r].act = "restore", Returned(r)
    PROVE  Returned(r)'
<1> USE DEF PairInv
<1>1. Free.act # "restore"
  BY DEF Free
<1>3. ASSUME NEW p \in Callers, NEW q \in Ranks, Serve(p, q)
      PROVE  net'[r] = net[r] /\ (fw'[r] => fw[r])
  <2>1. ASSUME NEW act, Begins(p, act, q)
        PROVE  q # r
    BY <1>1, <2>1 DEF Begins
  <2>2. CASE BeginEnterIdle(p, q)
    BY <2>1, <2>2 DEF BeginEnterIdle, TypeOK
  <2>3. CASE BeginInstallFirewall(p, q)
    BY <2>1, <2>3 DEF BeginInstallFirewall, TypeOK
  <2>4. CASE BeginRestore(p, q)
    BY <2>1, <2>4 DEF BeginRestore, TypeOK
  <2> QED
    BY <1>3, <2>2, <2>3, <2>4 DEF Serve, AcceptControllerStart, DirectReady, AcceptInventory,
       AcceptControllerClosure, AcceptPairClosure, Disarm, BeginCleanup
<1>4. ASSUME NEW q \in Ranks, Finish(q)
      PROVE  net'[r] = net[r] /\ (fw'[r] => fw[r])
  <2>1. holder' = [holder EXCEPT ![q] = Free]
    BY <1>4 DEF Finish, EnterIdle, InstallFirewall, CleanupResources, Restore, Finishes
  <2>2. q # r
    BY <1>1, <2>1 DEF TypeOK
  <2>3. CASE EnterIdle(q)
    BY <2>2, <2>3 DEF EnterIdle, TypeOK
  <2>4. CASE Restore(q)
    BY <2>2, <2>4 DEF Restore, TypeOK
  <2> QED
    BY <1>4, <2>3, <2>4 DEF Finish, InstallFirewall, CleanupResources
<1>5. ASSUME NEW p \in Procs, Leaves(p)
      PROVE  net'[r] = net[r] /\ (fw'[r] => fw[r])
  BY <1>5 DEF Leaves, TypeOK
<1>6. LauncherStep => UNCHANGED <<net, fw>>
  BY DEF LauncherStep, Submit, Replicate, Await, node
<1>7. ASSUME NEW p \in Procs, Refuse(p) \/ RelayStep(p)
      PROVE  UNCHANGED <<net, fw>>
  BY <1>7 DEF Refuse, RelayStep, ObserveTerminal, CleanupStatus, node
<1>8. ASSUME NEW q \in Ranks, ContainerGuard(q) \/ Shorten(q) \/ Fire(q)
      PROVE  UNCHANGED <<net, fw>>
  BY <1>8 DEF ContainerGuard, Shorten, Fire
<1>9. ASSUME NEW p \in {"controller", Nobody}, NEW q \in Ranks, Ask(p, q)
      PROVE  net'[r] = Baseline /\ ~fw'[r]
  <2>1. fw' = fw
    BY <1>9, Asked
  <2>2. CASE Profile(p, q) \/ RemoveProfile(p, q)
    BY <2>2 DEF Profile, RemoveProfile, Returned, Baseline, TypeOK
  <2> QED
    BY <1>9, <2>1, <2>2 DEF Ask, Returned, StartLink, StopLink, StageSlot, ArmSlot, StartSlot, StopSlot
<1>10. Gate \/ AttemptChild \/ LinkOnly \/ Acknowledge \/ Trap => UNCHANGED <<net, fw>>
  BY DEF Gate, AttemptChild, LinkOnly, Acknowledge, Trap, node
<1>11. Baseline' = Baseline
  BY DEF Next, Baseline, Predeclared
<1> QED
  BY <1>3, <1>4, <1>5, <1>6, <1>7, <1>8, <1>9, <1>10, <1>11
  DEF Next, Step, ControllerStep, Callers, Relays, TimeOut, Die, Returned

(* Receipts stay.                                                           *)
LEMMA ReceiptsStay ==
    ASSUME TypeOK, Next, NEW r \in Ranks
    PROVE  rc[r] \subseteq rc'[r]
<1>1. ASSUME \/ UNCHANGED rc
             \/ \E q \in Ranks : \E names : Writes(q, names)
      PROVE  rc[r] \subseteq rc'[r]
  BY <1>1, AtNode
<1>2. ASSUME NEW p \in Callers, NEW q \in Ranks, Serve(p, q)
      PROVE  UNCHANGED rc \/ \E names : Writes(q, names)
  BY <1>2 DEF Serve, AcceptControllerStart, DirectReady, AcceptInventory,
     AcceptControllerClosure, AcceptPairClosure, Disarm, BeginEnterIdle,
     BeginInstallFirewall, BeginCleanup, BeginRestore
<1>3. ASSUME NEW q \in Ranks, Finish(q)
      PROVE  UNCHANGED rc \/ \E names : Writes(q, names)
  BY <1>3 DEF Finish, EnterIdle, InstallFirewall, CleanupResources, Restore
<1>4. ASSUME NEW p \in Procs, Leaves(p)
      PROVE  UNCHANGED rc \/ \E q \in Ranks : \E names : Writes(q, names)
  BY <1>4 DEF Leaves, Ranks
<1>5. CASE LauncherStep
  BY <1>5 DEF LauncherStep, Submit, Replicate, Await, node
<1>6. ASSUME NEW p \in Procs, Refuse(p) \/ RelayStep(p)
      PROVE  UNCHANGED rc
  BY <1>6 DEF Refuse, RelayStep, ObserveTerminal, CleanupStatus, node
<1>7. ASSUME NEW q \in Ranks, ContainerGuard(q) \/ Shorten(q) \/ Fire(q)
      PROVE  UNCHANGED rc
  BY <1>7 DEF ContainerGuard, Shorten, Fire
<1>9. ASSUME NEW p \in {"controller", Nobody}, NEW q \in Ranks, Ask(p, q)
      PROVE  UNCHANGED rc
  BY <1>9, Asked
<1>8. CASE ControllerStep
  BY <1>8, <1>9 DEF ControllerStep, Gate, AttemptChild, LinkOnly, Acknowledge, Trap, node
<1> QED
  BY <1>1, <1>2, <1>3, <1>4, <1>5, <1>6, <1>7, <1>8, <1>9
  DEF Next, Step, Callers, Relays, TimeOut, Die

(* A restore under way has begun, or finds nothing to return.               *)
LEMMA UnwindingKept ==
    ASSUME PairInv, NetInv, Unwinding, Next
    PROVE  Unwinding'
<1> USE DEF PairInv
<1> SUFFICES ASSUME NEW r \in Ranks, holder'[r].act = "restore"
             PROVE  Has(r, "restore-started")' \/ Returned(r)'
  BY DEF Unwinding
<1>1. UNCHANGED lifecycle /\ Baseline' = Baseline
  BY DEF Next, Baseline, Predeclared
<1>2. Has(r, "restore-started") => Has(r, "restore-started")'
  BY ReceiptsStay DEF Has
<1>3. CASE holder[r].act = "restore"
  <2>1. Returned(r) => Returned(r)'
    BY <1>3, RestoreAlone
  <2> QED
    BY <1>2, <1>3, <2>1 DEF Unwinding
<1>4. CASE holder[r].act # "restore"
  <2>1. PICK p \in Callers : BeginRestore(p, r)
    BY <1>4, LongBegins
  <2>2. CASE PartlyEntered(r) \/ Entered(r)
    <3>1. Writes(r, {"restore-started"})
      BY <2>1, <2>2 DEF BeginRestore
    <3>2. rc'[r] = rc[r] \cup {"restore-started"}
      BY <3>1, AtNode
    <3> QED
      BY <3>2 DEF Has
  <2>3. CASE ~(PartlyEntered(r) \/ Entered(r))
    <3>1. UNCHANGED <<net, fw>> /\ (Unentered(r) \/ AlreadyRestored(r))
      BY <2>1, <2>3 DEF BeginRestore, MayRestore
    <3>2. Has(r, "restored") => Returned(r)
      BY DEF NetInv, Returning
    <3>3. Returned(r)
      BY <3>1, <3>2 DEF Unentered, AlreadyRestored, Returned
    <3> QED
      BY <1>1, <3>1, <3>3 DEF Returned
  <2> QED
    BY <2>2, <2>3
<1> QED
  BY <1>3, <1>4

(* The whole run implements BorrowedPair, whoever dies, however late calls  *)
(* are served and however early the timers fire: the scripts and the guard  *)
(* do nothing but borrow two networks, use them while both are lent, return *)
(* them when nothing runs, and release each lease behind its return.        *)
THEOREM PairBorrows ==
    ASSUME RulesNeverLate
    PROVE  Spec => KeepsPromise
<1>1. Init => Promise!Init /\ Unwinding
  <2> SUFFICES ASSUME Init PROVE Promise!Init /\ Unwinding
    OBVIOUS
  <2>1. \A r \in Ranks : /\ rc[r] = {"pair-armed"} /\ holder[r] = Free
                         /\ net[r] = Baseline /\ fw[r] = FALSE
                         /\ link[r] = "staged" /\ slot[r] = "absent"
    BY DEF Init
  <2>2. \A r \in Ranks : ~Borrowed(r) /\ ~Running(r) /\ ~ReturnBegun(r) /\ ~Has(r, "disarmed")
    BY <2>1 DEF Borrowed, Running, ReturnBegun, Without, Has
  <2>3. Promise!Init
    BY <2>2 DEF Promise!Init, ReturnBegun
  <2>4. Unwinding
    BY <2>1 DEF Unwinding, Free
  <2> QED
    BY <2>3, <2>4
<1>2. PairInv /\ NetInv /\ Unwinding /\ [Next]_vars => Unwinding'
  <2>1. Unwinding /\ UNCHANGED vars => Unwinding'
    BY DEF vars, node, Unwinding, Has, Returned, Baseline, Predeclared
  <2> QED
    BY <2>1, UnwindingKept
<1>3. PairInv /\ NetInv /\ ServingInv /\ Unwinding /\ [Next]_vars => [Promise!Next]_Promise!vars
  <2>1. UNCHANGED vars => UNCHANGED Promise!vars
    <3> SUFFICES ASSUME UNCHANGED vars PROVE UNCHANGED Promise!vars
      OBVIOUS
    <3>1. UNCHANGED <<lifecycle, rc, net, fw, link, slot>>
      BY DEF vars
    <3>2. \A q \in Ranks : /\ Borrowed(q)' = Borrowed(q) /\ Running(q)' = Running(q)
                           /\ ReturnBegun(q)' = ReturnBegun(q)
                           /\ Has(q, "disarmed")' = Has(q, "disarmed")
      BY <3>1, SameNetwork, SameRuns, SameReceipts
    <3> QED
      BY <3>2 DEF Promise!vars, ReturnBegun
  <2> QED
    BY <2>1, StepPromised
<1> QED
  BY <1>1, <1>2, <1>3, EvidenceKeeps, NetworkKeeps, ServingKeeps, PTL
  DEF Spec, KeepsPromise, Promise!Spec

(* The promise follows from BorrowedPair's steps alone: it is what every    *)
(* program that implements that specification keeps.                        *)
LEMMA PromiseKept == Promise!Spec => []Promise!PairPromise
<1> USE DEF Promise!PairPromise, Promise!UsedWhileLent, Promise!ReleasedReturned
<1>1. Promise!Init => Promise!PairPromise
  BY DEF Promise!Init
<1>2. Promise!PairPromise /\ [Promise!Next]_Promise!vars => Promise!PairPromise'
  <2> SUFFICES ASSUME Promise!PairPromise, [Promise!Next]_Promise!vars PROVE Promise!PairPromise'
    OBVIOUS
  <2>1. CASE Promise!Stop
    BY <2>1 DEF Promise!Stop
  <2>2. ASSUME NEW r \in Ranks, Promise!Borrow(r)
        PROVE  Promise!PairPromise'
    BY <2>2 DEF Promise!Borrow
  <2>3. ASSUME NEW r \in Ranks, Promise!Start(r)
        PROVE  Promise!PairPromise'
    BY <2>3 DEF Promise!Start
  <2>4. ASSUME NEW r \in Ranks, Promise!BeginReturn(r)
        PROVE  Promise!PairPromise'
    BY <2>4 DEF Promise!BeginReturn
  <2>5. ASSUME NEW r \in Ranks, Promise!Return(r)
        PROVE  Promise!PairPromise'
    BY <2>5 DEF Promise!Return
  <2>6. ASSUME NEW r \in Ranks, Promise!Release(r)
        PROVE  Promise!PairPromise'
    BY <2>6 DEF Promise!Release
  <2>7. CASE UNCHANGED Promise!vars
    BY <2>7 DEF Promise!vars
  <2> QED
    BY <2>1, <2>2, <2>3, <2>4, <2>5, <2>6, <2>7 DEF Promise!Next
<1> QED
  BY <1>1, <1>2, PTL DEF Promise!Spec

(* What BorrowedPair's steps alone guarantee, of the run: nothing runs but  *)
(* on two borrowed networks that nobody takes back (frontend.py launch,     *)
(* guard.py finalize), and a disarmed node has its network for good.        *)
THEOREM PromiseHolds ==
    ASSUME RulesNeverLate
    PROVE  Spec => []Promise!PairPromise
  BY PairBorrows, PromiseKept, PTL DEF KeepsPromise
=============================================================================
