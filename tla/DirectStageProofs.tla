-------------------------- MODULE DirectStageProofs --------------------------
(***************************************************************************)
(* EntersProtected for any two clocks, any delay and any timeouts of the   *)
(* programs that RelayAssumption allows.  What carries it is that a packet *)
(* never holds two observations further apart than the allowance less the  *)
(* dispatch reserve; how old the packet itself is does not matter, because *)
(* the node that reads it measures that on its own clock.                  *)
(***************************************************************************)
EXTENDS DirectStage, LinkTransport, SequenceTheorems, TLAPS

Observation == [deadline : Int, at : Int, remaining : Int]
Packets == {<<>>} \cup [Rank -> Observation]
Names == {"guard", "tools", "slots", "arm-intent", "armed", "executing", "entered"}
Acts == {"probe", "guard", "preflight", "tools", "slots", "prepare", "arm", "status",
         "accept", "start", "executing", "replicate", "gate", "enter"}
Calls == [act : Acts, rank : Rank]

GuardTypes ==
    guards \in [Rank -> [has : SUBSET Names, deadline : Int, elapse : Int,
                         fired : BOOLEAN, packet : Packets]]

StageTypes ==
    /\ now \in Nat /\ GuardTypes /\ gate \in BOOLEAN
    /\ at \in [Process -> Nat] /\ at["frontend"] \in 0..25 /\ at["controller"] \in 0..4
    /\ asked \in [Process -> BOOLEAN] /\ since \in [Process -> Int]
    /\ seen \in [Rank -> {<<>>} \cup Observation]
    /\ late \subseteq [call : Calls, packet : Packets]

(* A lease that is armed elapses only the dispatch reserve before its       *)
(* deadline, and has fired only when it has elapsed.                        *)
Leased ==
    \A r \in Rank :
        /\ "arm-intent" \notin guards[r].has =>
              guards[r].elapse = Unset /\ ~guards[r].fired /\ "armed" \notin guards[r].has
        /\ "armed" \in guards[r].has =>
              guards[r].deadline # Unset
              /\ guards[r].elapse >= guards[r].deadline - DispatchReserve
        /\ guards[r].fired => Clock(r) >= guards[r].elapse

(* An observation tells of the one deadline its node ever gets, in guards g.*)
Observes(g, o, r) ==
    /\ g[r].deadline # Unset /\ o.deadline = g[r].deadline
    /\ o.remaining = o.deadline - o.at

ObservedAt(o, r) == o.at - Offset[r]

Sound(g, q) ==
    q # <<>> =>
        /\ \A r \in Rank : Observes(g, q[r], r)
        /\ ObservedAt(q[1], 1) - ObservedAt(q[0], 0) \in 0..(Allowance - DispatchReserve)

Relayed ==
    /\ Sound(guards, Packet)
    /\ \A r \in Rank : Sound(guards, guards[r].packet)
    /\ \A l \in late : Sound(guards, l.packet)

(* Between the two observations: how long ago the first was made.           *)
Observing ==
    /\ at["frontend"] \in {17, 18} =>
          /\ since["frontend"] <= now
          /\ now - since["frontend"] <= IF asked["frontend"] THEN 1 ELSE Pause
    /\ at["frontend"] \in 1..18 => seen[1] = <<>>
    /\ seen[0] # <<>> => Observes(guards, seen[0], 0)
    /\ at["frontend"] = 18 /\ seen[0] # <<>> =>
          since["frontend"] - ObservedAt(seen[0], 0)
              \in 0..(IF asked["frontend"] THEN 1 + Pause ELSE 1)

(* What the frontend has been answered stands, and the gate opens behind    *)
(* all of it.                                                               *)
Protected(r) == Has(r, {"guard", "tools", "slots", "armed", "executing"})

Staged ==
    /\ \A r \in Rank :
          /\ at["frontend"] > 3 + r => Has(r, {"guard"})
          /\ at["frontend"] > 7 + r => Has(r, {"tools"})
          /\ at["frontend"] > 11 + r => Has(r, {"slots"})
          /\ at["frontend"] > 15 + r => Has(r, {"armed"})
          /\ at["frontend"] > 22 + r => Has(r, {"executing"})
    /\ gate => \A r \in Rank : Protected(r)
    /\ at["controller"] \in {2, 3, 4} => gate
    /\ \A l \in late : l.call.act = "enter" => gate

StageInv == StageTypes /\ Leased /\ Relayed /\ Observing /\ Staged

-----------------------------------------------------------------------------
(* The programs.                                                            *)

LEMMA Programs ==
    /\ Process = {"frontend", "controller"}
    /\ Program["frontend"] = Frontend /\ Program["controller"] = Controller
  BY DEF Process, Program

\* The twenty-four calls of the frontend, and where those about each rank stand.
LEMMA FrontendCalls ==
    /\ DOMAIN Frontend = 1..24
    /\ \A i \in 1..24 : Frontend[i] \in Calls /\ Frontend[i].act # "enter"
    /\ \A r \in Rank :
          /\ Frontend[3 + r] = [act |-> "guard", rank |-> r]
          /\ Frontend[7 + r] = [act |-> "tools", rank |-> r]
          /\ Frontend[11 + r] = [act |-> "slots", rank |-> r]
          /\ Frontend[15 + r] = [act |-> "arm", rank |-> r]
          /\ Frontend[17 + r] = [act |-> "status", rank |-> r]
          /\ Frontend[22 + r] = [act |-> "executing", rank |-> r]
    /\ Frontend[24].act = "replicate"
    /\ \A i \in 1..24 : Frontend[i].act = "status" => i \in {17, 18}
    /\ \A i \in 1..24 : Frontend[i].act = "replicate" => i = 24
<1>1. Len(Frontend) = 24 /\ DOMAIN Frontend = 1..24
  BY SMT DEF Frontend, Both, OnHead
<1>2. \A i \in 1..24 : Frontend[i] \in Calls /\ Frontend[i].act # "enter"
  <2>1. \A a \in Acts : Both(a) \in Seq(Calls) /\ OnHead(a) \in Seq(Calls)
    BY DEF Both, OnHead, Calls, Rank
  <2>2. Frontend \in Seq(Calls)
    BY <2>1 DEF Frontend, Acts
  <2>3. \A i \in 1..24 : Frontend[i].act # "enter"
    BY SMT DEF Frontend, Both, OnHead
  <2> QED
    BY <1>1, <2>2, <2>3, ElementOfSeq
<1>3. /\ \A i \in 1..24 : Frontend[i].act = "status" => i \in {17, 18}
      /\ \A i \in 1..24 : Frontend[i].act = "replicate" => i = 24
  BY SMT DEF Frontend, Both, OnHead
<1>4. \A r \in Rank : /\ Frontend[3 + r] = [act |-> "guard", rank |-> r]
                      /\ Frontend[7 + r] = [act |-> "tools", rank |-> r]
                      /\ Frontend[11 + r] = [act |-> "slots", rank |-> r]
  BY SMT DEF Frontend, Both, OnHead, Rank
<1>5. \A r \in Rank : /\ Frontend[15 + r] = [act |-> "arm", rank |-> r]
                      /\ Frontend[17 + r] = [act |-> "status", rank |-> r]
                      /\ Frontend[22 + r] = [act |-> "executing", rank |-> r]
  BY SMT DEF Frontend, Both, OnHead, Rank
<1>6. Frontend[24].act = "replicate"
  BY SMT DEF Frontend, Both, OnHead
<1> QED
  BY <1>1, <1>2, <1>3, <1>4, <1>5, <1>6

\* The three calls of the controller.
LEMMA ControllerCalls ==
    /\ DOMAIN Controller = 1..3
    /\ \A i \in 1..3 : Controller[i] \in Calls
    /\ Controller[1].act = "gate" /\ Controller[2].act = "enter" /\ Controller[3].act = "enter"
<1>1. DOMAIN Controller = 1..3
  BY SMT DEF Controller, Both, OnHead
<1>2. \A i \in 1..3 : Controller[i] \in Calls
  BY SMT DEF Controller, Both, OnHead, Calls, Acts, Rank
<1>3. Controller[1].act = "gate" /\ Controller[2].act = "enter" /\ Controller[3].act = "enter"
  BY SMT DEF Controller, Both, OnHead
<1> QED
  BY <1>1, <1>2, <1>3

\* The ranges of the time constants and the one inequality the proofs need of them.
LEMMA Parameters ==
    /\ \A r \in Rank : Offset[r] \in Nat
    /\ Delay \in Nat /\ LaunchReserve \in Nat /\ Allowance \in Nat
    /\ DispatchReserve \in Nat /\ Pause \in Nat
    /\ LaunchReserve > 0 /\ 2 + Pause + DispatchReserve <= Allowance
    /\ Unset = -1
<1>1. Timeout("status") = 1
  BY DEF Timeout
<1> QED
  BY <1>1, StageAssumption, RelayAssumption DEF Unset

\* The call a running process is at is the one its program names.
LEMMA RunningCall ==
    ASSUME StageTypes, NEW p \in Process, Runs(p)
    PROVE  /\ Call(p) \in Calls
           /\ p = "frontend" => at["frontend"] \in 1..24 /\ Call(p) = Frontend[at["frontend"]]
           /\ p = "controller" => at["controller"] \in 1..3
                                   /\ Call(p) = Controller[at["controller"]]
  BY Programs, FrontendCalls, ControllerCalls DEF Runs, Call

-----------------------------------------------------------------------------
(* What the handlers do to the guards.                                      *)

(* Receipts stay and a deadline is never renewed.                           *)
Kept(g, h) == \A r \in Rank : /\ g[r].has \subseteq h[r].has
                              /\ g[r].deadline # Unset => h[r].deadline = g[r].deadline

GuardsMove == /\ GuardTypes' /\ Leased' /\ Kept(guards, guards')
              /\ \A r \in Rank : Sound(guards', guards'[r].packet)

\* Receipts only accumulate, so a packet that was sound stays sound.
LEMMA SoundKept ==
    ASSUME NEW g, NEW h, NEW q, Kept(g, h), Sound(g, q)
    PROVE  Sound(h, q)
  BY DEF Kept, Sound, Observes

\* Writing a receipt other than the arming ones is a move of the guards that keeps the leases.
LEMMA ReceiptKeeps ==
    ASSUME StageTypes, Leased, Relayed, UNCHANGED now,
           NEW r \in Rank, NEW name \in Names \ {"arm-intent", "armed"}, Receipt(r, name)
    PROVE  GuardsMove
<1>1. GuardTypes'
  BY DEF StageTypes, GuardTypes, Receipt
<1>2. Kept(guards, guards')
  BY DEF StageTypes, GuardTypes, Receipt, Kept
<1>3. Leased'
  BY DEF StageTypes, GuardTypes, Receipt, Leased, Clock
<1>4. \A s \in Rank : guards'[s].packet = guards[s].packet
  BY DEF StageTypes, GuardTypes, Receipt
<1> QED
  BY <1>1, <1>2, <1>3, <1>4, SoundKept DEF GuardsMove, Relayed

\* Leaving the guards alone is such a move.
LEMMA SameGuards ==
    ASSUME StageTypes, Leased, Relayed, UNCHANGED <<now, guards>>
    PROVE  GuardsMove
  BY DEF StageTypes, GuardTypes, Leased, Clock, Kept, Relayed, GuardsMove

\* Every handler of a guard, given a sound packet, is such a move.
LEMMA HandlerKeeps ==
    ASSUME StageTypes, Leased, Relayed, UNCHANGED now,
           NEW call \in Calls, NEW q \in Packets, Sound(guards, q), Handler(call, q)
    PROVE  GuardsMove
<1> DEFINE r == call.rank
<1>r. r \in Rank
  BY DEF Calls
<1> HIDE DEF r
<1>0. /\ Place(r, call.act) => Receipt(r, call.act) \/ UNCHANGED guards
      /\ Executing(r) => Receipt(r, "executing")
      /\ Enter(r) => Receipt(r, "entered")
  BY DEF Place, Executing, Enter
<1>1. CASE call.act \in {"guard", "tools", "slots"} /\ Place(r, call.act)
  <2>1. call.act \in Names \ {"arm-intent", "armed"}
    BY <1>1 DEF Names
  <2> QED
    BY <1>0, <1>1, <1>r, <2>1, ReceiptKeeps, SameGuards
<1>2. CASE PrepareLease(r)
  <2>1. /\ guards[r].deadline = Unset
        /\ guards' = [guards EXCEPT ![r].deadline = Clock(r) + Delay]
    BY <1>2 DEF PrepareLease
  <2>2. Clock(r) + Delay \in Int
    BY <1>r, Parameters DEF Clock, StageTypes
  <2>3. GuardTypes'
    BY <1>r, <2>1, <2>2 DEF StageTypes, GuardTypes
  <2>4. Kept(guards, guards')
    BY <2>1 DEF StageTypes, GuardTypes, Kept
  <2>5. Leased'
    BY <2>1 DEF StageTypes, GuardTypes, Leased, Clock
  <2>6. \A s \in Rank : guards'[s].packet = guards[s].packet
    BY <2>1 DEF StageTypes, GuardTypes
  <2> QED
    BY <2>3, <2>4, <2>5, <2>6, SoundKept DEF GuardsMove, Relayed
<1>3. CASE ArmLease(r)
  <2>1. PICK names \in {{"arm-intent"}, {"arm-intent", "armed"}}, slow \in {0, 1} :
          guards' = [guards EXCEPT ![r].has = @ \cup names,
                                   ![r].elapse = guards[r].deadline - DispatchReserve + slow]
    BY <1>3 DEF ArmLease
  <2>2. guards[r].deadline # Unset /\ "arm-intent" \notin guards[r].has
    BY <1>3 DEF ArmLease, Without
  <2>3. guards[r].deadline \in Int /\ DispatchReserve \in Nat
    BY <1>r, Parameters DEF StageTypes, GuardTypes
  <2>t. guards[r].deadline - DispatchReserve + slow \in Int /\ names \subseteq Names
    BY <2>3 DEF Names
  <2>4. GuardTypes'
    <3> DEFINE elapse == guards[r].deadline - DispatchReserve + slow
               State == [has : SUBSET Names, deadline : Int, elapse : Int, fired : BOOLEAN,
                         packet : Packets]
               new == [guards[r] EXCEPT !.has = @ \cup names, !.elapse = elapse]
    <3>1. guards \in [Rank -> State]
      BY DEF StageTypes, GuardTypes
    <3>2. elapse \in Int
      BY <2>t
    <3>3. guards' = [guards EXCEPT ![r] = [guards[r] EXCEPT !.has = @ \cup names, !.elapse = elapse]]
      BY <1>r, <2>1, <3>1
    <3> HIDE DEF elapse
    <3>4. new \in State
      BY <1>r, <2>t, <3>1, <3>2
    <3> HIDE DEF new
    <3>5. guards' = [guards EXCEPT ![r] = new]
      BY <3>3 DEF new
    <3>6. guards' \in [Rank -> State]
      BY <3>1, <3>4, <3>5
    <3> QED
      BY <3>6 DEF GuardTypes
  <2>5. Kept(guards, guards')
    BY <2>1 DEF StageTypes, GuardTypes, Kept
  <2>6. Leased'
    BY <1>r, <2>1, <2>2, <2>3 DEF StageTypes, GuardTypes, Leased, Clock
  <2>7. \A s \in Rank : guards'[s].packet = guards[s].packet
    BY <2>1 DEF StageTypes, GuardTypes
  <2> QED
    BY <2>4, <2>5, <2>6, <2>7, SoundKept DEF GuardsMove, Relayed
<1>4. CASE Accept(r, q)
  <2>1. guards' = [guards EXCEPT ![r].packet = q]
    BY <1>4 DEF Accept
  <2>2. GuardTypes'
    BY <1>r, <2>1 DEF StageTypes, GuardTypes
  <2>3. Kept(guards, guards')
    BY <2>1 DEF StageTypes, GuardTypes, Kept
  <2>4. Leased'
    BY <2>1 DEF StageTypes, GuardTypes, Leased, Clock
  <2>5. \A s \in Rank : guards'[s].packet \in {guards[s].packet, q}
    BY <2>1 DEF StageTypes, GuardTypes
  <2> QED
    BY <2>2, <2>3, <2>4, <2>5, SoundKept DEF GuardsMove, Relayed
<1>5. CASE Executing(r) \/ Enter(r)
  BY <1>0, <1>5, <1>r, ReceiptKeeps DEF Names
<1>6. CASE UNCHANGED guards
  BY <1>6, SameGuards
<1> QED
  BY <1>1, <1>2, <1>3, <1>4, <1>5, <1>6 DEF Handler, r

-----------------------------------------------------------------------------
(* The steps.                                                               *)

LEMMA InitStage == StageInit => StageInv
<1> SUFFICES ASSUME StageInit PROVE StageInv
  OBVIOUS
<1>0. /\ GuardTypes
      /\ at \in [Process -> Nat] /\ at["frontend"] \in 0..25 /\ at["controller"] \in 0..4
  <2>1. GuardTypes
    <3>1. [has |-> {}, deadline |-> Unset, elapse |-> Unset, fired |-> FALSE, packet |-> <<>>]
            \in [has : SUBSET Names, deadline : Int, elapse : Int,
                 fired : BOOLEAN, packet : Packets]
      BY Parameters DEF Packets
    <3> QED
      BY <3>1 DEF StageInit, GuardTypes
  <2>2. at \in [Process -> Nat] /\ at["frontend"] \in 0..25 /\ at["controller"] \in 0..4
    BY Programs DEF StageInit
  <2> QED
    BY <2>1, <2>2
<1>1. StageTypes
  <2>1. now \in Nat /\ gate \in BOOLEAN /\ late \subseteq [call : Calls, packet : Packets]
    BY DEF StageInit
  <2>2. asked \in [Process -> BOOLEAN] /\ since \in [Process -> Int]
    BY DEF StageInit
  <2>3. seen \in [Rank -> {<<>>} \cup Observation]
    BY DEF StageInit
  <2> QED
    BY <1>0, <2>1, <2>2, <2>3 DEF StageTypes
<1>2. Leased /\ Staged
  BY DEF StageInit, Leased, Staged, Rank
<1>3. Packet = <<>>
  BY DEF StageInit, Packet, Rank
<1>4. Relayed
  BY <1>3 DEF StageInit, Relayed, Sound
<1>5. Observing
  BY DEF StageInit, Observing, Rank
<1> QED
  BY <1>1, <1>2, <1>4, <1>5 DEF StageInv

(* Asking, failing and giving up change no guard.                           *)
LEMMA PacketType ==
    ASSUME StageTypes
    PROVE  Packet \in Packets /\ (Packet # <<>> => Packet = seen)
  BY DEF StageTypes, Packet, Packets

\* Sending a call keeps the invariant.
LEMMA AskKeeps ==
    ASSUME StageInv, NEW p \in Process, Ask(p)
    PROVE  StageInv'
<1> USE DEF StageInv
<1>1. /\ UNCHANGED <<now, guards, gate, at, seen, late>>
      /\ asked' = [asked EXCEPT ![p] = TRUE] /\ since' = [since EXCEPT ![p] = now]
      /\ ~asked[p]
  BY DEF Ask
<1>2. StageTypes'
  BY <1>1 DEF StageTypes, GuardTypes
<1>3. Leased' /\ Staged'
  BY <1>1 DEF Leased, Clock, Staged, Has, Protected
<1>4. Relayed'
  BY <1>1 DEF Relayed, Packet
<1>5. Observing'
  <2>1. /\ at["frontend"] \in {17, 18} =>
              since'["frontend"] <= now /\ now - since'["frontend"]
                 <= IF asked'["frontend"] THEN 1 ELSE Pause
    BY <1>1, Parameters, Programs DEF StageTypes, Observing
  <2>2. at["frontend"] = 18 /\ seen[0] # <<>> =>
          since'["frontend"] - ObservedAt(seen[0], 0)
              \in 0..(IF asked'["frontend"] THEN 1 + Pause ELSE 1)
    <3> SUFFICES ASSUME at["frontend"] = 18, seen[0] # <<>>
                 PROVE  since'["frontend"] - ObservedAt(seen[0], 0)
                          \in 0..(IF asked'["frontend"] THEN 1 + Pause ELSE 1)
      OBVIOUS
    <3>1. ObservedAt(seen[0], 0) \in Int
      BY Parameters DEF StageTypes, Observation, ObservedAt, Rank
    <3>2. CASE p = "frontend"
      BY <1>1, <3>1, <3>2, Parameters DEF StageTypes, Observing
    <3>3. CASE p # "frontend"
      BY <1>1, <3>1, <3>3 DEF StageTypes, Observing
    <3> QED
      BY <3>2, <3>3
  <2> QED
    BY <1>1, <2>1, <2>2 DEF Observing
<1> QED
  BY <1>2, <1>3, <1>4, <1>5

(* A process that ends is at no call any more.                              *)
LEMMA EndKeeps ==
    ASSUME StageInv, NEW p \in Process, Moves(p, 0), UNCHANGED <<now, guards, gate, seen>>,
           \A l \in late' : /\ l \in [call : Calls, packet : Packets]
                           /\ Sound(guards, l.packet) /\ (l.call.act = "enter" => gate)
    PROVE  StageInv'
<1> USE DEF StageInv
<1>1. /\ at' = [at EXCEPT ![p] = 0] /\ asked' = [asked EXCEPT ![p] = FALSE]
      /\ since' = [since EXCEPT ![p] = now]
  BY DEF Moves
<1>2. StageTypes'
  BY <1>1, Programs DEF StageTypes, GuardTypes
<1>3. Leased'
  BY DEF Leased, Clock
<1>4. Relayed'
  BY DEF Relayed, Packet
<1>5. Observing'
  BY <1>1, Programs DEF StageTypes, Observing
<1>6. Staged'
  BY <1>1, Programs, SMTT(30) DEF StageTypes, Staged, Has, Protected, Rank
<1> QED
  BY <1>2, <1>3, <1>4, <1>5, <1>6

\* A call that fails keeps the invariant.
LEMMA FailKeeps ==
    ASSUME StageInv, NEW p \in Process, Fail(p)
    PROVE  StageInv'
  BY EndKeeps DEF Fail, StageInv, StageTypes, Relayed, Staged

\* A call given up by its caller, to be served late or never, keeps the invariant.
LEMMA AbandonKeeps ==
    ASSUME StageInv, NEW p \in Process, Abandon(p)
    PROVE  StageInv'
<1> USE DEF StageInv
<1>1. /\ Runs(p) /\ Moves(p, 0) /\ UNCHANGED <<now, guards, gate, seen>>
      /\ late' = {[call |-> Call(p), packet |-> Packet]}
  BY DEF Abandon
<1>2. Call(p) \in Calls /\ Packet \in Packets
  BY <1>1, RunningCall, PacketType
<1>3. Call(p).act = "enter" => gate
  BY <1>1, RunningCall, Programs, FrontendCalls, ControllerCalls DEF Staged
<1> QED
  BY <1>1, <1>2, <1>3, EndKeeps DEF Relayed

(* A served call: whoever asked, the guards move as HandlerKeeps says.      *)
LEMMA RelayedKept ==
    ASSUME Relayed, GuardsMove, UNCHANGED seen, late' \subseteq late
    PROVE  Relayed'
<1>1. Packet' = Packet
  BY DEF Packet
<1>2. Sound(guards', Packet) /\ \A l \in late : Sound(guards', l.packet)
  BY SoundKept DEF Relayed, GuardsMove
<1> QED
  BY <1>1, <1>2 DEF Relayed, GuardsMove

\* A protected rank stays protected while receipts only accumulate.
LEMMA ProtectedKept ==
    ASSUME Kept(guards, guards'), NEW r \in Rank
    PROVE  /\ \A names : Has(r, names) => Has(r, names)'
           /\ Protected(r) => Protected(r)'
  BY DEF Kept, Has, Protected

\* Which calls a handler serves, and that executing leaves its receipt.
LEMMA HandlerServes ==
    ASSUME StageTypes, NEW call \in Calls, NEW q, Handler(call, q)
    PROVE  /\ call.act \notin {"status", "start", "replicate", "gate"}
           /\ call.act = "executing" => "executing" \in guards'[call.rank].has
  BY DEF Handler, Executing, Receipt, StageTypes, GuardTypes, Calls

\* A process that moves on stays within its program, and the others stay where they are.
LEMMA MovesTypes ==
    ASSUME StageTypes, NEW p \in Process, NEW k \in Nat, Moves(p, k),
           p = "frontend" => k <= 25, p = "controller" => k <= 4,
           now' \in Nat, gate' \in BOOLEAN, seen' \in [Rank -> {<<>>} \cup Observation],
           GuardTypes', late' \subseteq [call : Calls, packet : Packets]
    PROVE  /\ StageTypes'
           /\ at'[p] = k /\ asked'[p] = FALSE /\ since'[p] = now
           /\ \A q \in Process \ {p} :
                 at'[q] = at[q] /\ asked'[q] = asked[q] /\ since'[q] = since[q]
<1>1. /\ at' = [at EXCEPT ![p] = k] /\ asked' = [asked EXCEPT ![p] = FALSE]
      /\ since' = [since EXCEPT ![p] = now]
  BY DEF Moves
<1>2. /\ at'[p] = k /\ asked'[p] = FALSE /\ since'[p] = now
      /\ \A q \in Process \ {p} :
            at'[q] = at[q] /\ asked'[q] = asked[q] /\ since'[q] = since[q]
  BY <1>1 DEF StageTypes
<1>3. at' \in [Process -> Nat] /\ asked' \in [Process -> BOOLEAN] /\ since' \in [Process -> Int]
  BY <1>1 DEF StageTypes
<1>4. at'["frontend"] \in 0..25 /\ at'["controller"] \in 0..4
  <2>1. CASE p = "frontend"
    <3>1. "controller" \in Process \ {p}
      BY <2>1, Programs
    <3>2. k \in 0..25
      BY <2>1
    <3>3. at'["frontend"] = k /\ at'["controller"] = at["controller"]
      BY <1>2, <2>1, <3>1
    <3> QED
      BY <3>2, <3>3 DEF StageTypes
  <2>2. CASE p = "controller"
    BY <1>2, <2>2, Programs DEF StageTypes
  <2> QED
    BY <2>1, <2>2, Programs
<1> QED
  BY <1>2, <1>3, <1>4 DEF StageTypes

\* A call that is answered keeps the invariant.
LEMMA ReplyKeeps ==
    ASSUME StageInv, NEW p \in Process, Reply(p)
    PROVE  StageInv'
<1> USE DEF StageInv
<1>1. /\ Runs(p) /\ Handler(Call(p), Packet) /\ UNCHANGED <<now, gate, seen, late>>
      /\ Call(p) \in Calls
  BY RunningCall DEF Reply
<1>2. PICK k \in {0, at[p] + 1} : Moves(p, k) /\ (k # 0 => Served(Call(p)))
  BY DEF Reply
<1>3. GuardsMove
  BY <1>1, PacketType, HandlerKeeps DEF Relayed
<1>4. Relayed'
  BY <1>1, <1>3, RelayedKept
<1>5. /\ now' \in Nat /\ gate' \in BOOLEAN /\ seen' \in [Rank -> {<<>>} \cup Observation]
      /\ GuardTypes' /\ late' \subseteq [call : Calls, packet : Packets]
  BY <1>1, <1>3 DEF StageTypes, GuardsMove
<1>6. /\ Call(p).act \notin {"status", "start", "replicate", "gate"}
      /\ Call(p).act = "executing" => "executing" \in guards'[Call(p).rank].has
  BY <1>1, HandlerServes
<1>7. \A r \in Rank : /\ \A names : Has(r, names) => Has(r, names)'
                      /\ Protected(r) => Protected(r)'
  BY <1>3, ProtectedKept DEF GuardsMove
<1>8. seen[0] # <<>> => Observes(guards', seen[0], 0)
  BY <1>3 DEF Observing, Observes, GuardsMove, Kept, Rank
<1>9. CASE p = "frontend"
  <2>1. at["frontend"] \in 1..24 /\ Call(p) = Frontend[at["frontend"]]
    BY <1>1, <1>9, RunningCall
  <2>2. at["frontend"] \notin {17, 18} /\ at["frontend"] # 24
    <3>1. Frontend[17].act = "status" /\ Frontend[18].act = "status"
      BY FrontendCalls DEF Rank
    <3> QED
      BY <1>6, <2>1, <3>1, FrontendCalls
  <2>3. k \in Nat /\ k <= 24
    BY <2>1, <2>2, <1>9
  <2>4. /\ StageTypes'
        /\ at'["frontend"] = k /\ at'["controller"] = at["controller"]
        /\ asked'["frontend"] = FALSE /\ since'["frontend"] = now
    <3>1. "controller" \in Process \ {p} /\ (p = "frontend" => k <= 25) /\ p # "controller"
      BY <1>9, <2>3, Programs
    <3> QED
      BY <1>2, <1>5, <1>9, <2>3, <3>1, MovesTypes
  <2>5. Observing'
    <3>1. k # 18 /\ (k \in 1..18 => at["frontend"] \in 1..18)
      BY <1>9, <2>1, <2>2, <2>3
    <3>2. now - now <= Pause /\ now <= now
      BY Parameters DEF StageTypes
    <3> QED
      BY <1>1, <1>8, <2>4, <3>1, <3>2 DEF Observing
  <2>6. ASSUME NEW r \in Rank
        PROVE  /\ k > 3 + r => Has(r, {"guard"})'
               /\ k > 7 + r => Has(r, {"tools"})'
               /\ k > 11 + r => Has(r, {"slots"})'
               /\ k > 15 + r => Has(r, {"armed"})'
               /\ k > 22 + r => Has(r, {"executing"})'
    <3>1. \A i \in {3, 7, 11, 15, 22} : k > i + r => at["frontend"] > i + r \/ at["frontend"] = i + r
      BY <1>9, <2>1, <2>3 DEF Rank
    <3>2. at["frontend"] = 3 + r /\ k # 0 => Has(r, {"guard"})'
      <4>1. at["frontend"] = 3 + r => Call(p) = [act |-> "guard", rank |-> r]
        BY <2>1, FrontendCalls
      <4> QED
        BY <1>2, <4>1 DEF Served, Has
    <3>3. at["frontend"] = 7 + r /\ k # 0 => Has(r, {"tools"})'
      <4>1. at["frontend"] = 7 + r => Call(p) = [act |-> "tools", rank |-> r]
        BY <2>1, FrontendCalls
      <4> QED
        BY <1>2, <4>1 DEF Served, Has
    <3>4. at["frontend"] = 11 + r /\ k # 0 => Has(r, {"slots"})'
      <4>1. at["frontend"] = 11 + r => Call(p) = [act |-> "slots", rank |-> r]
        BY <2>1, FrontendCalls
      <4> QED
        BY <1>2, <4>1 DEF Served, Has
    <3>5. at["frontend"] = 15 + r /\ k # 0 => Has(r, {"armed"})'
      <4>1. at["frontend"] = 15 + r => Call(p) = [act |-> "arm", rank |-> r]
        BY <2>1, FrontendCalls
      <4> QED
        BY <1>2, <4>1 DEF Served, Has
    <3>6. at["frontend"] = 22 + r => Has(r, {"executing"})'
      <4>1. at["frontend"] = 22 + r => Call(p) = [act |-> "executing", rank |-> r]
        BY <2>1, FrontendCalls
      <4> QED
        BY <1>6, <4>1 DEF Has
    <3> QED
      BY <1>7, <3>1, <3>2, <3>3, <3>4, <3>5, <3>6 DEF Staged, Rank
  <2>7. Staged'
    BY <1>1, <1>7, <2>4, <2>6 DEF Staged
  <2> QED
    BY <1>3, <1>4, <2>4, <2>5, <2>7 DEF GuardsMove
<1>10. CASE p = "controller"
  <2>1. at["controller"] \in 2..3
    BY <1>1, <1>6, <1>10, RunningCall, ControllerCalls
  <2>2. k \in Nat /\ k <= 4
    BY <2>1, <1>10
  <2>3. /\ StageTypes'
        /\ at'["controller"] = k /\ at'["frontend"] = at["frontend"]
        /\ asked'["frontend"] = asked["frontend"] /\ since'["frontend"] = since["frontend"]
    BY <1>2, <1>5, <1>10, <2>2, MovesTypes, Programs
  <2>4. Observing'
    BY <1>1, <1>8, <2>3 DEF Observing
  <2>5. Staged'
    BY <1>1, <1>7, <2>1, <2>3 DEF Staged
  <2> QED
    BY <1>3, <1>4, <2>3, <2>4, <2>5 DEF GuardsMove
<1> QED
  BY <1>9, <1>10, Programs

\* A call served after its caller gave up keeps the invariant.
LEMMA LateKeeps ==
    ASSUME StageInv, Late
    PROVE  StageInv'
<1> USE DEF StageInv
<1>1. PICK l \in late :
        /\ late' = {} /\ UNCHANGED <<now, gate, seen>>
        /\ \/ Handler(l.call, l.packet) /\ UNCHANGED <<at, asked, since>>
           \/ at["controller"] = 0 /\ Moves("controller", 1) /\ UNCHANGED guards
  BY DEF Late
<1>2. l.call \in Calls /\ l.packet \in Packets /\ Sound(guards, l.packet)
  BY DEF StageTypes, Relayed
<1>3. GuardsMove
  BY <1>1, <1>2, HandlerKeeps, SameGuards
<1>4. Relayed'
  BY <1>1, <1>3, RelayedKept
<1>5. \A r \in Rank : /\ \A names : Has(r, names) => Has(r, names)'
                      /\ Protected(r) => Protected(r)'
  BY <1>3, ProtectedKept DEF GuardsMove
<1>6. seen[0] # <<>> => Observes(guards', seen[0], 0)
  BY <1>3 DEF Observing, Observes, GuardsMove, Kept, Rank
<1>7. /\ at'["frontend"] = at["frontend"] /\ asked'["frontend"] = asked["frontend"]
      /\ since'["frontend"] = since["frontend"]
      /\ at'["controller"] \in {1, at["controller"]}
  BY <1>1, Programs DEF StageTypes, Moves
<1>8. StageTypes'
  <2>1. /\ now' \in Nat /\ gate' \in BOOLEAN /\ seen' \in [Rank -> {<<>>} \cup Observation]
        /\ GuardTypes' /\ late' \subseteq [call : Calls, packet : Packets]
    BY <1>1, <1>3 DEF StageTypes, GuardsMove
  <2>2. CASE Moves("controller", 1)
    <3>1. 1 <= 4 /\ 1 \in Nat /\ "controller" \in Process /\ "controller" # "frontend"
      BY Programs
    <3> QED
      BY <2>1, <2>2, <3>1, MovesTypes
  <2>3. CASE UNCHANGED <<at, asked, since>>
    BY <1>1, <2>1, <2>3 DEF StageTypes
  <2> QED
    BY <1>1, <2>2, <2>3
<1>9. Observing'
  BY <1>1, <1>6, <1>7 DEF Observing
<1>10. Staged'
  BY <1>1, <1>5, <1>7 DEF Staged
<1> QED
  BY <1>3, <1>4, <1>8, <1>9, <1>10 DEF GuardsMove

(* The second observation is made at most two timeouts and a pause behind   *)
(* the first.                                                               *)
LEMMA StatusKeeps ==
    ASSUME StageInv, Status
    PROVE  StageInv'
<1> USE DEF StageInv
<1> DEFINE r == Call("frontend").rank
           k == at["frontend"]
<1>1. /\ Runs("frontend") /\ Call("frontend").act = "status" /\ asked["frontend"]
      /\ Moves("frontend", k + 1) /\ UNCHANGED <<now, guards, gate, late>>
      /\ LeaseHolds(r, 0)
  BY DEF Status, AtCall
<1>2. PICK back \in 0..(now - since["frontend"]) :
        seen' = [seen EXCEPT ![r] = [deadline |-> guards[r].deadline, at |-> Clock(r) - back,
                                     remaining |-> guards[r].deadline - (Clock(r) - back)]]
  BY DEF Status
<1>3. k \in {17, 18} /\ r = k - 17
  <2>1. k \in 1..24 /\ Call("frontend") = Frontend[k]
    BY <1>1, RunningCall, Programs
  <2>2. k \in {17, 18}
    BY <1>1, <2>1, FrontendCalls
  <2>3. /\ Frontend[17] = [act |-> "status", rank |-> 0]
        /\ Frontend[18] = [act |-> "status", rank |-> 1]
    BY FrontendCalls DEF Rank
  <2> QED
    BY <2>1, <2>2, <2>3
<1>4. r \in Rank
  BY <1>3 DEF Rank
<1> HIDE DEF r, k
<1> DEFINE o == [deadline |-> guards[r].deadline, at |-> Clock(r) - back,
                 remaining |-> guards[r].deadline - (Clock(r) - back)]
<1>5. /\ Clock(r) \in Int /\ back \in Int /\ since["frontend"] \in Int /\ now \in Nat
      /\ guards[r].deadline \in Int
  BY <1>2, <1>4, Parameters, Programs DEF Clock, StageTypes, GuardTypes
<1>6. o \in Observation /\ Observes(guards, o, r)
  <2>1. guards[r].deadline # Unset
    BY <1>1, <1>4 DEF LeaseHolds, Has, Leased
  <2> QED
    BY <1>5, <2>1 DEF Observation, Observes
<1>7. ObservedAt(o, r) = now - back
  BY <1>4, <1>5, Parameters DEF ObservedAt, Clock
<1>8. back >= 0 /\ back <= now - since["frontend"] /\ now - since["frontend"] <= 1
  BY <1>1, <1>2, <1>3, <1>5 DEF Observing, k
<1>9. /\ seen' \in [Rank -> {<<>>} \cup Observation]
      /\ seen'[r] = o /\ \A q \in Rank \ {r} : seen'[q] = seen[q]
  BY <1>2, <1>4, <1>6 DEF StageTypes
<1> HIDE DEF o
<1>10. /\ StageTypes'
       /\ at'["frontend"] = k + 1 /\ asked'["frontend"] = FALSE /\ since'["frontend"] = now
       /\ at'["controller"] = at["controller"]
  <2>1. /\ k + 1 \in Nat /\ k + 1 <= 25 /\ "frontend" \in Process
        /\ "controller" \in Process \ {"frontend"}
    BY <1>3, Programs
  <2>2. /\ now' \in Nat /\ gate' \in BOOLEAN /\ GuardTypes'
        /\ late' \subseteq [call : Calls, packet : Packets]
    BY <1>1 DEF StageTypes, GuardTypes
  <2> QED
    BY <1>1, <1>9, <2>1, <2>2, MovesTypes
<1>11. Leased'
  BY <1>1 DEF Leased, Clock
<1>12. Sound(guards, Packet')
  <2>1. CASE k = 17
    <3>1. seen'[1] = <<>>
      BY <1>3, <1>9, <2>1 DEF Observing, Rank, k
    <3> QED
      BY <3>1 DEF Packet, Sound, Rank
  <2>2. CASE k = 18
    <3> SUFFICES ASSUME Packet' # <<>> PROVE Sound(guards, Packet')
      BY DEF Sound
    <3>1. Packet' = seen' /\ seen'[0] # <<>>
      BY DEF Packet, Rank
    <3>2. r = 1 /\ seen'[0] = seen[0] /\ seen'[1] = o
      BY <1>3, <1>9, <2>2 DEF Rank
    <3>3. Observes(guards, seen[0], 0)
      BY <3>1, <3>2 DEF Observing
    <3>4. since["frontend"] - ObservedAt(seen[0], 0) \in 0..(1 + Pause)
      BY <1>1, <2>2, <3>1, <3>2 DEF Observing, k
    <3>5. ObservedAt(seen[0], 0) \in Int
      BY <3>1, <3>2, Parameters DEF StageTypes, Observation, ObservedAt, Rank
    <3>6. ObservedAt(o, 1) - ObservedAt(seen[0], 0) \in 0..(Allowance - DispatchReserve)
      <4> DEFINE first == ObservedAt(seen[0], 0)
      <4>1. ObservedAt(o, 1) = now - back
        BY <1>7, <3>2
      <4>2. first \in Int /\ since["frontend"] - first \in 0..(1 + Pause)
        BY <3>4, <3>5
      <4> HIDE DEF first
      <4>3. (now - back) - first >= 0 /\ (now - back) - first <= 2 + Pause
        BY <1>5, <1>8, <4>2, Parameters
      <4>4. (now - back) - first \in 0..(Allowance - DispatchReserve)
        BY <1>5, <4>2, <4>3, Parameters
      <4> QED
        BY <4>1, <4>4 DEF first
    <3> QED
      BY <1>6, <3>1, <3>2, <3>3, <3>6 DEF Sound, Rank
  <2> QED
    BY <1>3, <2>1, <2>2
<1>13. Relayed'
  BY <1>1, <1>12 DEF Relayed
<1>14. Observing'
  <2>1. now - now = 0 /\ now <= now /\ Pause >= 0
    BY Parameters DEF StageTypes
  <2>2. k + 1 \in 1..18 => seen'[1] = <<>>
    BY <1>3, <1>9, SMTT(30) DEF Observing, Rank, k
  <2>3. seen'[0] # <<>> => Observes(guards, seen'[0], 0)
    BY <1>3, <1>6, <1>9 DEF Observing, Rank
  <2>4. k + 1 = 18 => now - ObservedAt(seen'[0], 0) \in 0..1
    BY <1>3, <1>5, <1>7, <1>8, <1>9
  <2> QED
    BY <1>1, <1>10, <2>1, <2>2, <2>3, <2>4 DEF Observing
<1>15. Staged'
  BY <1>1, <1>3, <1>10 DEF Staged, Has, Protected, Rank, k
<1> QED
  BY <1>10, <1>11, <1>13, <1>14, <1>15

\* The start of the controller keeps the invariant.
LEMMA StartKeeps ==
    ASSUME StageInv, Start
    PROVE  StageInv'
<1> USE DEF StageInv
<1>1. /\ Runs("frontend") /\ Call("frontend").act = "start"
      /\ at' = [frontend |-> at["frontend"] + 1, controller |-> 1]
      /\ asked' = [q \in Process |-> FALSE] /\ since' = [q \in Process |-> now]
      /\ UNCHANGED <<now, guards, gate, seen, late>>
  BY DEF Start, AtCall
<1>2. at["frontend"] \in 1..24 /\ Call("frontend") = Frontend[at["frontend"]]
  BY <1>1, RunningCall, Programs
<1>3. at["frontend"] \notin {3, 4, 7, 8, 11, 12, 15, 16, 17, 18, 22, 23, 24}
  <2>1. \A i \in {3, 7, 11, 15, 17, 22} :
          Frontend[i].act # "start" /\ Frontend[i + 1].act # "start"
    BY FrontendCalls DEF Rank
  <2> QED
    BY <1>1, <1>2, <2>1, FrontendCalls
<1>4. /\ at'["frontend"] = at["frontend"] + 1 /\ at'["controller"] = 1
      /\ asked'["frontend"] = FALSE /\ since'["frontend"] = now
  BY <1>1, Programs
<1>5. StageTypes'
  <2>1. at["frontend"] + 1 \in 0..25
    BY <1>2
  <2>2. at' \in [Process -> Nat] /\ at'["frontend"] \in 0..25 /\ at'["controller"] \in 0..4
    BY <1>1, <2>1, Programs
  <2>3. asked' \in [Process -> BOOLEAN] /\ since' \in [Process -> Int]
    BY <1>1 DEF StageTypes
  <2> QED
    BY <1>1, <2>2, <2>3 DEF StageTypes, GuardTypes
<1>6. Leased' /\ Relayed'
  BY <1>1 DEF Leased, Clock, Relayed, Packet
<1>7. Observing'
  <2>1. /\ at'["frontend"] \notin {17, 18}
        /\ at'["frontend"] \in 1..18 => at["frontend"] \in 1..18
    BY <1>2, <1>3, <1>4
  <2> QED
    BY <1>1, <2>1 DEF Observing
<1>8. Staged'
  BY <1>1, <1>2, <1>3, <1>4 DEF Staged, Has, Protected, Rank
<1> QED
  BY <1>5, <1>6, <1>7, <1>8

\* The replicated acknowledgement, which opens the gate, keeps the invariant.
LEMMA ReplicateKeeps ==
    ASSUME StageInv, Replicate
    PROVE  StageInv'
<1> USE DEF StageInv
<1>1. /\ Runs("frontend") /\ Call("frontend").act = "replicate" /\ gate' = TRUE
      /\ Moves("frontend", at["frontend"] + 1) /\ UNCHANGED <<now, guards, seen, late>>
  BY DEF Replicate, AtCall
<1>2. at["frontend"] = 24
  BY <1>1, RunningCall, Programs, FrontendCalls
<1>3. \A r \in Rank : Protected(r)
  BY <1>2 DEF Staged, Protected, Has, Rank
<1>4. /\ StageTypes' /\ at'["frontend"] = 25 /\ at'["controller"] = at["controller"]
  <2>1. /\ at["frontend"] + 1 = 25 /\ 25 \in Nat /\ 25 <= 25 /\ "frontend" \in Process
        /\ "controller" \in Process \ {"frontend"}
    BY <1>2, Programs
  <2>2. /\ now' \in Nat /\ gate' \in BOOLEAN /\ GuardTypes'
        /\ seen' \in [Rank -> {<<>>} \cup Observation]
        /\ late' \subseteq [call : Calls, packet : Packets]
    BY <1>1 DEF StageTypes, GuardTypes
  <2> QED
    BY <1>1, <2>1, <2>2, MovesTypes, ZenonT(60)
<1>5. Leased' /\ Relayed'
  BY <1>1 DEF Leased, Clock, Relayed, Packet
<1>6. Observing'
  BY <1>1, <1>4 DEF Observing
<1>7. Staged'
  BY <1>1, <1>2, <1>3, <1>4 DEF Staged, Protected, Has, Rank
<1> QED
  BY <1>4, <1>5, <1>6, <1>7

\* The controller finding the gate open keeps the invariant.
LEMMA GateKeeps ==
    ASSUME StageInv, Gate
    PROVE  StageInv'
<1> USE DEF StageInv
<1>1. /\ Runs("controller") /\ Call("controller").act = "gate" /\ gate
      /\ Moves("controller", at["controller"] + 1)
      /\ UNCHANGED <<now, guards, gate, seen, late>>
  BY DEF Gate, AtCall, GateOpen
<1>2. at["controller"] \in 1..3
  BY <1>1, RunningCall, Programs
<1>3. /\ StageTypes' /\ at'["frontend"] = at["frontend"]
      /\ asked'["frontend"] = asked["frontend"] /\ since'["frontend"] = since["frontend"]
  <2>1. /\ at["controller"] + 1 \in Nat /\ at["controller"] + 1 <= 4
        /\ "controller" \in Process /\ "frontend" \in Process \ {"controller"}
    BY <1>2, Programs
  <2>2. /\ now' \in Nat /\ gate' \in BOOLEAN /\ GuardTypes'
        /\ seen' \in [Rank -> {<<>>} \cup Observation]
        /\ late' \subseteq [call : Calls, packet : Packets]
    BY <1>1 DEF StageTypes, GuardTypes
  <2> QED
    BY <1>1, <2>1, <2>2, MovesTypes
<1>4. Leased' /\ Relayed' /\ Observing'
  BY <1>1, <1>3 DEF Leased, Clock, Relayed, Packet, Observing
<1>5. Staged'
  BY <1>1, <1>3 DEF Staged, Protected, Has
<1> QED
  BY <1>3, <1>4, <1>5

\* A rollback timer that fires keeps the invariant.
LEMMA FireKeeps ==
    ASSUME StageInv, NEW r \in Rank, Fire(r)
    PROVE  StageInv'
<1> USE DEF StageInv
<1>1. /\ guards[r].elapse # Unset /\ Clock(r) >= guards[r].elapse
      /\ guards' = [guards EXCEPT ![r].fired = TRUE]
      /\ UNCHANGED <<now, gate, at, asked, since, seen, late>>
  BY DEF Fire
<1>2. GuardTypes' /\ Kept(guards, guards')
  BY <1>1 DEF StageTypes, GuardTypes, Kept
<1>3. Leased'
  BY <1>1 DEF StageTypes, GuardTypes, Leased, Clock
<1>4. \A s \in Rank : guards'[s].packet = guards[s].packet
  BY <1>1 DEF StageTypes, GuardTypes
<1>5. GuardsMove
  BY <1>2, <1>3, <1>4, SoundKept DEF GuardsMove, Relayed
<1>6. Relayed'
  BY <1>1, <1>5, RelayedKept
<1>7. StageTypes'
  BY <1>1, <1>2 DEF StageTypes
<1>8. Observing'
  BY <1>1, <1>2 DEF Observing, Observes, Kept, Rank
<1>9. Staged'
  BY <1>1, <1>2, ProtectedKept DEF Staged
<1> QED
  BY <1>3, <1>6, <1>7, <1>8, <1>9

\* The passing of time keeps the invariant.
LEMMA TickKeeps ==
    ASSUME StageInv, Tick
    PROVE  StageInv'
<1> USE DEF StageInv
<1>1. /\ now' = now + 1 /\ UNCHANGED <<guards, gate, at, asked, since, seen, late>>
      /\ \A p \in Process : Runs(p) => now < since[p] + Patience(p)
  BY DEF Tick
<1>2. StageTypes'
  BY <1>1 DEF StageTypes, GuardTypes
<1>3. Leased'
  BY <1>1, Parameters DEF StageTypes, GuardTypes, Leased, Clock
<1>4. Relayed' /\ Staged'
  BY <1>1 DEF Relayed, Packet, Staged, Protected, Has
<1>5. Observing'
  <2>1. at["frontend"] \in {17, 18} =>
          now < since["frontend"] + (IF asked["frontend"] THEN 1 ELSE Pause)
    <3> SUFFICES ASSUME at["frontend"] \in {17, 18}
                 PROVE  now < since["frontend"] + (IF asked["frontend"] THEN 1 ELSE Pause)
      OBVIOUS
    <3>1. Runs("frontend") /\ Call("frontend") = Frontend[at["frontend"]]
      BY Programs, FrontendCalls DEF Runs, Call
    <3>2. Call("frontend").act = "status"
      <4>1. Frontend[17].act = "status" /\ Frontend[18].act = "status"
        BY FrontendCalls DEF Rank
      <4> QED
        BY <3>1, <4>1
    <3>3. Patience("frontend") = IF asked["frontend"] THEN 1 ELSE Pause
      BY <3>2 DEF Patience, Timeout
    <3> QED
      BY <1>1, <3>1, <3>3, Programs
  <2>2. now \in Nat /\ since["frontend"] \in Int /\ Pause \in Nat
    BY Parameters, Programs DEF StageTypes
  <2> QED
    BY <1>1, <2>1, <2>2 DEF Observing
<1> QED
  BY <1>2, <1>3, <1>4, <1>5

\* Every reachable state satisfies the invariant of the staging: its types, the leases, the relay,
\* what the frontend has observed and what it has staged.
THEOREM StageInvariant == StageSpec => []StageInv
<1>1. StageInv /\ [StageNext]_stageVars => StageInv'
  <2> SUFFICES ASSUME StageInv, [StageNext]_stageVars PROVE StageInv'
    OBVIOUS
  <2>1. CASE UNCHANGED stageVars
    BY <2>1 DEF stageVars, StageInv, StageTypes, GuardTypes, Leased, Clock, Relayed, Packet,
                Observing, Staged, Has, Protected
  <2>2. CASE StageNext
    BY <2>2, AskKeeps, FailKeeps, AbandonKeeps, ReplyKeeps, StatusKeeps, StartKeeps,
       ReplicateKeeps, GateKeeps, LateKeeps, TickKeeps, FireKeeps DEF StageNext
  <2> QED
    BY <2>1, <2>2
<1> QED
  BY InitStage, <1>1, PTL DEF StageSpec

-----------------------------------------------------------------------------
(* The property.                                                            *)

(* A receipt of the entry comes from an enter call behind the gate.         *)
LEMMA EntersByCall ==
    ASSUME StageInv, StageNext, NEW r \in Rank,
           "entered" \in guards'[r].has, ~Has(r, {"entered"})
    PROVE  Enter(r) /\ gate /\ UNCHANGED now
<1> USE DEF StageInv
<1>1. guards' # guards
  BY DEF Has
<1>2. ASSUME NEW call \in Calls, NEW q, Handler(call, q)
      PROVE  call.act = "enter" /\ Enter(r)
  <2> DEFINE c == call.rank
  <2>c. c \in Rank
    BY DEF Calls
  <2> HIDE DEF c
  <2>1. ASSUME NEW name \in Names \ {"entered"}, Receipt(c, name)
        PROVE  FALSE
    BY <2>1, <2>c DEF Receipt, Has, StageTypes, GuardTypes
  <2>2. ~PrepareLease(c) /\ ~Accept(c, q)
    <3>1. ASSUME NEW d, guards' = [guards EXCEPT ![c].deadline = d]
          PROVE  FALSE
      BY <2>c, <3>1 DEF Has, StageTypes, GuardTypes
    <3>2. ASSUME guards' = [guards EXCEPT ![c].packet = q]
          PROVE  FALSE
      BY <2>c, <3>2 DEF Has, StageTypes, GuardTypes
    <3> QED
      BY <3>1, <3>2 DEF PrepareLease, Accept
  <2>3. ~ArmLease(c)
    <3>1. ASSUME NEW names \in {{"arm-intent"}, {"arm-intent", "armed"}}, NEW e,
                 guards' = [guards EXCEPT ![c].has = @ \cup names, ![c].elapse = e]
          PROVE  FALSE
      BY <2>c, <3>1 DEF Has, StageTypes, GuardTypes
    <3> QED
      BY <3>1 DEF ArmLease
  <2>4. ~Executing(c)
    BY <2>1 DEF Executing, Names
  <2>5. ~(call.act \in {"guard", "tools", "slots"} /\ Place(c, call.act))
    BY <1>1, <2>1 DEF Place, Names
  <2>6. call.act = "enter" /\ Enter(c)
    BY <1>1, <1>2, <2>2, <2>3, <2>4, <2>5 DEF Handler, c
  <2>7. c = r
    BY <2>6, <2>c DEF Enter, Receipt, Has, StageTypes, GuardTypes
  <2> QED
    BY <2>6, <2>7
<1>3. ASSUME NEW p \in Process, Reply(p)
      PROVE  Enter(r) /\ gate /\ UNCHANGED now
  <2>1. Runs(p) /\ Handler(Call(p), Packet) /\ UNCHANGED now
    BY <1>3 DEF Reply
  <2>2. Call(p).act = "enter" /\ Enter(r)
    BY <1>2, <2>1, RunningCall
  <2>3. gate
    BY <2>1, <2>2, RunningCall, Programs, FrontendCalls, ControllerCalls DEF Staged
  <2> QED
    BY <2>1, <2>2, <2>3
<1>4. ASSUME Late
      PROVE  Enter(r) /\ gate /\ UNCHANGED now
  <2>1. PICK l \in late : UNCHANGED now /\ (Handler(l.call, l.packet) \/ UNCHANGED guards)
    BY <1>4 DEF Late
  <2>2. l.call \in Calls
    BY DEF StageTypes
  <2>3. l.call.act = "enter" /\ Enter(r)
    BY <1>1, <1>2, <2>1, <2>2
  <2> QED
    BY <2>1, <2>3 DEF Staged
<1>5. ASSUME NEW s \in Rank, Fire(s)
      PROVE  FALSE
  BY <1>5 DEF Fire, Has, StageTypes, GuardTypes
<1> QED
  BY <1>1, <1>3, <1>4, <1>5 DEF StageNext, Ask, Fail, Abandon, Status, Start, Replicate, Gate, Tick

(* A packet that passes leaves either timer more than the launch reserve.   *)
LEMMA PairedReserve ==
    ASSUME StageInv, NEW r \in Rank, Paired(r, guards[r].packet), NEW p \in Rank,
           "armed" \in guards[p].has
    PROVE  ~guards[p].fired /\ guards[p].elapse - Clock(p) >= LaunchReserve
<1> USE DEF StageInv
<1> DEFINE q == guards[r].packet
<1>1. /\ q # <<>> /\ Sound(guards, q)
      /\ q[p].remaining - (Clock(r) - q[r].at) - Allowance >= LaunchReserve
  BY DEF Paired, Relayed
<1>2. /\ q[p].remaining = guards[p].deadline - q[p].at
      /\ q[p].at \in Int /\ q[r].at \in Int /\ guards[p].deadline \in Int
      /\ guards[p].elapse \in Int /\ guards[p].elapse >= guards[p].deadline - DispatchReserve
  <2>1. q \in [Rank -> Observation]
    BY <1>1 DEF StageTypes, GuardTypes, Packets
  <2>2. q[p] \in Observation /\ q[r] \in Observation
    BY <2>1
  <2>3. q[p].remaining = guards[p].deadline - q[p].at
    BY <1>1 DEF Sound, Observes
  <2>4. guards[p].deadline \in Int /\ guards[p].elapse \in Int
        /\ guards[p].elapse >= guards[p].deadline - DispatchReserve
    BY DEF StageTypes, GuardTypes, Leased
  <2> QED
    BY <2>2, <2>3, <2>4 DEF Observation
<1>3. (q[r].at - Offset[r]) - (q[p].at - Offset[p]) <= Allowance - DispatchReserve
  <2>1. ObservedAt(q[1], 1) - ObservedAt(q[0], 0) \in 0..(Allowance - DispatchReserve)
    BY <1>1 DEF Sound
  <2>2. /\ Offset[0] \in Int /\ Offset[1] \in Int /\ q[0].at \in Int /\ q[1].at \in Int
    <3>1. q \in [Rank -> Observation]
      BY <1>1 DEF StageTypes, GuardTypes, Packets
    <3> QED
      BY <3>1, Parameters DEF Observation, Rank
  <2> HIDE DEF q
  <2> QED
    BY <2>1, <2>2, Parameters DEF ObservedAt, Rank
<1>4. Clock(r) = now + Offset[r] /\ Clock(p) = now + Offset[p] /\ now \in Nat
      /\ Offset[r] \in Nat /\ Offset[p] \in Nat
  BY Parameters DEF Clock, StageTypes
<1> HIDE DEF q
<1>5. guards[p].elapse - Clock(p) >= LaunchReserve
  <2> DEFINE deadline == guards[p].deadline    elapse == guards[p].elapse
             here == q[r].at                   there == q[p].at
             offsetHere == Offset[r]           offsetThere == Offset[p]
  <2>1. /\ deadline \in Int /\ elapse \in Int /\ here \in Int /\ there \in Int
        /\ offsetHere \in Int /\ offsetThere \in Int /\ now \in Int
    BY <1>2, <1>4
  <2>2. elapse >= deadline - DispatchReserve
    BY <1>2
  <2>3. (here - offsetHere) - (there - offsetThere) <= Allowance - DispatchReserve
    BY <1>3
  <2>4. (deadline - there) - ((now + offsetHere) - here) - Allowance >= LaunchReserve
    BY <1>1, <1>2, <1>4
  <2>5. guards[p].elapse - Clock(p) = elapse - (now + offsetThere)
    BY <1>4
  <2> HIDE DEF deadline, elapse, here, there, offsetHere, offsetThere
  <2>6. elapse - (now + offsetThere) >= LaunchReserve
    BY <2>1, <2>2, <2>3, <2>4, Parameters
  <2> QED
    BY <2>5, <2>6
<1>6. guards[p].fired => Clock(p) >= guards[p].elapse
  BY DEF Leased
<1> QED
  BY <1>2, <1>4, <1>5, <1>6, Parameters

(* EntersProtected, for any clocks, lease and reserve, as long as the       *)
(* allowance covers what lies between the two observations.                 *)
THEOREM EntersProtectedHolds == StageSpec => EntersProtected
<1>1. ASSUME StageInv, [StageNext]_stageVars, NEW r \in Rank,
             "entered" \in guards'[r].has, ~Has(r, {"entered"}), NEW p \in Rank
      PROVE  /\ Has(p, {"guard", "tools", "slots", "armed", "executing"})
             /\ ~guards[p].fired
             /\ guards[p].elapse - Clock(p) >= LaunchReserve
  <2>1. StageNext
    BY <1>1 DEF Has, stageVars
  <2>2. Enter(r) /\ gate
    BY <1>1, <2>1, EntersByCall
  <2>3. Protected(p)
    BY <1>1, <2>2 DEF StageInv, Staged
  <2>4. "armed" \in guards[p].has
    BY <2>3 DEF Protected, Has
  <2>5. Paired(r, guards[r].packet)
    BY <2>2 DEF Enter
  <2> QED
    BY <1>1, <2>3, <2>4, <2>5, PairedReserve DEF Protected
<1>2. StageInv /\ [StageNext]_stageVars =>
        [\A r \in Rank : "entered" \in guards'[r].has /\ ~Has(r, {"entered"}) =>
            \A p \in Rank : /\ Has(p, {"guard", "tools", "slots", "armed", "executing"})
                            /\ ~guards[p].fired
                            /\ guards[p].elapse - Clock(p) >= LaunchReserve]_stageVars
  BY <1>1
<1> QED
  BY <1>2, StageInvariant, PTL DEF StageSpec, EntersProtected

-----------------------------------------------------------------------------
(***************************************************************************)
(* The head's slots (LinkTransport), for any names of the slots and any    *)
(* number of requests given up.  The inductive invariant says what the     *)
(* head's step proves of the slots, whatever is still on its way to them:  *)
(* a slot that was proved stopped is canceled for good and has nothing     *)
(* that could still show up (Quiet), and a start that is on its way was    *)
(* sent behind the proofs that StartsOnlyStaged is about (Started).        *)
(***************************************************************************)
Actions == {"stage", "prepare", "start", "wait-success", "journal", "stop", "inspect"}

TransportTypeOK ==
    /\ slots \in [Slot -> [bytes : {"none", "partial", "exact"}, prepared : BOOLEAN,
                           attempted : BOOLEAN, locked : BOOLEAN, canceled : BOOLEAN,
                           unit : {"none", "up", "exited", "stopped"}]]
    /\ jobs \in Seq([slot : Slot, action : Actions])
    /\ waiting \in BOOLEAN
    /\ step \in 1..Gone
    /\ failed \subseteq DOMAIN Dispatches

(* The head waits for what it sent last, the dispatch of its step.          *)
Sent ==
    waiting =>
        /\ step \in DOMAIN Dispatches /\ jobs # <<>>
        /\ jobs[Len(jobs)].slot = Dispatches[step].slot
        /\ jobs[Len(jobs)].action = Dispatches[step].action

(* A slot that is stopped for good: whatever is still on its way to it, it  *)
(* starts nothing, and nothing it has started shows up any more.            *)
Quiet(s) ==
    /\ slots[s].canceled /\ ~slots[s].locked
    /\ slots[s].unit # "stopped" => slots[s].unit = "none" /\ ~slots[s].attempted

Past(part, slot, action) == step # Gone /\ step > StepOf(part, slot, action)

Proofs ==
    /\ Past("realize", Package, "stop") => Quiet(Package)
    /\ \A s \in {Server, Client} :
          /\ Past("stage-all", s, "stage") => slots[s].bytes = "exact"
          /\ Past("cleanup-all", s, "stop") /\ StepOf("cleanup-all", s, "stop") \notin failed =>
                Quiet(s)

(* What the test finds when it starts a slot, and is on its way to.         *)
Ready == Quiet(Package) /\ \A s \in {Server, Client} : slots[s].bytes = "exact"
Started ==
    /\ \A n \in DOMAIN jobs : jobs[n].slot # Package /\ jobs[n].action = "start" => Ready
    /\ \A s \in {Server, Client} : slots[s].attempted => Ready

TransportInv == TransportTypeOK /\ Sent /\ Proofs /\ Started

Parts == {"realize", "stage-all", "smoke", "stops", "trap", "cleanup-all"}
Entries == [part : Parts, slot : Slot, action : Actions]
Entry(part, slot, action) == [part |-> part, slot |-> slot, action |-> action]
Jobs == [slot : Slot, action : Actions]
SlotStates == [bytes : {"none", "partial", "exact"}, prepared : BOOLEAN, attempted : BOOLEAN,
               locked : BOOLEAN, canceled : BOOLEAN, unit : {"none", "up", "exited", "stopped"}]

\* The three slots of the transport are distinct, and there are no others.
LEMMA SlotNames == /\ Package # Server /\ Package # Client /\ Server # Client
                   /\ Slot = {Package, Server, Client}
<1> QED
  BY TransportAssumption DEF Server, Client, Slot

\* A stage of the program is one dispatch per action, in order.
LEMMA DoIs ==
    ASSUME NEW part \in Parts,
           NEW slot \in Slot, NEW actions \in Seq(Actions)
    PROVE  /\ Do(part, slot, actions) \in Seq(Entries)
           /\ Len(Do(part, slot, actions)) = Len(actions)
           /\ \A i \in 1..Len(actions) : Do(part, slot, actions)[i] = Entry(part, slot, actions[i])
<1>1. DOMAIN actions = 1..Len(actions) /\ Len(actions) \in Nat
      /\ \A i \in 1..Len(actions) : actions[i] \in Actions
  OBVIOUS
<1> DEFINE d == [i \in 1..Len(actions) |-> Entry(part, slot, actions[i])]
<1>2. Do(part, slot, actions) = d
  BY <1>1 DEF Do, Entry
<1>3. \A i \in 1..Len(actions) : Entry(part, slot, actions[i]) \in Entries
  BY <1>1 DEF Entry, Entries
<1>4. d \in Seq(Entries) /\ Len(d) = Len(actions)
      /\ \A i \in 1..Len(actions) : d[i] = Entry(part, slot, actions[i])
  BY <1>1, <1>3
<1> QED
  BY <1>2, <1>4

(* The program with one more batch.                                         *)
LEMMA BatchAdded ==
    ASSUME NEW s \in Seq(Entries), NEW part \in Parts, NEW slot \in Slot, NEW actions \in Seq(Actions)
    PROVE  /\ s \o Do(part, slot, actions) \in Seq(Entries)
           /\ Len(s \o Do(part, slot, actions)) = Len(s) + Len(actions)
           /\ \A i \in 1..Len(s) : (s \o Do(part, slot, actions))[i] = s[i]
           /\ \A i \in 1..Len(actions) :
                (s \o Do(part, slot, actions))[Len(s) + i] = Entry(part, slot, actions[i])
<1> DEFINE d == Do(part, slot, actions)
           m == Len(s)
           k == Len(actions)
<1>1. /\ d \in Seq(Entries) /\ Len(d) = k /\ \A i \in 1..k : d[i] = Entry(part, slot, actions[i])
      /\ m \in Nat /\ k \in Nat
  BY DoIs
<1> HIDE DEF d
<1>2. /\ s \o d \in Seq(Entries) /\ Len(s \o d) = m + k
      /\ \A i \in 1..m + k : (s \o d)[i] = IF i <= m THEN s[i] ELSE d[i - m]
  <2>1. /\ s \o d \in Seq(Entries) /\ Len(s \o d) = Len(s) + Len(d)
        /\ \A i \in 1..Len(s) + Len(d) : (s \o d)[i] = IF i <= Len(s) THEN s[i] ELSE d[i - Len(s)]
    BY <1>1, ConcatProperties
  <2> QED
    BY <1>1, <2>1
<1> HIDE DEF m, k
<1>3. \A i \in 1..m : (s \o d)[i] = s[i]
  BY <1>1, <1>2
<1>4. \A i \in 1..k : m + i \in 1..m + k /\ ~(m + i <= m) /\ (m + i) - m = i
  BY <1>1
<1>5. \A i \in 1..k : (s \o d)[m + i] = Entry(part, slot, actions[i])
  BY <1>1, <1>2, <1>4
<1> QED
  BY <1>2, <1>3, <1>5 DEF d, m, k

\* The twenty-three dispatches of the transport program, in order.
LEMMA ProgramIs ==
    /\ Dispatches \in Seq(Entries) /\ Len(Dispatches) = 23 /\ DOMAIN Dispatches = 1..23
    /\ Dispatches[1] = Entry("realize", Package, "stage")
    /\ Dispatches[2] = Entry("realize", Package, "prepare")
    /\ Dispatches[3] = Entry("realize", Package, "start")
    /\ Dispatches[4] = Entry("realize", Package, "wait-success")
    /\ Dispatches[5] = Entry("realize", Package, "journal")
    /\ Dispatches[6] = Entry("realize", Package, "stop")
    /\ Dispatches[7] = Entry("realize", Package, "inspect")
    /\ Dispatches[8] = Entry("stage-all", Server, "stage")
    /\ Dispatches[9] = Entry("stage-all", Client, "stage")
    /\ Dispatches[10] = Entry("smoke", Server, "prepare")
    /\ Dispatches[11] = Entry("smoke", Server, "start")
    /\ Dispatches[12] = Entry("smoke", Client, "prepare")
    /\ Dispatches[13] = Entry("smoke", Client, "start")
    /\ Dispatches[14] = Entry("smoke", Client, "wait-success")
    /\ Dispatches[15] = Entry("smoke", Client, "journal")
    /\ Dispatches[16] = Entry("stops", Client, "stop")
    /\ Dispatches[17] = Entry("stops", Server, "stop")
    /\ Dispatches[18] = Entry("trap", Client, "stop")
    /\ Dispatches[19] = Entry("trap", Server, "stop")
    /\ Dispatches[20] = Entry("cleanup-all", Server, "stop")
    /\ Dispatches[21] = Entry("cleanup-all", Server, "inspect")
    /\ Dispatches[22] = Entry("cleanup-all", Client, "stop")
    /\ Dispatches[23] = Entry("cleanup-all", Client, "inspect")
<1> DEFINE
      a1 == <<"stage", "prepare", "start", "wait-success", "journal", "stop", "inspect">>
      a2 == <<"stage">>
      a4 == <<"prepare", "start">>
      a5 == <<"prepare", "start", "wait-success", "journal">>
      a6 == <<"stop">>
      a7 == <<"stop", "inspect">>
      s1 == Do("realize", Package, a1)
      s2 == s1 \o Do("stage-all", Server, a2)
      s3 == s2 \o Do("stage-all", Client, a2)
      s4 == s3 \o Do("smoke", Server, a4)
      s5 == s4 \o Do("smoke", Client, a5)
      s6 == s5 \o Do("stops", Client, a6)
      s7 == s6 \o Do("stops", Server, a6)
      s8 == s7 \o Do("trap", Client, a6)
      s9 == s8 \o Do("trap", Server, a6)
      s10 == s9 \o Do("cleanup-all", Server, a7)
      s11 == s10 \o Do("cleanup-all", Client, a7)
<1>0. Dispatches = s11
  BY DEF Dispatches
<1>1. /\ a1 \in Seq(Actions) /\ Len(a1) = 7 /\ a2 \in Seq(Actions) /\ Len(a2) = 1
      /\ a4 \in Seq(Actions) /\ Len(a4) = 2 /\ a5 \in Seq(Actions) /\ Len(a5) = 4
      /\ a6 \in Seq(Actions) /\ Len(a6) = 1 /\ a7 \in Seq(Actions) /\ Len(a7) = 2
      /\ Package \in Slot /\ Server \in Slot /\ Client \in Slot
      /\ \A p \in {"realize", "stage-all", "smoke", "stops", "trap", "cleanup-all"} : p \in Parts
  BY DEF Actions, Slot, Parts
<1>2. /\ a1[1] = "stage" /\ a1[2] = "prepare" /\ a1[3] = "start" /\ a1[4] = "wait-success"
      /\ a1[5] = "journal" /\ a1[6] = "stop" /\ a1[7] = "inspect" /\ a2[1] = "stage"
      /\ a4[1] = "prepare" /\ a4[2] = "start"
      /\ a5[1] = "prepare" /\ a5[2] = "start" /\ a5[3] = "wait-success" /\ a5[4] = "journal"
      /\ a6[1] = "stop" /\ a7[1] = "stop" /\ a7[2] = "inspect"
  OBVIOUS
<1> HIDE DEF a1, a2, a4, a5, a6, a7
<1>3. s1 \in Seq(Entries) /\ Len(s1) = 7 /\ \A i \in 1..7 : s1[i] = Entry("realize", Package, a1[i])
  <2>1. "realize" \in Parts
    BY DEF Parts
  <2>2. /\ s1 \in Seq(Entries) /\ Len(s1) = Len(a1)
        /\ \A i \in 1..Len(a1) : s1[i] = Entry("realize", Package, a1[i])
    BY <1>1, <2>1, DoIs, Zenon
  <2> HIDE DEF s1
  <2> QED
    BY <1>1, <2>2
<1> HIDE DEF s1
<1>20. /\ "realize" \in Parts /\ "stage-all" \in Parts /\ "smoke" \in Parts /\ "stops" \in Parts
       /\ "trap" \in Parts /\ "cleanup-all" \in Parts
  BY DEF Parts
<1>21. /\ a2 \in Seq(Actions) /\ a4 \in Seq(Actions) /\ a5 \in Seq(Actions)
       /\ a6 \in Seq(Actions) /\ a7 \in Seq(Actions)
       /\ Package \in Slot /\ Server \in Slot /\ Client \in Slot
  BY <1>1
<1>4. /\ s2 \in Seq(Entries) /\ Len(s2) = 8 /\ (\A i \in 1..7 : s2[i] = s1[i])
      /\ s2[8] = Entry("stage-all", Server, "stage")
  <2>1. s1 \in Seq(Entries) /\ "stage-all" \in Parts /\ Server \in Slot /\ a2 \in Seq(Actions)
    BY <1>20, <1>21, <1>3
  <2>2. /\ s2 \in Seq(Entries) /\ Len(s2) = Len(s1) + Len(a2)
        /\ \A i \in 1..Len(s1) : s2[i] = s1[i]
        /\ \A i \in 1..Len(a2) : s2[Len(s1) + i] = Entry("stage-all", Server, a2[i])
    BY <2>1, BatchAdded
  <2> HIDE DEF s2
  <2> QED
    BY <1>1, <1>2, <1>3, <2>2
<1> HIDE DEF s2
<1>5. /\ s3 \in Seq(Entries) /\ Len(s3) = 9 /\ (\A i \in 1..8 : s3[i] = s2[i])
      /\ s3[9] = Entry("stage-all", Client, "stage")
  <2>1. s2 \in Seq(Entries) /\ "stage-all" \in Parts /\ Client \in Slot /\ a2 \in Seq(Actions)
    BY <1>20, <1>21, <1>4
  <2>2. /\ s3 \in Seq(Entries) /\ Len(s3) = Len(s2) + Len(a2)
        /\ \A i \in 1..Len(s2) : s3[i] = s2[i]
        /\ \A i \in 1..Len(a2) : s3[Len(s2) + i] = Entry("stage-all", Client, a2[i])
    BY <2>1, BatchAdded
  <2> HIDE DEF s3
  <2> QED
    BY <1>1, <1>2, <1>4, <2>2
<1> HIDE DEF s3
<1>6. /\ s4 \in Seq(Entries) /\ Len(s4) = 11 /\ (\A i \in 1..9 : s4[i] = s3[i])
      /\ s4[10] = Entry("smoke", Server, "prepare") /\ s4[11] = Entry("smoke", Server, "start")
  <2>1. s3 \in Seq(Entries) /\ "smoke" \in Parts /\ Server \in Slot /\ a4 \in Seq(Actions)
    BY <1>20, <1>21, <1>5
  <2>2. /\ s4 \in Seq(Entries) /\ Len(s4) = Len(s3) + Len(a4)
        /\ \A i \in 1..Len(s3) : s4[i] = s3[i]
        /\ \A i \in 1..Len(a4) : s4[Len(s3) + i] = Entry("smoke", Server, a4[i])
    BY <2>1, BatchAdded
  <2> HIDE DEF s4
  <2> QED
    BY <1>1, <1>2, <1>5, <2>2
<1> HIDE DEF s4
<1>7. /\ s5 \in Seq(Entries) /\ Len(s5) = 15 /\ (\A i \in 1..11 : s5[i] = s4[i])
      /\ s5[12] = Entry("smoke", Client, "prepare") /\ s5[13] = Entry("smoke", Client, "start")
      /\ s5[14] = Entry("smoke", Client, "wait-success") /\ s5[15] = Entry("smoke", Client, "journal")
  <2>1. s4 \in Seq(Entries) /\ "smoke" \in Parts /\ Client \in Slot /\ a5 \in Seq(Actions)
    BY <1>20, <1>21, <1>6
  <2>2. /\ s5 \in Seq(Entries) /\ Len(s5) = Len(s4) + Len(a5)
        /\ \A i \in 1..Len(s4) : s5[i] = s4[i]
        /\ \A i \in 1..Len(a5) : s5[Len(s4) + i] = Entry("smoke", Client, a5[i])
    BY <2>1, BatchAdded
  <2> HIDE DEF s5
  <2> QED
    BY <1>1, <1>2, <1>6, <2>2
<1> HIDE DEF s5
<1>8. /\ s6 \in Seq(Entries) /\ Len(s6) = 16 /\ (\A i \in 1..15 : s6[i] = s5[i])
      /\ s6[16] = Entry("stops", Client, "stop")
  <2>1. s5 \in Seq(Entries) /\ "stops" \in Parts /\ Client \in Slot /\ a6 \in Seq(Actions)
    BY <1>20, <1>21, <1>7
  <2>2. /\ s6 \in Seq(Entries) /\ Len(s6) = Len(s5) + Len(a6)
        /\ \A i \in 1..Len(s5) : s6[i] = s5[i]
        /\ \A i \in 1..Len(a6) : s6[Len(s5) + i] = Entry("stops", Client, a6[i])
    BY <2>1, BatchAdded
  <2> HIDE DEF s6
  <2> QED
    BY <1>1, <1>2, <1>7, <2>2
<1> HIDE DEF s6
<1>9. /\ s7 \in Seq(Entries) /\ Len(s7) = 17 /\ (\A i \in 1..16 : s7[i] = s6[i])
      /\ s7[17] = Entry("stops", Server, "stop")
  <2>1. s6 \in Seq(Entries) /\ "stops" \in Parts /\ Server \in Slot /\ a6 \in Seq(Actions)
    BY <1>20, <1>21, <1>8
  <2>2. /\ s7 \in Seq(Entries) /\ Len(s7) = Len(s6) + Len(a6)
        /\ \A i \in 1..Len(s6) : s7[i] = s6[i]
        /\ \A i \in 1..Len(a6) : s7[Len(s6) + i] = Entry("stops", Server, a6[i])
    BY <2>1, BatchAdded
  <2> HIDE DEF s7
  <2> QED
    BY <1>1, <1>2, <1>8, <2>2
<1> HIDE DEF s7
<1>10. /\ s8 \in Seq(Entries) /\ Len(s8) = 18 /\ (\A i \in 1..17 : s8[i] = s7[i])
       /\ s8[18] = Entry("trap", Client, "stop")
  <2>1. s7 \in Seq(Entries) /\ "trap" \in Parts /\ Client \in Slot /\ a6 \in Seq(Actions)
    BY <1>20, <1>21, <1>9
  <2>2. /\ s8 \in Seq(Entries) /\ Len(s8) = Len(s7) + Len(a6)
        /\ \A i \in 1..Len(s7) : s8[i] = s7[i]
        /\ \A i \in 1..Len(a6) : s8[Len(s7) + i] = Entry("trap", Client, a6[i])
    BY <2>1, BatchAdded
  <2> HIDE DEF s8
  <2> QED
    BY <1>1, <1>2, <1>9, <2>2
<1> HIDE DEF s8
<1>11. /\ s9 \in Seq(Entries) /\ Len(s9) = 19 /\ (\A i \in 1..18 : s9[i] = s8[i])
       /\ s9[19] = Entry("trap", Server, "stop")
  <2>1. s8 \in Seq(Entries) /\ "trap" \in Parts /\ Server \in Slot /\ a6 \in Seq(Actions)
    BY <1>20, <1>21, <1>10
  <2>2. /\ s9 \in Seq(Entries) /\ Len(s9) = Len(s8) + Len(a6)
        /\ \A i \in 1..Len(s8) : s9[i] = s8[i]
        /\ \A i \in 1..Len(a6) : s9[Len(s8) + i] = Entry("trap", Server, a6[i])
    BY <2>1, BatchAdded
  <2> HIDE DEF s9
  <2> QED
    BY <1>1, <1>2, <1>10, <2>2
<1> HIDE DEF s9
<1>12. /\ s10 \in Seq(Entries) /\ Len(s10) = 21 /\ (\A i \in 1..19 : s10[i] = s9[i])
       /\ s10[20] = Entry("cleanup-all", Server, "stop")
       /\ s10[21] = Entry("cleanup-all", Server, "inspect")
  <2>1. s9 \in Seq(Entries) /\ "cleanup-all" \in Parts /\ Server \in Slot /\ a7 \in Seq(Actions)
    BY <1>20, <1>21, <1>11
  <2>2. /\ s10 \in Seq(Entries) /\ Len(s10) = Len(s9) + Len(a7)
        /\ \A i \in 1..Len(s9) : s10[i] = s9[i]
        /\ \A i \in 1..Len(a7) : s10[Len(s9) + i] = Entry("cleanup-all", Server, a7[i])
    BY <2>1, BatchAdded
  <2> HIDE DEF s10
  <2> QED
    BY <1>1, <1>2, <1>11, <2>2
<1> HIDE DEF s10
<1>13. /\ s11 \in Seq(Entries) /\ Len(s11) = 23 /\ (\A i \in 1..21 : s11[i] = s10[i])
       /\ s11[22] = Entry("cleanup-all", Client, "stop")
       /\ s11[23] = Entry("cleanup-all", Client, "inspect")
  <2>1. s10 \in Seq(Entries) /\ "cleanup-all" \in Parts /\ Client \in Slot /\ a7 \in Seq(Actions)
    BY <1>20, <1>21, <1>12
  <2>2. /\ s11 \in Seq(Entries) /\ Len(s11) = Len(s10) + Len(a7)
        /\ \A i \in 1..Len(s10) : s11[i] = s10[i]
        /\ \A i \in 1..Len(a7) : s11[Len(s10) + i] = Entry("cleanup-all", Client, a7[i])
    BY <2>1, BatchAdded
  <2> HIDE DEF s11
  <2> QED
    BY <1>1, <1>2, <1>12, <2>2
<1> HIDE DEF s11
<1>14. /\ \A i \in 1..7 : s2[i] = s1[i]
       /\ \A i \in 1..8 : s3[i] = s2[i]
       /\ \A i \in 1..9 : s4[i] = s3[i]
       /\ \A i \in 1..11 : s5[i] = s4[i]
       /\ \A i \in 1..15 : s6[i] = s5[i]
       /\ \A i \in 1..16 : s7[i] = s6[i]
       /\ \A i \in 1..17 : s8[i] = s7[i]
       /\ \A i \in 1..18 : s9[i] = s8[i]
       /\ \A i \in 1..19 : s10[i] = s9[i]
       /\ \A i \in 1..21 : s11[i] = s10[i]
  BY <1>4, <1>5, <1>6, <1>7, <1>8, <1>9, <1>10, <1>11, <1>12, <1>13, Zenon
<1>15. /\ \A i \in 1..7 : s11[i] = s1[i]
       /\ s11[8] = s2[8] /\ s11[9] = s3[9] /\ s11[10] = s4[10] /\ s11[11] = s4[11]
       /\ s11[12] = s5[12] /\ s11[13] = s5[13] /\ s11[14] = s5[14] /\ s11[15] = s5[15]
       /\ s11[16] = s6[16] /\ s11[17] = s7[17] /\ s11[18] = s8[18] /\ s11[19] = s9[19]
       /\ s11[20] = s10[20] /\ s11[21] = s10[21]
  BY <1>14
<1>16. /\ s11[1] = Entry("realize", Package, "stage") /\ s11[2] = Entry("realize", Package, "prepare")
       /\ s11[3] = Entry("realize", Package, "start")
       /\ s11[4] = Entry("realize", Package, "wait-success")
       /\ s11[5] = Entry("realize", Package, "journal") /\ s11[6] = Entry("realize", Package, "stop")
       /\ s11[7] = Entry("realize", Package, "inspect")
  BY <1>2, <1>3, <1>15
<1>17. DOMAIN s11 = 1..23
  BY <1>13
<1> QED
  BY <1>0, <1>4, <1>5, <1>6, <1>7, <1>8, <1>9, <1>10, <1>11, <1>12, <1>13, <1>15, <1>16, <1>17

(* A step is the one of its batch with its slot and action.                 *)
LEMMA StepIs ==
    ASSUME NEW i \in 1..23, NEW part, NEW slot, NEW action,
           Dispatches[i] = Entry(part, slot, action),
           \A j \in 1..23 : Dispatches[j] = Entry(part, slot, action) => j = i
    PROVE  StepOf(part, slot, action) = i
<1> DEFINE c == CHOOSE k \in Of(part) : Dispatches[k].slot = slot /\ Dispatches[k].action = action
<1>1. i \in Of(part) /\ Dispatches[i].slot = slot /\ Dispatches[i].action = action
  BY ProgramIs DEF Of, Entry
<1>2. c \in Of(part) /\ Dispatches[c].slot = slot /\ Dispatches[c].action = action
  BY <1>1, Zenon
<1> HIDE DEF c
<1>3. c \in 1..23 /\ Dispatches[c].part = part
  BY <1>2, ProgramIs DEF Of
<1>4. Dispatches[c] \in Entries
  BY <1>3, ProgramIs, ElementOfSeq
<1>5. Dispatches[c] = Entry(part, slot, action)
  BY <1>2, <1>3, <1>4 DEF Entry, Entries
<1>6. c = i
  BY <1>3, <1>5
<1> QED
  BY <1>6 DEF c, StepOf

\* A number from 1 to 23 is one of the twenty-three.
LEMMA TwentyThree == \A j \in 1..23 :
    \/ j = 1 \/ j = 2 \/ j = 3 \/ j = 4 \/ j = 5 \/ j = 6 \/ j = 7 \/ j = 8 \/ j = 9 \/ j = 10
    \/ j = 11 \/ j = 12 \/ j = 13 \/ j = 14 \/ j = 15 \/ j = 16 \/ j = 17 \/ j = 18 \/ j = 19
    \/ j = 20 \/ j = 21 \/ j = 22 \/ j = 23
<1> QED
  OBVIOUS

\* The two starts of a link slot are dispatches 11 and 13.
LEMMA StartsOf ==
    \A n \in DOMAIN Dispatches :
       Dispatches[n].slot # Package /\ Dispatches[n].action = "start" => n = 11 \/ n = 13
<1>1. /\ Dispatches[1].slot = Package /\ Dispatches[2].slot = Package
      /\ Dispatches[3].slot = Package /\ Dispatches[4].slot = Package
      /\ Dispatches[5].slot = Package /\ Dispatches[6].slot = Package
      /\ Dispatches[7].slot = Package
  BY ProgramIs DEF Entry
<1>2. /\ Dispatches[8].action # "start" /\ Dispatches[9].action # "start"
      /\ Dispatches[10].action # "start" /\ Dispatches[12].action # "start"
      /\ Dispatches[14].action # "start" /\ Dispatches[15].action # "start"
      /\ Dispatches[16].action # "start" /\ Dispatches[17].action # "start"
  BY ProgramIs DEF Entry
<1>3. /\ Dispatches[18].action # "start" /\ Dispatches[19].action # "start"
      /\ Dispatches[20].action # "start" /\ Dispatches[21].action # "start"
      /\ Dispatches[22].action # "start" /\ Dispatches[23].action # "start"
  BY ProgramIs DEF Entry
<1>4. DOMAIN Dispatches = 1..23
  BY ProgramIs
<1> QED
  BY <1>1, <1>2, <1>3, <1>4, TwentyThree, Zenon

(* Where in the program what is referred to stands.                         *)
LEMMA Steps ==
    /\ StepOf("realize", Package, "journal") = 5
    /\ StepOf("realize", Package, "stop") = 6
    /\ StepOf("realize", Package, "inspect") = 7
    /\ StepOf("stage-all", Server, "stage") = 8
    /\ StepOf("stage-all", Client, "stage") = 9
    /\ StepOf("smoke", Client, "journal") = 15
    /\ StepOf("stops", Server, "stop") = 17
    /\ StepOf("trap", Client, "stop") = 18
    /\ StepOf("cleanup-all", Server, "stop") = 20
    /\ StepOf("cleanup-all", Client, "stop") = 22
<1>1. \A j \in 1..23 : Dispatches[j] = Entry("realize", Package, "journal") => j = 5
  BY ProgramIs, TwentyThree, SMTT(30) DEF Entry
<1>2. \A j \in 1..23 : Dispatches[j] = Entry("realize", Package, "stop") => j = 6
  BY ProgramIs, TwentyThree, SMTT(30) DEF Entry
<1>3. \A j \in 1..23 : Dispatches[j] = Entry("realize", Package, "inspect") => j = 7
  BY ProgramIs, TwentyThree, SMTT(30) DEF Entry
<1>4. \A j \in 1..23 : Dispatches[j] = Entry("stage-all", Server, "stage") => j = 8
  BY ProgramIs, TwentyThree, SlotNames, SMTT(30) DEF Entry
<1>5. \A j \in 1..23 : Dispatches[j] = Entry("stage-all", Client, "stage") => j = 9
  BY ProgramIs, TwentyThree, SlotNames, SMTT(30) DEF Entry
<1>6. \A j \in 1..23 : Dispatches[j] = Entry("smoke", Client, "journal") => j = 15
  BY ProgramIs, TwentyThree, SlotNames, SMTT(30) DEF Entry
<1>7. \A j \in 1..23 : Dispatches[j] = Entry("stops", Server, "stop") => j = 17
  BY ProgramIs, TwentyThree, SlotNames, SMTT(30) DEF Entry
<1>8. \A j \in 1..23 : Dispatches[j] = Entry("trap", Client, "stop") => j = 18
  BY ProgramIs, TwentyThree, SlotNames, SMTT(30) DEF Entry
<1>9. \A j \in 1..23 : Dispatches[j] = Entry("cleanup-all", Server, "stop") => j = 20
  BY ProgramIs, TwentyThree, SlotNames, SMTT(30) DEF Entry
<1>10. \A j \in 1..23 : Dispatches[j] = Entry("cleanup-all", Client, "stop") => j = 22
  BY ProgramIs, TwentyThree, SlotNames, SMTT(30) DEF Entry
<1>11. StepOf("realize", Package, "journal") = 5
  <2>1. 5 \in 1..23 /\ Dispatches[5] = Entry("realize", Package, "journal")
    BY ProgramIs
  <2> QED
    BY <1>1, <2>1, StepIs
<1>12. StepOf("realize", Package, "stop") = 6
  <2>1. 6 \in 1..23 /\ Dispatches[6] = Entry("realize", Package, "stop")
    BY ProgramIs
  <2> QED
    BY <1>2, <2>1, StepIs
<1>13. StepOf("realize", Package, "inspect") = 7
  <2>1. 7 \in 1..23 /\ Dispatches[7] = Entry("realize", Package, "inspect")
    BY ProgramIs
  <2> QED
    BY <1>3, <2>1, StepIs
<1>14. StepOf("stage-all", Server, "stage") = 8
  <2>1. 8 \in 1..23 /\ Dispatches[8] = Entry("stage-all", Server, "stage")
    BY ProgramIs
  <2> QED
    BY <1>4, <2>1, StepIs
<1>15. StepOf("stage-all", Client, "stage") = 9
  <2>1. 9 \in 1..23 /\ Dispatches[9] = Entry("stage-all", Client, "stage")
    BY ProgramIs
  <2> QED
    BY <1>5, <2>1, StepIs
<1>16. StepOf("smoke", Client, "journal") = 15
  <2>1. 15 \in 1..23 /\ Dispatches[15] = Entry("smoke", Client, "journal")
    BY ProgramIs
  <2> QED
    BY <1>6, <2>1, StepIs
<1>17. StepOf("stops", Server, "stop") = 17
  <2>1. 17 \in 1..23 /\ Dispatches[17] = Entry("stops", Server, "stop")
    BY ProgramIs
  <2> QED
    BY <1>7, <2>1, StepIs
<1>18. StepOf("trap", Client, "stop") = 18
  <2>1. 18 \in 1..23 /\ Dispatches[18] = Entry("trap", Client, "stop")
    BY ProgramIs
  <2> QED
    BY <1>8, <2>1, StepIs
<1>19. StepOf("cleanup-all", Server, "stop") = 20
  <2>1. 20 \in 1..23 /\ Dispatches[20] = Entry("cleanup-all", Server, "stop")
    BY ProgramIs
  <2> QED
    BY <1>9, <2>1, StepIs
<1>20. StepOf("cleanup-all", Client, "stop") = 22
  <2>1. 22 \in 1..23 /\ Dispatches[22] = Entry("cleanup-all", Client, "stop")
    BY ProgramIs
  <2> QED
    BY <1>10, <2>1, StepIs
<1> QED
  BY <1>11, <1>12, <1>13, <1>14, <1>15, <1>16, <1>17, <1>18, <1>19, <1>20

\* Where the program ends, and which trap answers for which slot.
LEMMA Ends == Over = 24 /\ Gone = 25 /\ TrapFor(Client) = 18 /\ TrapFor(Server) = 19
<1> QED
  BY ProgramIs, Steps, SlotNames DEF Over, Gone, TrapFor, Trap

(* Where the head goes on after a failure, and after a success.             *)
LEMMA FailureGoesTo ==
    ASSUME NEW i \in 1..23
    PROVE  /\ i \in 1..4 => AfterFailure(i) = 5
           /\ i = 5 => AfterFailure(i) = 6
           /\ i \in 6..9 => AfterFailure(i) = 25
           /\ i \in {10, 11} => AfterFailure(i) = 19
           /\ i \in 12..14 => AfterFailure(i) = 15
           /\ i = 15 => AfterFailure(i) = 18
           /\ i \in 16..19 => AfterFailure(i) = i + 1
           /\ i \in {20, 22} => AfterFailure(i) = i + 2
           /\ i \in {21, 23} => AfterFailure(i) = i + 1
<1> DEFINE s == Dispatches[i]
<1>1. AfterFailure(i) =
        IF i < 5 THEN 5
        ELSE IF s.part \in {"realize", "stage-all"} /\ s.action # "journal" THEN 25
        ELSE IF s.part = "smoke" /\ s.slot = Server THEN 19
        ELSE IF s.part = "smoke" /\ s.action # "journal" THEN 15
        ELSE IF s.part = "smoke" THEN 18
        ELSE IF s.part = "cleanup-all" /\ s.action = "stop" THEN i + 2
        ELSE i + 1
  BY Steps, Ends, Zenon DEF AfterFailure, EndsRun
<1> HIDE DEF s
<1>2. CASE i \in 1..4
  BY <1>1, <1>2
<1>3. CASE i = 5
  <2>1. s.part = "realize" /\ s.action = "journal"
    BY <1>3, ProgramIs DEF Entry, s
  <2> QED
    BY <1>1, <1>3, <2>1
<1>4. CASE i \in 6..9
  <2>1. i = 6 \/ i = 7 \/ i = 8 \/ i = 9
    BY <1>4
  <2>2. s.part \in {"realize", "stage-all"} /\ s.action # "journal"
    BY <2>1, ProgramIs, SMTT(30) DEF Entry, s
  <2> QED
    BY <1>1, <1>4, <2>2
<1>5. CASE i \in {10, 11}
  <2>1. s.part = "smoke" /\ s.slot = Server
    BY <1>5, ProgramIs DEF Entry, s
  <2> QED
    BY <1>1, <1>5, <2>1
<1>6. CASE i \in 12..15
  <2>1. i = 12 \/ i = 13 \/ i = 14 \/ i = 15
    BY <1>6
  <2>2. s.part = "smoke" /\ s.slot # Server /\ (s.action = "journal" <=> i = 15)
    BY <2>1, ProgramIs, SlotNames, SMTT(30) DEF Entry, s
  <2> QED
    BY <1>1, <1>6, <2>1, <2>2
<1>7. CASE i \in 16..19
  <2>1. i = 16 \/ i = 17 \/ i = 18 \/ i = 19
    BY <1>7
  <2>2. s.part \in {"stops", "trap"}
    BY <2>1, ProgramIs, SMTT(30) DEF Entry, s
  <2> QED
    BY <1>1, <1>7, <2>2
<1>8. CASE i \in 20..23
  <2>1. i = 20 \/ i = 21 \/ i = 22 \/ i = 23
    BY <1>8
  <2>2. s.part = "cleanup-all" /\ (s.action = "stop" <=> i = 20 \/ i = 22)
    BY <2>1, ProgramIs, SMTT(30) DEF Entry, s
  <2> QED
    BY <1>1, <1>8, <2>1, <2>2
<1> QED
  BY <1>2, <1>3, <1>4, <1>5, <1>6, <1>7, <1>8

\* An answered dispatch goes to the next one, past the traps, or ends the program.
LEMMA SuccessGoesTo ==
    ASSUME NEW i \in 1..23
    PROVE  \/ AfterSuccess(i) = i + 1
           \/ i = 7 /\ AfterSuccess(i) = 25
           \/ i = 17 /\ AfterSuccess(i) = 20
<1> QED
  BY Steps, Ends, Zenon DEF AfterSuccess

-----------------------------------------------------------------------------
(* What a step may do to the slots: no slot that is stopped for good comes  *)
(* back, staged bytes stay, and nothing is started before its time.         *)
QuietNext(s) ==
    /\ slots'[s].canceled /\ ~slots'[s].locked
    /\ slots'[s].unit # "stopped" => slots'[s].unit = "none" /\ ~slots'[s].attempted

SlotsGrow ==
    /\ slots' \in [Slot -> SlotStates]
    /\ \A s \in Slot :
          /\ Quiet(s) => Quiet(s)'
          /\ slots[s].bytes = "exact" => slots'[s].bytes = "exact"
          /\ s # Package /\ slots'[s].attempted => slots[s].attempted \/ Ready

\* The transport type invariant, variable by variable.
LEMMA TypeUnfolds ==
    ASSUME TransportTypeOK
    PROVE  /\ slots \in [Slot -> SlotStates] /\ jobs \in Seq(Jobs) /\ waiting \in BOOLEAN
           /\ step \in 1..25 /\ failed \subseteq 1..23
<1> QED
  BY Ends, ProgramIs DEF TransportTypeOK, SlotStates, Jobs

\* The same, to be rebuilt in the next state.
LEMMA TypeFolds ==
    ASSUME slots' \in [Slot -> SlotStates], jobs' \in Seq(Jobs), waiting' \in BOOLEAN,
           step' \in 1..25, failed' \subseteq 1..23
    PROVE  TransportTypeOK'
<1> QED
  BY Ends, ProgramIs DEF TransportTypeOK, SlotStates, Jobs

(* The same of the proofs, with the steps' places.                          *)
LEMMA ProofsAre ==
    ASSUME step \in 1..25 PROVE
    Proofs <=>
        /\ step \in 7..24 => Quiet(Package)
        /\ step \in 9..24 => slots[Server].bytes = "exact"
        /\ step \in 10..24 => slots[Client].bytes = "exact"
        /\ step \in 21..24 /\ 20 \notin failed => Quiet(Server)
        /\ step \in 23..24 /\ 22 \notin failed => Quiet(Client)
<1>1. \A s : s \in {Server, Client} <=> s = Server \/ s = Client
  OBVIOUS
<1>2. /\ Past("realize", Package, "stop") <=> step \in 7..24
      /\ Past("stage-all", Server, "stage") <=> step \in 9..24
      /\ Past("stage-all", Client, "stage") <=> step \in 10..24
      /\ Past("cleanup-all", Server, "stop") <=> step \in 21..24
      /\ Past("cleanup-all", Client, "stop") <=> step \in 23..24
  BY Steps, Ends DEF Past
<1> QED
  BY <1>2, Steps DEF Proofs
\* What each position of the program has proved, in the next state.
LEMMA ProofsArePrimed ==
    ASSUME step' \in 1..25 PROVE
    Proofs' <=>
        /\ step' \in 7..24 => Quiet(Package)'
        /\ step' \in 9..24 => slots'[Server].bytes = "exact"
        /\ step' \in 10..24 => slots'[Client].bytes = "exact"
        /\ step' \in 21..24 /\ 20 \notin failed' => Quiet(Server)'
        /\ step' \in 23..24 /\ 22 \notin failed' => Quiet(Client)'
<1>2. /\ Past("realize", Package, "stop")' <=> step' \in 7..24
      /\ Past("stage-all", Server, "stage")' <=> step' \in 9..24
      /\ Past("stage-all", Client, "stage")' <=> step' \in 10..24
      /\ Past("cleanup-all", Server, "stop")' <=> step' \in 21..24
      /\ Past("cleanup-all", Client, "stop")' <=> step' \in 23..24
  BY Steps, Ends DEF Past
<1> QED
  BY <1>2, Steps DEF Proofs

JobsFromBefore ==
    \A n \in DOMAIN jobs' :
        \/ \E k \in DOMAIN jobs : jobs'[n] = jobs[k]
        \/ jobs'[n].slot = Package \/ jobs'[n].action # "start" \/ Ready

\* A start already asked for stays justified while slots only grow.
LEMMA StartedStays == ASSUME TransportInv, SlotsGrow, JobsFromBefore PROVE Started'
<1>1. Ready => Ready'
  BY SlotNames DEF SlotsGrow, Ready
<1>2. ASSUME NEW n \in DOMAIN jobs', jobs'[n].slot # Package, jobs'[n].action = "start"
      PROVE  Ready'
  BY <1>1, <1>2 DEF JobsFromBefore, TransportInv, Started
<1>3. ASSUME NEW s \in {Server, Client}, slots'[s].attempted PROVE Ready'
  BY <1>1, <1>3, SlotNames DEF SlotsGrow, TransportInv, Started
<1> QED
  BY <1>2, <1>3 DEF Started

\* What each position of the program has proved, in this state.
LEMMA ProofsNow ==
    ASSUME TransportInv
    PROVE  /\ step \in 7..24 => Quiet(Package)
           /\ step \in 9..24 => slots[Server].bytes = "exact"
           /\ step \in 10..24 => slots[Client].bytes = "exact"
           /\ step \in 21..24 /\ 20 \notin failed => Quiet(Server)
           /\ step \in 23..24 /\ 22 \notin failed => Quiet(Client)
<1> QED
  BY TypeUnfolds, ProofsAre DEF TransportInv

(* The head stays at its step, or dies.                                     *)
LEMMA HeadRests ==
    ASSUME TransportInv, SlotsGrow, JobsFromBefore, jobs' \in Seq(Jobs), waiting' \in BOOLEAN,
           failed' = failed, step' \in {step, 25}, Sent'
    PROVE  TransportInv'
<1>1. TransportTypeOK /\ step \in 1..25 /\ failed \subseteq 1..23
  BY TypeUnfolds DEF TransportInv
<1>2. step' \in 1..25 /\ slots' \in [Slot -> SlotStates]
  BY <1>1 DEF SlotsGrow
<1>3. TransportTypeOK'
  BY <1>1, <1>2, TypeFolds
<1>4. step' \in 1..24 => step' = step
  BY <1>1
<1>5. /\ step' \in 7..24 => Quiet(Package)'
      /\ step' \in 9..24 => slots'[Server].bytes = "exact"
      /\ step' \in 10..24 => slots'[Client].bytes = "exact"
      /\ step' \in 21..24 /\ 20 \notin failed' => Quiet(Server)'
      /\ step' \in 23..24 /\ 22 \notin failed' => Quiet(Client)'
  BY <1>1, <1>4, ProofsNow, SlotNames DEF SlotsGrow
<1>6. Proofs'
  BY <1>2, <1>5, ProofsArePrimed
<1> QED
  BY <1>3, <1>6, StartedStays DEF TransportInv

(* The head goes on, with the proof of what it has had done.                *)
LEMMA HeadGoesOn ==
    ASSUME TransportInv, SlotsGrow, JobsFromBefore, jobs' \in Seq(Jobs), step \in 1..23,
           waiting' = FALSE,
           \/ Fails
           \/ /\ Succeeds
              /\ step = 6 => Quiet(Package)'
              /\ step = 8 => slots'[Server].bytes = "exact"
              /\ step = 9 => slots'[Client].bytes = "exact"
              /\ step = 20 => Quiet(Server)'
              /\ step = 22 => Quiet(Client)'
    PROVE  TransportInv'
<1>1. TransportTypeOK /\ failed \subseteq 1..23
  BY TypeUnfolds DEF TransportInv
<1>2. /\ step \in 7..23 => Quiet(Package)'
      /\ step \in 9..23 => slots'[Server].bytes = "exact"
      /\ step \in 10..23 => slots'[Client].bytes = "exact"
      /\ step \in 21..23 /\ 20 \notin failed => Quiet(Server)'
      /\ step = 23 /\ 22 \notin failed => Quiet(Client)'
  BY ProofsNow, SlotNames DEF SlotsGrow
<1>3. CASE /\ Succeeds
           /\ step = 6 => Quiet(Package)'
           /\ step = 8 => slots'[Server].bytes = "exact"
           /\ step = 9 => slots'[Client].bytes = "exact"
           /\ step = 20 => Quiet(Server)'
           /\ step = 22 => Quiet(Client)'
  <2>1. failed' = failed /\ (\/ step' = step + 1
                             \/ step = 7 /\ step' = 25
                             \/ step = 17 /\ step' = 20)
    BY <1>3, SuccessGoesTo DEF Succeeds
  <2>2. step' \in 1..25 /\ failed' \subseteq 1..23
    BY <1>1, <2>1, SMTT(30)
  <2>3. step' \in 7..24 => Quiet(Package)'
    BY <1>2, <1>3, <2>1
  <2>4. step' \in 9..24 => slots'[Server].bytes = "exact"
    BY <1>2, <1>3, <2>1
  <2>5. step' \in 10..24 => slots'[Client].bytes = "exact"
    BY <1>2, <1>3, <2>1
  <2>6. step' \in 21..24 /\ 20 \notin failed' => Quiet(Server)'
    BY <1>2, <1>3, <2>1
  <2>7. step' \in 23..24 /\ 22 \notin failed' => Quiet(Client)'
    BY <1>2, <1>3, <2>1
  <2>8. TransportTypeOK'
    BY <2>2, TypeFolds DEF SlotsGrow
  <2> QED
    BY <2>2, <2>3, <2>4, <2>5, <2>6, <2>7, <2>8, ProofsArePrimed, StartedStays
       DEF TransportInv, Sent
<1>4. CASE Fails
  <2>1. failed' = failed \cup {step} /\ step' = AfterFailure(step)
    BY <1>4 DEF Fails
  <2> DEFINE to == AfterFailure(step)
  <2>2. /\ step \in 1..4 => to = 5
        /\ step = 5 => to = 6
        /\ step \in 6..9 => to = 25
        /\ step \in {10, 11} => to = 19
        /\ step \in 12..14 => to = 15
        /\ step = 15 => to = 18
        /\ step \in 16..19 => to = step + 1
        /\ step \in {20, 22} => to = step + 2
        /\ step \in {21, 23} => to = step + 1
    BY FailureGoesTo
  <2>3. step' = to
    BY <2>1
  <2> HIDE DEF to
  <2>4. step' \in 1..25 /\ failed' \subseteq 1..23
    BY <1>1, <2>1, <2>2, <2>3, SMTT(30)
  <2>5. step' \in 7..24 => step \in 10..23
    BY <2>2, <2>3
  <2>6. step' \in 21..24 => step \in 21..23 \/ step = 20
    BY <2>2, <2>3
  <2>7. step' \in 23..24 => step = 23 \/ step = 22
    BY <2>2, <2>3
  <2>8. /\ step' \in 7..24 => Quiet(Package)'
        /\ step' \in 9..24 => slots'[Server].bytes = "exact"
        /\ step' \in 10..24 => slots'[Client].bytes = "exact"
    BY <1>2, <2>4, <2>5
  <2>9. step' \in 21..24 /\ 20 \notin failed' => Quiet(Server)'
    BY <1>2, <2>1, <2>6
  <2>10. step' \in 23..24 /\ 22 \notin failed' => Quiet(Client)'
    BY <1>2, <2>1, <2>7
  <2>11. TransportTypeOK'
    BY <2>4, TypeFolds DEF SlotsGrow
  <2> QED
    BY <2>4, <2>8, <2>9, <2>10, <2>11, ProofsArePrimed, StartedStays DEF TransportInv, Sent
<1> QED
  BY <1>3, <1>4

(* The requests without the one that was answered.                          *)
LEMMA JobAnswered ==
    ASSUME NEW s \in Seq(Jobs), NEW i \in 1..Len(s)
    PROVE  LET t == SubSeq(s, 1, i - 1) \o SubSeq(s, i + 1, Len(s))
           IN  /\ t \in Seq(Jobs)
               /\ Len(t) = Len(s) - 1
               /\ \A j \in 1..Len(s) - 1 : t[j] = IF j < i THEN s[j] ELSE s[j + 1]
<1> DEFINE a == SubSeq(s, 1, i - 1)
           b == SubSeq(s, i + 1, Len(s))
           n == Len(s)
<1>1. n \in Nat /\ i \in Nat /\ 1 <= i /\ i <= n /\ \A j \in 1..n : s[j] \in Jobs
  OBVIOUS
<1>2. a \in Seq(Jobs) /\ Len(a) = i - 1 /\ \A j \in 1..i - 1 : a[j] = s[j]
  <2>1. 1 \in Int /\ i - 1 \in Int /\ (\A j \in 1..i - 1 : s[j] \in Jobs)
    BY <1>1
  <2>2. /\ a \in Seq(Jobs) /\ Len(a) = IF 1 <= i - 1 THEN (i - 1) - 1 + 1 ELSE 0
        /\ \A j \in 1..(i - 1) - 1 + 1 : a[j] = s[1 + j - 1]
    BY <2>1, SubSeqProperties
  <2> HIDE DEF a
  <2> QED
    BY <1>1, <2>2
<1>3. b \in Seq(Jobs) /\ Len(b) = n - i /\ \A j \in 1..n - i : b[j] = s[i + j]
  <2>1. i + 1 \in Int /\ n \in Int /\ (\A j \in i + 1..n : s[j] \in Jobs)
    BY <1>1
  <2>2. /\ b \in Seq(Jobs) /\ Len(b) = IF i + 1 <= n THEN n - (i + 1) + 1 ELSE 0
        /\ \A j \in 1..n - (i + 1) + 1 : b[j] = s[(i + 1) + j - 1]
    BY <2>1, SubSeqProperties
  <2> HIDE DEF b, n
  <2>3. \A j \in 1..n - i : j \in 1..n - (i + 1) + 1 /\ (i + 1) + j - 1 = i + j
    BY <1>1
  <2> QED
    BY <1>1, <2>2, <2>3
<1> HIDE DEF a, b, n
<1>4. /\ a \o b \in Seq(Jobs) /\ Len(a \o b) = Len(a) + Len(b)
      /\ \A j \in 1..Len(a) + Len(b) : (a \o b)[j] = IF j <= Len(a) THEN a[j] ELSE b[j - Len(a)]
  BY <1>2, <1>3, ConcatProperties
<1>5. Len(a) + Len(b) = n - 1
  BY <1>1, <1>2, <1>3
<1>6. ASSUME NEW j \in 1..n - 1 PROVE (a \o b)[j] = IF j < i THEN s[j] ELSE s[j + 1]
  <2>1. (a \o b)[j] = IF j <= i - 1 THEN a[j] ELSE b[j - (i - 1)]
    BY <1>2, <1>4, <1>5
  <2>2. CASE j < i
    BY <1>1, <1>2, <2>1, <2>2
  <2>3. CASE ~(j < i)
    <3>1. j - (i - 1) \in 1..n - i /\ i + (j - (i - 1)) = j + 1
      BY <1>1, <2>3
    <3> QED
      BY <1>1, <1>3, <2>1, <2>3, <3>1
  <2> QED
    BY <2>2, <2>3
<1> QED
  BY <1>4, <1>5, <1>6 DEF a, b, n

(* A request is answered, to the head or to nobody.                         *)
LEMMA AnswerKeeps ==
    ASSUME TransportInv, SlotsGrow, NEW n \in DOMAIN jobs, NEW answer, Answer(n, answer),
           Positive(jobs[n].action, answer) =>
               /\ jobs[n].action = "stop" => QuietNext(jobs[n].slot)
               /\ jobs[n].action = "stage" => slots'[jobs[n].slot].bytes = "exact"
    PROVE  TransportInv'
<1>1. /\ jobs \in Seq(Jobs) /\ DOMAIN jobs = 1..Len(jobs) /\ Len(jobs) \in Nat
      /\ waiting \in BOOLEAN /\ step \in 1..25
  BY TypeUnfolds DEF TransportInv
<1>2. /\ jobs' \in Seq(Jobs) /\ Len(jobs') = Len(jobs) - 1
      /\ \A j \in 1..Len(jobs) - 1 : jobs'[j] = IF j < n THEN jobs[j] ELSE jobs[j + 1]
  <2>1. jobs' = SubSeq(jobs, 1, n - 1) \o SubSeq(jobs, n + 1, Len(jobs))
    BY DEF Answer
  <2>2. n \in 1..Len(jobs)
    BY <1>1
  <2> QED
    BY <1>1, <2>1, <2>2, JobAnswered
<1>3. JobsFromBefore
  <2>1. ASSUME NEW j \in DOMAIN jobs' PROVE \E k \in DOMAIN jobs : jobs'[j] = jobs[k]
    <3>1. j \in 1..Len(jobs) - 1 /\ j \in DOMAIN jobs /\ j + 1 \in DOMAIN jobs
      BY <1>1, <1>2
    <3> QED
      BY <1>2, <3>1
  <2> QED
    BY <2>1 DEF JobsFromBefore
<1>4. CASE Waited(n)
  <2>1. waiting /\ n = Len(jobs) /\ waiting' = FALSE
        /\ (IF Positive(jobs[n].action, answer) THEN Succeeds ELSE Fails)
    BY <1>4 DEF Answer, Waited
  <2>2. step \in 1..23 /\ jobs[n].slot = Dispatches[step].slot
        /\ jobs[n].action = Dispatches[step].action
    BY <2>1, ProgramIs DEF TransportInv, Sent
  <2>3. CASE Positive(jobs[n].action, answer)
    <3>1. /\ step = 6 => jobs[n].slot = Package /\ jobs[n].action = "stop"
          /\ step = 8 => jobs[n].slot = Server /\ jobs[n].action = "stage"
          /\ step = 9 => jobs[n].slot = Client /\ jobs[n].action = "stage"
          /\ step = 20 => jobs[n].slot = Server /\ jobs[n].action = "stop"
          /\ step = 22 => jobs[n].slot = Client /\ jobs[n].action = "stop"
      BY <2>2, ProgramIs DEF Entry
    <3>2. Succeeds
      BY <2>1, <2>3
    <3> DEFINE s == jobs[n].slot
    <3>3. /\ jobs[n].action = "stop" => QuietNext(s)
          /\ jobs[n].action = "stage" => slots'[s].bytes = "exact"
      BY <2>3
    <3>4. /\ step = 6 => Quiet(Package)'
          /\ step = 8 => slots'[Server].bytes = "exact"
          /\ step = 9 => slots'[Client].bytes = "exact"
          /\ step = 20 => Quiet(Server)'
          /\ step = 22 => Quiet(Client)'
      BY <3>1, <3>3 DEF Quiet, QuietNext
    <3> QED
      BY <1>2, <1>3, <2>1, <2>2, <3>2, <3>4, HeadGoesOn
  <2>4. CASE ~Positive(jobs[n].action, answer)
    <3>1. Fails
      BY <2>1, <2>4
    <3> QED
      BY <1>2, <1>3, <2>1, <2>2, <3>1, HeadGoesOn
  <2> QED
    BY <2>3, <2>4
<1>5. CASE ~Waited(n)
  <2>1. UNCHANGED <<waiting, step, failed>>
    BY <1>5 DEF Answer
  <2>2. Sent'
    <3> SUFFICES ASSUME waiting' PROVE Sent'
      BY DEF Sent
    <3>1. waiting /\ n # Len(jobs)
      BY <1>5, <2>1 DEF Waited
    <3>2. /\ step \in DOMAIN Dispatches /\ jobs # <<>>
          /\ jobs[Len(jobs)].slot = Dispatches[step].slot
          /\ jobs[Len(jobs)].action = Dispatches[step].action
      BY <3>1 DEF TransportInv, Sent
    <3>3. n < Len(jobs) /\ Len(jobs) - 1 \in 1..Len(jobs) - 1
      BY <1>1, <3>1
    <3>4. jobs'[Len(jobs')] = jobs[Len(jobs)] /\ Len(jobs') # 0
      BY <1>1, <1>2, <3>3
    <3>5. jobs' # <<>>
      BY <1>2, <3>4
    <3> QED
      BY <2>1, <3>2, <3>4, <3>5 DEF Sent
  <2> QED
    BY <1>1, <1>2, <1>3, <2>1, <2>2, HeadRests
<1> QED
  BY <1>4, <1>5

-----------------------------------------------------------------------------
(***************************************************************************)
(* One step of the head, of a slot or of systemd.                          *)
(***************************************************************************)
LEMMA SlotChange ==
    ASSUME TransportTypeOK, NEW s \in Slot, NEW new \in SlotStates, Becomes(s, new),
           Quiet(s) => /\ new.canceled /\ ~new.locked
                       /\ new.unit # "stopped" => new.unit = "none" /\ ~new.attempted,
           slots[s].bytes = "exact" => new.bytes = "exact",
           s # Package /\ new.attempted => slots[s].attempted \/ Ready
    PROVE  SlotsGrow /\ slots'[s] = new
<1>1. slots \in [Slot -> SlotStates]
  BY TypeUnfolds
<1>2. /\ slots' \in [Slot -> SlotStates] /\ slots'[s] = new
      /\ \A t \in Slot : t # s => slots'[t] = slots[t]
  BY <1>1 DEF Becomes
<1>3. ASSUME NEW t \in Slot
      PROVE  /\ Quiet(t) => Quiet(t)'
             /\ slots[t].bytes = "exact" => slots'[t].bytes = "exact"
             /\ t # Package /\ slots'[t].attempted => slots[t].attempted \/ Ready
  <2>1. CASE t = s
    BY <1>2, <2>1 DEF Quiet
  <2>2. CASE t # s
    <3>1. slots'[t] = slots[t]
      BY <1>2, <2>2
    <3> QED
      BY <3>1 DEF Quiet
  <2> QED
    BY <2>1, <2>2
<1> QED
  BY <1>2, <1>3 DEF SlotsGrow

\* Slots left alone have grown.
LEMMA SlotsRest == ASSUME TransportTypeOK, UNCHANGED slots PROVE SlotsGrow
<1>1. slots \in [Slot -> SlotStates]
  BY TypeUnfolds
<1> QED
  BY <1>1 DEF SlotsGrow, Quiet

\* Jobs left alone were there before.
LEMMA JobsRest == ASSUME UNCHANGED jobs PROVE JobsFromBefore
<1> QED
  BY DEF JobsFromBefore

(* The slot of a request and what it may become.                            *)
LEMMA JobSlot ==
    ASSUME TransportTypeOK, NEW n \in DOMAIN jobs
    PROVE  /\ jobs[n].slot \in Slot /\ jobs[n].action \in Actions
           /\ slots[jobs[n].slot] \in SlotStates
<1>1. jobs \in Seq(Jobs) /\ slots \in [Slot -> SlotStates]
  BY TypeUnfolds
<1>2. jobs[n] \in Jobs
  BY <1>1
<1> QED
  BY <1>1, <1>2 DEF Jobs

\* A job that is refused keeps the invariant.
LEMMA RefusedKeeps ==
    ASSUME TransportInv, NEW n \in DOMAIN jobs, Refused(n) PROVE TransportInv'
<1>1. SlotsGrow
  BY SlotsRest DEF Refused, TransportInv
<1>2. Answer(n, "refused") /\ ~Positive(jobs[n].action, "refused")
  BY DEF Refused, Positive
<1> QED
  BY <1>1, <1>2, AnswerKeeps

\* Staging the bytes of a slot keeps the invariant.
LEMMA StageKeeps ==
    ASSUME TransportInv, NEW n \in DOMAIN jobs, Stage(n) PROVE TransportInv'
<1> DEFINE s == jobs[n].slot
           exact == [slots[s] EXCEPT !.bytes = "exact"]
           part == [slots[s] EXCEPT !.bytes = "partial"]
<1>1. TransportTypeOK /\ s \in Slot /\ slots[s] \in SlotStates
  BY JobSlot DEF TransportInv
<1>2. jobs[n].action = "stage" /\ slots[s].bytes = "none"
  BY DEF Stage
<1>3. \/ Becomes(s, exact) /\ Answer(n, "pass")
      \/ Becomes(s, part) /\ Answer(n, "refused")
  BY DEF Stage
<1>4. /\ exact \in SlotStates /\ exact.bytes = "exact"
      /\ part \in SlotStates
      /\ exact.canceled = slots[s].canceled /\ part.canceled = slots[s].canceled
      /\ exact.locked = slots[s].locked /\ part.locked = slots[s].locked
      /\ exact.unit = slots[s].unit /\ part.unit = slots[s].unit
      /\ exact.attempted = slots[s].attempted /\ part.attempted = slots[s].attempted
  BY <1>1 DEF SlotStates
<1> HIDE DEF exact, part
<1>5. CASE Becomes(s, exact) /\ Answer(n, "pass")
  <2>1. SlotsGrow /\ slots'[s] = exact
    BY <1>1, <1>4, <1>5, SlotChange DEF Quiet
  <2>2. slots'[s].bytes = "exact"
    BY <1>4, <2>1
  <2> QED
    BY <1>2, <1>5, <2>1, <2>2, AnswerKeeps
<1>6. CASE Becomes(s, part) /\ Answer(n, "refused")
  <2>1. SlotsGrow
    BY <1>1, <1>2, <1>4, <1>6, SlotChange DEF Quiet
  <2>2. ~Positive(jobs[n].action, "refused")
    BY DEF Positive
  <2> QED
    BY <1>6, <2>1, <2>2, AnswerKeeps
<1> QED
  BY <1>3, <1>5, <1>6

\* Preparing a slot keeps the invariant.
LEMMA PrepareKeeps ==
    ASSUME TransportInv, NEW n \in DOMAIN jobs, Prepare(n) PROVE TransportInv'
<1> DEFINE s == jobs[n].slot
           new == [slots[s] EXCEPT !.prepared = TRUE]
<1>1. TransportTypeOK /\ s \in Slot /\ slots[s] \in SlotStates
  BY JobSlot DEF TransportInv
<1>2. jobs[n].action = "prepare" /\ Becomes(s, new) /\ Answer(n, "pass") /\ ~slots[s].canceled
  BY DEF Prepare, Enters
<1>3. /\ new \in SlotStates /\ new.bytes = slots[s].bytes
      /\ new.attempted = slots[s].attempted
  BY <1>1 DEF SlotStates
<1> HIDE DEF new
<1>4. SlotsGrow
  BY <1>1, <1>2, <1>3, SlotChange DEF Quiet
<1> QED
  BY <1>2, <1>4, AnswerKeeps

\* A start that begins keeps the invariant.
LEMMA StartBeginsKeeps ==
    ASSUME TransportInv, NEW n \in DOMAIN jobs, StartBegins(n) PROVE TransportInv'
<1> DEFINE s == jobs[n].slot
           new == [slots[s] EXCEPT !.attempted = TRUE, !.locked = TRUE]
<1>1. TransportTypeOK /\ s \in Slot /\ slots[s] \in SlotStates
  BY JobSlot DEF TransportInv
<1>2. /\ jobs[n].action = "start" /\ Becomes(s, new) /\ ~slots[s].canceled
      /\ UNCHANGED <<jobs, waiting, step, failed>>
  BY DEF StartBegins, Enters
<1>3. new \in SlotStates /\ new.bytes = slots[s].bytes
  BY <1>1 DEF SlotStates
<1> HIDE DEF new
<1>4. s # Package => Ready
  BY <1>2 DEF TransportInv, Started
<1>5. SlotsGrow
  BY <1>1, <1>2, <1>3, <1>4, SlotChange DEF Quiet
<1>6. jobs' \in Seq(Jobs) /\ waiting' \in BOOLEAN /\ Sent'
  BY <1>1, <1>2, TypeUnfolds DEF TransportInv, Sent
<1> QED
  BY <1>2, <1>5, <1>6, JobsRest, HeadRests

\* A start that is answered keeps the invariant.
LEMMA StartEndsKeeps ==
    ASSUME TransportInv, NEW n \in DOMAIN jobs, StartEnds(n) PROVE TransportInv'
<1> DEFINE s == jobs[n].slot
           up == [slots[s] EXCEPT !.locked = FALSE, !.unit = "up"]
           none == [slots[s] EXCEPT !.locked = FALSE]
<1>1. TransportTypeOK /\ s \in Slot /\ slots[s] \in SlotStates
  BY JobSlot DEF TransportInv
<1>2. jobs[n].action = "start" /\ slots[s].locked
  BY DEF StartEnds
<1>3. \/ Becomes(s, up) /\ Answer(n, "pass")
      \/ Becomes(s, none) /\ Answer(n, "refused")
  BY DEF StartEnds
<1>4. /\ up \in SlotStates /\ none \in SlotStates
      /\ up.bytes = slots[s].bytes /\ none.bytes = slots[s].bytes
      /\ up.attempted = slots[s].attempted /\ none.attempted = slots[s].attempted
  BY <1>1 DEF SlotStates
<1> HIDE DEF up, none
<1>5. CASE Becomes(s, up) /\ Answer(n, "pass")
  <2>1. SlotsGrow
    BY <1>1, <1>2, <1>4, <1>5, SlotChange DEF Quiet
  <2> QED
    BY <1>2, <1>5, <2>1, AnswerKeeps
<1>6. CASE Becomes(s, none) /\ Answer(n, "refused")
  <2>1. SlotsGrow
    BY <1>1, <1>2, <1>4, <1>6, SlotChange DEF Quiet
  <2> QED
    BY <1>2, <1>6, <2>1, AnswerKeeps
<1> QED
  BY <1>3, <1>5, <1>6

\* The jobs that only read keep the invariant.
LEMMA ReadsKeep ==
    ASSUME TransportInv, NEW n \in DOMAIN jobs, WaitSuccess(n) \/ Journal(n) \/ Inspect(n)
    PROVE  TransportInv'
<1>1. SlotsGrow
  BY SlotsRest DEF WaitSuccess, Journal, Inspect, TransportInv
<1>2. jobs[n].action \in {"wait-success", "journal", "inspect"}
  BY DEF WaitSuccess, Journal, Inspect, Enters
<1>3. \E answer \in {"pass", "null", "object"} : Answer(n, answer)
  BY DEF WaitSuccess, Journal, Inspect
<1> QED
  BY <1>1, <1>2, <1>3, AnswerKeeps

\* A stop, and the proof of quiet it gives, keeps the invariant.
LEMMA StopKeeps ==
    ASSUME TransportInv, NEW n \in DOMAIN jobs, Stop(n) PROVE TransportInv'
<1> DEFINE s == jobs[n].slot
           canceled == [slots[s] EXCEPT !.canceled = TRUE]
           stopped == [canceled EXCEPT !.unit = IF @ = "none" THEN @ ELSE "stopped"]
<1>1. TransportTypeOK /\ s \in Slot /\ slots[s] \in SlotStates
  BY JobSlot DEF TransportInv
<1>2. jobs[n].action = "stop" /\ ~slots[s].locked
  BY DEF Stop, Enters
<1>3. \/ Becomes(s, canceled) /\ Answer(n, "refused")
      \/ /\ ~(slots[s].attempted /\ slots[s].unit = "none")
         /\ Becomes(s, stopped) /\ Answer(n, "pass")
  BY Zenon DEF Stop
<1>4. /\ canceled \in SlotStates /\ canceled.canceled = TRUE
      /\ canceled.bytes = slots[s].bytes /\ canceled.attempted = slots[s].attempted
      /\ canceled.locked = slots[s].locked /\ canceled.unit = slots[s].unit
  BY <1>1 DEF SlotStates
<1>5. /\ stopped \in SlotStates /\ stopped.canceled = TRUE
      /\ stopped.bytes = slots[s].bytes /\ stopped.attempted = slots[s].attempted
      /\ stopped.locked = slots[s].locked
      /\ stopped.unit = IF slots[s].unit = "none" THEN "none" ELSE "stopped"
  BY <1>1 DEF SlotStates
<1> HIDE DEF canceled, stopped
<1>6. CASE Becomes(s, canceled) /\ Answer(n, "refused")
  <2>1. SlotsGrow
    BY <1>1, <1>4, <1>6, SlotChange DEF Quiet
  <2>2. ~Positive(jobs[n].action, "refused")
    BY DEF Positive
  <2> QED
    BY <1>6, <2>1, <2>2, AnswerKeeps
<1>7. CASE /\ ~(slots[s].attempted /\ slots[s].unit = "none")
           /\ Becomes(s, stopped) /\ Answer(n, "pass")
  <2>1. SlotsGrow /\ slots'[s] = stopped
    BY <1>1, <1>5, <1>7, SlotChange DEF Quiet
  <2>2. QuietNext(s)
    BY <1>2, <1>5, <1>7, <2>1 DEF QuietNext
  <2> QED
    BY <1>2, <1>7, <2>1, <2>2, AnswerKeeps
<1> QED
  BY <1>3, <1>6, <1>7

\* Sending the next job keeps the invariant: a link slot is only started when staged.
LEMMA DispatchKeeps == ASSUME TransportInv, Dispatch PROVE TransportInv'
<1> DEFINE new == [slot |-> Dispatches[step].slot, action |-> Dispatches[step].action]
<1>1. /\ step \in 1..23 /\ jobs' = Append(jobs, new) /\ waiting' = TRUE
      /\ UNCHANGED <<slots, step, failed>>
  BY ProgramIs DEF Dispatch
<1>2. TransportTypeOK /\ jobs \in Seq(Jobs)
  BY TypeUnfolds DEF TransportInv
<1>3. Dispatches[step] \in Entries
  BY <1>1, ProgramIs, ElementOfSeq
<1>4. new \in Jobs
  BY <1>3 DEF Entries, Jobs
<1>5. /\ jobs' \in Seq(Jobs) /\ Len(jobs') = Len(jobs) + 1 /\ jobs'[Len(jobs) + 1] = new
      /\ \A k \in 1..Len(jobs) : jobs'[k] = jobs[k]
  <2> HIDE DEF new
  <2> QED
    BY <1>1, <1>2, <1>4
<1>6. SlotsGrow
  BY <1>1, <1>2, SlotsRest
<1>7. new.slot = Package \/ new.action # "start" \/ Ready
  <2>1. SUFFICES ASSUME new.slot # Package, new.action = "start" PROVE Ready
    OBVIOUS
  <2>2. step = 11 \/ step = 13
    <3>1. Dispatches[step].slot # Package /\ Dispatches[step].action = "start"
      BY <2>1
    <3>2. step \in DOMAIN Dispatches
      BY <1>1, ProgramIs
    <3> QED
      BY <3>1, <3>2, StartsOf, Zenon
  <2> QED
    BY <2>2, ProofsNow DEF Ready
<1>8. JobsFromBefore
  <2>1. ASSUME NEW k \in DOMAIN jobs'
        PROVE  \/ k \in DOMAIN jobs /\ jobs'[k] = jobs[k]
               \/ jobs'[k] = new
    <3>1. DOMAIN jobs' = 1..Len(jobs) + 1 /\ DOMAIN jobs = 1..Len(jobs) /\ Len(jobs) \in Nat
      BY <1>2, <1>5
    <3>2. k \in 1..Len(jobs) \/ k = Len(jobs) + 1
      BY <3>1
    <3> QED
      BY <1>5, <3>1, <3>2
  <2> HIDE DEF new
  <2> QED
    BY <1>7, <2>1 DEF JobsFromBefore
<1>9. Sent'
  <2>1. /\ step' = step /\ step \in DOMAIN Dispatches /\ jobs' # <<>> /\ Len(jobs') = Len(jobs) + 1
        /\ jobs'[Len(jobs')] = new
    <3>1. Len(jobs) \in Nat /\ jobs'[Len(jobs')] = new /\ Len(jobs') # 0
      BY <1>2, <1>5
    <3>2. jobs' # <<>>
      BY <3>1
    <3> QED
      BY <1>1, <1>5, <3>1, <3>2, ProgramIs
  <2>2. new.slot = Dispatches[step].slot /\ new.action = Dispatches[step].action
    OBVIOUS
  <2> HIDE DEF new
  <2> QED
    BY <2>1, <2>2 DEF Sent
<1> QED
  BY <1>1, <1>5, <1>6, <1>8, <1>9, HeadRests

\* A job given up by the caller keeps the invariant.
LEMMA GiveUpKeeps == ASSUME TransportInv, GiveUp PROVE TransportInv'
<1>1. TransportTypeOK /\ jobs \in Seq(Jobs)
  BY TypeUnfolds DEF TransportInv
<1>2. waiting /\ waiting' = FALSE /\ Fails /\ UNCHANGED slots /\ UNCHANGED jobs
  BY DEF GiveUp
<1>3. step \in 1..23
  BY <1>2, ProgramIs DEF TransportInv, Sent
<1>4. SlotsGrow /\ JobsFromBefore /\ jobs' \in Seq(Jobs)
  BY <1>1, <1>2, SlotsRest, JobsRest
<1> QED
  BY <1>2, <1>3, <1>4, HeadGoesOn

\* A unit that appears after its start gave up waiting keeps the invariant.
LEMMA AppearsKeeps == ASSUME TransportInv, Appears PROVE TransportInv'
<1>1. PICK s \in Slot : /\ slots[s].attempted /\ ~slots[s].locked
                        /\ slots[s].unit = "none"
                        /\ Becomes(s, [slots[s] EXCEPT !.unit = "up"])
                        /\ UNCHANGED <<jobs, waiting, step, failed>>
  BY DEF Appears
<1> DEFINE new == [slots[s] EXCEPT !.unit = "up"]
<1>2. TransportTypeOK /\ slots[s] \in SlotStates
  BY TypeUnfolds DEF TransportInv
<1>3. new \in SlotStates /\ new.bytes = slots[s].bytes /\ new.attempted = slots[s].attempted
  BY <1>2 DEF SlotStates
<1>4. Becomes(s, new)
  BY <1>1
<1> HIDE DEF new
<1>5. SlotsGrow
  BY <1>1, <1>2, <1>3, <1>4, SlotChange DEF Quiet
<1>6. jobs' \in Seq(Jobs) /\ waiting' \in BOOLEAN /\ Sent'
  BY <1>1, <1>2, TypeUnfolds DEF TransportInv, Sent
<1> QED
  BY <1>1, <1>5, <1>6, JobsRest, HeadRests

\* A unit that exits by itself keeps the invariant.
LEMMA ExitKeeps == ASSUME TransportInv, Exit PROVE TransportInv'
<1>1. PICK s \in Slot : /\ slots[s].unit = "up"
                        /\ Becomes(s, [slots[s] EXCEPT !.unit = "exited"])
                        /\ UNCHANGED <<jobs, waiting, step, failed>>
  BY DEF Exit
<1> DEFINE new == [slots[s] EXCEPT !.unit = "exited"]
<1>2. TransportTypeOK /\ slots[s] \in SlotStates
  BY TypeUnfolds DEF TransportInv
<1>3. new \in SlotStates /\ new.bytes = slots[s].bytes /\ new.attempted = slots[s].attempted
  BY <1>2 DEF SlotStates
<1>4. Becomes(s, new)
  BY <1>1
<1> HIDE DEF new
<1>5. SlotsGrow
  BY <1>1, <1>2, <1>3, <1>4, SlotChange DEF Quiet
<1>6. jobs' \in Seq(Jobs) /\ waiting' \in BOOLEAN /\ Sent'
  BY <1>1, <1>2, TypeUnfolds DEF TransportInv, Sent
<1> QED
  BY <1>1, <1>5, <1>6, JobsRest, HeadRests

\* The death of the head, which dispatches nothing more, keeps the invariant.
LEMMA DieKeeps == ASSUME TransportInv, Die PROVE TransportInv'
<1>1. step' = 25 /\ waiting' = FALSE /\ UNCHANGED <<slots, jobs, failed>>
  BY Ends DEF Die
<1>2. TransportTypeOK /\ jobs \in Seq(Jobs)
  BY TypeUnfolds DEF TransportInv
<1>3. SlotsGrow /\ JobsFromBefore /\ jobs' \in Seq(Jobs) /\ Sent'
  BY <1>1, <1>2, SlotsRest, JobsRest DEF Sent
<1> QED
  BY <1>1, <1>3, HeadRests

\* The initial states satisfy the transport invariant.
LEMMA InitTransport == ASSUME TransportInit PROVE TransportInv
<1>1. /\ \A s \in Slot : slots[s].attempted = FALSE
      /\ slots \in [Slot -> SlotStates] /\ jobs = <<>> /\ waiting = FALSE /\ step = 1 /\ failed = {}
  BY DEF TransportInit, SlotStates
<1>2. TransportTypeOK
  <2>1. jobs \in Seq(Jobs)
    BY <1>1
  <2> QED
    <3>1. jobs \in Seq([slot : Slot, action : Actions])
      BY <2>1 DEF Jobs
    <3>2. slots \in [Slot -> [bytes : {"none", "partial", "exact"}, prepared : BOOLEAN,
                             attempted : BOOLEAN, locked : BOOLEAN, canceled : BOOLEAN,
                             unit : {"none", "up", "exited", "stopped"}]]
      BY <1>1 DEF SlotStates
    <3>3. step \in 1..Gone
      BY <1>1, Ends
    <3>4. failed \subseteq DOMAIN Dispatches /\ waiting \in BOOLEAN
      BY <1>1
    <3> QED
      BY <3>1, <3>2, <3>3, <3>4 DEF TransportTypeOK
<1>3. Proofs
  BY <1>1, ProofsAre
<1>4. Started
  BY <1>1, SlotNames DEF Started
<1> QED
  BY <1>1, <1>2, <1>3, <1>4 DEF TransportInv, Sent

\* Every step, and every stutter, keeps the transport invariant.
LEMMA NextTransport ==
    ASSUME TransportInv, [TransportNext]_transportVars PROVE TransportInv'
<1>1. CASE UNCHANGED transportVars
  BY <1>1 DEF transportVars, TransportInv, TransportTypeOK, Sent, Proofs, Started, Ready, Quiet, Past
<1>2. ASSUME NEW n \in DOMAIN jobs, Serve(n) PROVE TransportInv'
  BY <1>2, RefusedKeeps, StageKeeps, PrepareKeeps, StartBeginsKeeps, StartEndsKeeps, ReadsKeep,
     StopKeeps DEF Serve
<1> QED
  BY <1>1, <1>2, DispatchKeeps, GiveUpKeeps, AppearsKeeps, ExitKeeps, DieKeeps DEF TransportNext

(* The head's steps and the slots go together at every step.                *)
THEOREM TransportInvHolds == TransportSpec => []TransportInv
<1> QED
  BY InitTransport, NextTransport, PTL DEF TransportSpec

(* A realized package has a client that is over, and slots that have all    *)
(* been proved stopped run nothing, whatever is still on its way to them:   *)
(* stop cancels a slot for good and gives no proof of a start it cannot see *)
(* (deuces-link-server.py), and the head stands behind the stops only if    *)
(* they were proved.                                                        *)
THEOREM PassMeansQuietHolds == TransportSpec => []PassMeansQuiet
<1>1. TransportInv => PassMeansQuiet
  <2> SUFFICES ASSUME TransportInv PROVE PassMeansQuiet
    OBVIOUS
  <2>1. step \in 1..25
    BY TypeUnfolds DEF TransportInv
  <2>2. Realized => slots[Package].unit # "up"
    <3> SUFFICES ASSUME Realized PROVE slots[Package].unit # "up"
      OBVIOUS
    <3>1. step # 25 /\ step - 1 >= 7
      BY Steps, Ends DEF Realized, RealizedBy
    <3>2. Quiet(Package)
      BY <2>1, <3>1, ProofsNow
    <3> QED
      BY <3>2 DEF Quiet
  <2>3. CleanupPassed => \A s \in {Server, Client} : slots[s].unit # "up"
    <3> SUFFICES ASSUME CleanupPassed PROVE \A s \in {Server, Client} : slots[s].unit # "up"
      OBVIOUS
    <3>1. step = 24 /\ failed \cap Of("cleanup-all") = {}
      BY Ends DEF CleanupPassed
    <3>2. 20 \in Of("cleanup-all") /\ 22 \in Of("cleanup-all")
      BY ProgramIs DEF Of, Entry
    <3>3. Quiet(Server) /\ Quiet(Client)
      BY <3>1, <3>2, ProofsNow
    <3> QED
      BY <3>3 DEF Quiet
  <2> QED
    BY <2>2, <2>3 DEF PassMeansQuiet
<1> QED
  BY <1>1, TransportInvHolds, PTL

(* Nothing is started of a link test before both slots hold the sealed      *)
(* bytes and the package client is over: the head sends the starts only     *)
(* behind these proofs, and no request of before can start anything late.   *)
THEOREM StartsOnlyStagedHolds == TransportSpec => []StartsOnlyStaged
<1>1. TransportInv => StartsOnlyStaged
  BY DEF TransportInv, Started, Ready, Quiet, StartsOnlyStaged
<1> QED
  BY <1>1, TransportInvHolds, PTL
=============================================================================
