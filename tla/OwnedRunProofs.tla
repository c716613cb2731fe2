--------------------------- MODULE OwnedRunProofs ---------------------------
(***************************************************************************)
(* What holds of every engine run under its parent.  The inductive         *)
(* invariant says where the child is in its program (Programmed) and what  *)
(* it has made ready there (Readying), follows the declaration through the *)
(* callback (Replicating) and the channel (Anchoring), and says what a     *)
(* receipt settles on a node although calls are served late (Settling).    *)
(***************************************************************************)
EXTENDS OwnedRun, TLAPS

(* A call is waited for while the child is in its program.                  *)
Programmed ==
    /\ child = "launch" => pc \in 1..15
    /\ child = "clean" => pc \in 1..7
    /\ waiting => child \in {"launch", "clean"} /\ pc \in 1..14
    /\ waiting /\ child = "clean" => pc \in 1..6
    /\ \A s \in Slots : phase[s] # "none" => s \in attempted

(* What the calls have made ready that have answered so far.                *)
Readying ==
    /\ child = "launch" /\ pc >= 6 => <<"hash", 0>> \in proof
    /\ child = "launch" /\ pc >= 7 => <<"hash", 1>> \in proof
    /\ child = "launch" /\ pc >= 10 =>
          phase[<<"box", 0>>] \notin {"none", "prepared"}
    /\ child = "launch" /\ pc >= 11 => Ready
    /\ (\E call \in orders : call[1] = "create") => Ready
    /\ NoModelBeforeAllReady

(* The callback asks the second guard only when the first has accepted.     *)
Replicating ==
    /\ inventory \subseteq Rank /\ relay \subseteq Rank
    /\ callback \in {"second", "passed"} => 0 \in inventory
    /\ callback = "passed" => 1 \in inventory

(* An offer is looked at once: behind an anchor without acknowledgement the *)
(* parent is stopping.                                                      *)
Anchoring ==
    /\ parent = "offered" => "anchor" \notin channel
    /\ parent = "watching" /\ ~stopping /\ "anchor" \in channel =>
          "ack" \in channel
    /\ "anchor" \in channel => Replicated
    /\ child \in {"launch", "serve"} \/ attempted # {} => "anchor" \in channel

(* A receipt stands behind a tombstone, and nothing runs behind it.         *)
Settling ==
    /\ \A s \in proof : phase[s] \notin {"created", "running"}
    /\ result = "pass" => Slots \subseteq proof

RunInv == TypeOK /\ Programmed /\ Readying /\ Replicating /\ Anchoring
          /\ Settling

(* The two programs, call by call as far as the invariant needs them.       *)
LEMMA LaunchCalls ==
    /\ Len(Launch) = 14
    /\ \A i \in 1..14 : Launch[i][2] \in Slots
    /\ \A i \in 1..14 : Launch[i][1] = "create" => i \in {11, 12}
    /\ Launch[5] = <<"await", <<"hash", 0>>>>
    /\ Launch[6] = <<"await", <<"hash", 1>>>>
    /\ Launch[9] = <<"arm", <<"box", 0>>>>
    /\ Launch[10] = <<"arm", <<"box", 1>>>>
<1>1. Len(Launch) = 14
  BY SMT DEF Launch, OnBoth
<1>2. \A i \in 1..14 : Launch[i][2] \in Slots
  BY TwoNodes, SMT DEF Launch, OnBoth, Call, Slots, Boxes, Hashes
<1>3. \A i \in 1..14 : Launch[i][1] = "create" => i \in {11, 12}
  BY SMT DEF Launch, OnBoth, Call
<1>4. /\ Launch[5] = <<"await", <<"hash", 0>>>>
      /\ Launch[6] = <<"await", <<"hash", 1>>>>
  BY SMT DEF Launch, OnBoth, Call
<1>5. /\ Launch[9] = <<"arm", <<"box", 0>>>>
      /\ Launch[10] = <<"arm", <<"box", 1>>>>
  BY SMT DEF Launch, OnBoth, Call
<1> QED
  BY <1>1, <1>2, <1>3, <1>4, <1>5

(* A cleanup stops and disarms.                                             *)
LEMMA ClosingCalls ==
    /\ Len(Closing) = 6
    /\ \A i \in 1..6 : Closing[i][1] \in {"stop", "disarm"}
    /\ \A i \in 1..6 : Closing[i][2] \in Slots
<1>1. Len(Closing) = 6 /\ \A i \in 1..6 : Closing[i][1] \in {"stop", "disarm"}
  BY SMT DEF Closing, OnBoth, Call
<1>2. \A i \in 1..6 : Closing[i][2] \in Slots
  BY TwoNodes, SMT DEF Closing, OnBoth, Call, Slots, Boxes, Hashes
<1> QED
  BY <1>1, <1>2

(* What the child asks for is the next call of the program it is in.        *)
LEMMA AskedCall ==
    ASSUME Programmed, Ask
    PROVE  \/ child = "launch" /\ pc \in 1..14 /\ Program[pc] = Launch[pc]
           \/ child = "clean" /\ pc \in 1..6 /\ Program[pc] = Closing[pc]
<1>1. child \in {"launch", "clean"} /\ pc <= Len(Program)
  BY DEF Ask
<1>2. CASE child = "launch"
  <2>1. Program = Launch
    BY <1>2 DEF Program
  <2>2. pc \in 1..15
    BY <1>2 DEF Programmed
  <2> QED
    BY <1>1, <1>2, <2>1, <2>2, LaunchCalls
<1>3. CASE child = "clean"
  <2>1. Program = Closing
    BY <1>3 DEF Program
  <2>2. pc \in 1..7
    BY <1>3 DEF Programmed
  <2> QED
    BY <1>1, <1>3, <2>1, <2>2, ClosingCalls
<1> QED
  BY <1>1, <1>2, <1>3

(* The initial state satisfies every part.                                  *)
LEMMA InitRunInv == Init => RunInv
<1> SUFFICES ASSUME Init PROVE RunInv
  OBVIOUS
<1>f. Flags
  BY DEF Init, Flags
<1>1. TypeOK /\ Programmed
  BY <1>f DEF Init, TypeOK, ParentSide, ChildSide, NodeSide, Phases, Programmed
<1>2. Readying
  BY DEF Init, Readying, NoModelBeforeAllReady, Slots
<1>3. Replicating /\ Anchoring /\ Settling
  BY DEF Init, Replicating, Anchoring, Settling
<1> QED
  BY <1>1, <1>2, <1>3 DEF RunInv

(* A flag is set or reset.                                                  *)
LEMMA NextFlags == RunInv /\ [Next]_vars => Flags'
<1> SUFFICES ASSUME RunInv, [Next]_vars PROVE Flags'
  OBVIOUS
<1>a. Flags
  BY DEF RunInv, TypeOK
<1>1. CASE Offer \/ WaitAck \/ Serving \/ Trap \/ Ask
  BY <1>1, <1>a DEF Offer, WaitAck, Serving, Trap, Ask, Turn, Flags, policy,
     judging, clock, closing
<1>2. CASE Skip \/ GiveUp \/ Aggregate \/ ChildDies
  BY <1>2, <1>a DEF Skip, GiveUp, Aggregate, ChildDies, Flags, policy, judging,
     clock, closing
<1>3. ASSUME NEW call \in orders, Serve(call) PROVE Flags'
  BY <1>3, <1>a DEF Serve, Flags, policy, judging, clock
<1>4. ASSUME NEW s \in Slots, GuardFires(s) \/ Ends(s) \/ Settles(s)
      PROVE  Flags'
  BY <1>4, <1>a DEF GuardFires, Ends, Settles, Flags, policy, judging, clock,
     closing
<1>5. ASSUME NEW r \in Rank, CallGuard(r) \/ AcceptInventory(r)
      PROVE  Flags'
  BY <1>5, <1>a DEF CallGuard, AcceptInventory, Flags, policy, judging, clock,
     closing
<1>6. CASE CallbackFails \/ Signal \/ RuntimeOver
  BY <1>6, <1>a DEF CallbackFails, Signal, RuntimeOver, household, Flags,
     policy, judging, clock, closing
<1>7. CASE Terminate \/ Kill \/ SeeOffer \/ Anchor \/ Acknowledge
  BY <1>7, <1>a DEF Terminate, Kill, SeeOffer, Anchor, Acknowledge, household,
     Flags, policy, clock, closing
<1>8. CASE Refuse \/ Reap \/ Conclude \/ ParentDies
  BY <1>8, <1>a DEF Refuse, Reap, Conclude, ParentDies, household, Flags,
     policy, clock, closing
<1>9. CASE UNCHANGED vars
  BY <1>9, <1>a DEF vars, Flags, policy, judging, clock, closing
<1> QED
  BY <1>1, <1>2, <1>3, <1>4, <1>5, <1>6, <1>7, <1>8, <1>9
     DEF Next, ParentStep, ChildStep, NodeStep

(* What the parent and the callback may be at.                              *)
LEMMA NextParentSide == RunInv /\ [Next]_vars => ParentSide'
<1> SUFFICES ASSUME RunInv, [Next]_vars PROVE ParentSide'
  OBVIOUS
<1>a. ParentSide
  BY DEF RunInv, TypeOK
<1>s. ASSUME UNCHANGED <<parent, channel, callback, relay, inventory, result>>
      PROVE  ParentSide'
  BY <1>s, <1>a DEF ParentSide
<1>1. CASE Offer
  BY <1>1, <1>a DEF Offer, ParentSide, judging, replication
<1>2. CASE WaitAck \/ Ask \/ Skip \/ Serving \/ Trap \/ GiveUp \/ Aggregate
           \/ ChildDies
  BY <1>2, <1>s DEF WaitAck, Ask, Skip, Serving, Trap, GiveUp, Aggregate,
     ChildDies, judging, replication
<1>3. CASE \E call \in orders : Serve(call)
  BY <1>3, <1>s DEF Serve, judging, replication
<1>4. CASE \E s \in Slots : GuardFires(s) \/ Ends(s) \/ Settles(s)
  BY <1>4, <1>s DEF GuardFires, Ends, Settles, judging, replication
<1>5. ASSUME NEW r \in Rank, CallGuard(r) \/ AcceptInventory(r)
      PROVE  ParentSide'
  BY <1>5, <1>a DEF CallGuard, AcceptInventory, ParentSide, judging
<1>6. CASE CallbackFails
  BY <1>6, <1>a DEF CallbackFails, ParentSide, judging
<1>7. CASE Terminate \/ Signal \/ RuntimeOver
  BY <1>7, <1>s DEF Terminate, Signal, RuntimeOver, judging, replication
<1>8. CASE SeeOffer
  BY <1>8, <1>a DEF SeeOffer, ParentSide
<1>9. CASE Kill \/ Reap \/ Conclude \/ ParentDies
  BY <1>9, <1>a DEF Kill, Reap, Conclude, ParentDies, ParentSide, replication
<1>10. CASE Anchor \/ Acknowledge \/ Refuse
  BY <1>10, <1>a DEF Anchor, Acknowledge, Refuse, ParentSide, replication
<1>11. CASE UNCHANGED vars
  BY <1>11, <1>s DEF vars, judging, replication
<1> QED
  BY <1>1, <1>2, <1>3, <1>4, <1>5, <1>6, <1>7, <1>8, <1>9, <1>10, <1>11
     DEF Next, ParentStep, ChildStep, NodeStep

(* The child stays in its program and asks for its slots only.              *)
LEMMA NextChildSide == RunInv /\ [Next]_vars => (ChildSide /\ Programmed)'
<1> SUFFICES ASSUME RunInv, [Next]_vars PROVE (ChildSide /\ Programmed)'
  OBVIOUS
<1>a. ChildSide /\ Programmed /\ NodeSide /\ waiting \in BOOLEAN
  BY DEF RunInv, TypeOK, Flags
<1>s. ASSUME UNCHANGED <<child, pc, waiting, attempted, orders, phase>>
      PROVE  (ChildSide /\ Programmed)'
  BY <1>s, <1>a DEF ChildSide, Programmed
<1>1. CASE Offer \/ WaitAck \/ Serving \/ Trap
  <2>1. /\ child' \in {"waiting", "launch", "serve", "clean"}
        /\ pc' = 1 /\ waiting' = FALSE
        /\ UNCHANGED <<attempted, orders, phase>>
    BY <1>1 DEF Offer, WaitAck, Serving, Trap, Turn, nodes
  <2> QED
    BY <2>1, <1>a DEF ChildSide, Programmed
<1>2. CASE Ask
  <2>1. /\ Program[pc][2] \in Slots /\ pc \in 1..14
        /\ child \in {"launch", "clean"} /\ (child = "clean" => pc \in 1..6)
    BY <1>2, <1>a, AskedCall, LaunchCalls, ClosingCalls
  <2>2. /\ attempted' = attempted \cup {Program[pc][2]}
        /\ orders' = orders \cup {Program[pc]}
        /\ UNCHANGED <<child, pc, phase>>
    BY <1>2 DEF Ask, nodes
  <2>3. ChildSide'
    BY <2>1, <2>2, <1>a DEF ChildSide
  <2>4. Programmed'
    <3>1. \A s \in Slots : phase'[s] # "none" => s \in attempted'
      BY <2>2, <1>a DEF Programmed
    <3>2. /\ child' \in {"launch", "clean"} /\ pc' \in 1..14 /\ pc' \in 1..15
          /\ (child' = "clean" => pc' \in 1..6 /\ pc' \in 1..7)
      BY <2>1, <2>2
    <3> QED
      BY <3>1, <3>2 DEF Programmed
  <2> QED
    BY <2>3, <2>4
<1>3. CASE Skip \/ GiveUp
  <2>1. /\ child = "clean" /\ pc \in 1..6 /\ pc' = pc + 1 /\ waiting' = FALSE
        /\ orders' \subseteq orders /\ UNCHANGED <<child, attempted, phase>>
    BY <1>3, <1>a, ClosingCalls DEF Skip, GiveUp, Programmed, nodes
  <2> QED
    BY <2>1, <1>a DEF ChildSide, Programmed
<1>4. CASE Aggregate \/ ChildDies \/ Kill
  <2>1. /\ child' = "ended" /\ (waiting' => waiting /\ child = "clean")
        /\ UNCHANGED <<pc, attempted, orders, phase>>
    BY <1>4 DEF Aggregate, ChildDies, Kill, nodes
  <2>2. ~waiting'
    BY <1>4, <1>a, ClosingCalls DEF Aggregate, ChildDies, Kill, Programmed
  <2> QED
    BY <2>1, <2>2, <1>a DEF ChildSide, Programmed
<1>5. ASSUME NEW call \in orders, Serve(call)
      PROVE  (ChildSide /\ Programmed)'
  <2> DEFINE s == call[2]
             heard == waiting /\ Program[pc] = call
  <2>1. /\ orders' = orders \ {call}
        /\ \E new : phase' = [phase EXCEPT ![s] = new]
        /\ pc' = IF heard THEN pc + 1 ELSE pc
        /\ waiting' = (waiting /\ ~heard)
        /\ UNCHANGED <<child, attempted>>
    BY <1>5 DEF Serve
  <2>2. heard => waiting
    OBVIOUS
  <2> HIDE DEF heard
  <2>3. s \in attempted
    BY <1>a DEF ChildSide
  <2>4. waiting' => waiting /\ pc' = pc
    BY <2>1
  <2>5. pc' \in 1..15 /\ (child = "clean" => pc' \in 1..7)
    BY <2>1, <2>2, <1>a DEF ChildSide, Programmed
  <2>6. \A t \in Slots : phase'[t] # "none" => t \in attempted'
    BY <2>1, <2>3, <1>a DEF NodeSide, Programmed
  <2>7. ChildSide'
    BY <2>1, <2>5, <1>a DEF ChildSide
  <2>8. Programmed'
    BY <2>1, <2>4, <2>5, <2>6, <1>a DEF Programmed
  <2> QED
    BY <2>7, <2>8
<1>6. ASSUME NEW s \in Slots, GuardFires(s) \/ Ends(s) \/ Settles(s)
      PROVE  (ChildSide /\ Programmed)'
  <2>1. /\ s \in attempted
        /\ \A t \in Slots : t # s => phase'[t] = phase[t]
        /\ UNCHANGED <<child, pc, waiting, attempted, orders>>
    BY <1>6, <1>a DEF GuardFires, Ends, Settles, Programmed, NodeSide
  <2> QED
    BY <2>1, <1>a DEF ChildSide, Programmed
<1>7. CASE \E r \in Rank : CallGuard(r) \/ AcceptInventory(r)
  BY <1>7, <1>s DEF CallGuard, AcceptInventory, nodes
<1>8. CASE Terminate \/ SeeOffer \/ Anchor \/ Acknowledge \/ Refuse \/ Reap
           \/ Conclude \/ Signal \/ RuntimeOver \/ ParentDies
           \/ CallbackFails
  BY <1>8, <1>s DEF Terminate, SeeOffer, Anchor, Acknowledge, Refuse, Reap,
     Conclude, Signal, RuntimeOver, ParentDies, CallbackFails, household, nodes
<1>9. CASE UNCHANGED vars
  BY <1>9, <1>s DEF vars, nodes
<1> QED
  BY <1>1, <1>2, <1>3, <1>4, <1>5, <1>6, <1>7, <1>8, <1>9
     DEF Next, ParentStep, ChildStep, NodeStep

(* The nodes stay well typed, with a tombstone behind every receipt.        *)
LEMMA NextNodeSide == RunInv /\ [Next]_vars => NodeSide'
<1> SUFFICES ASSUME RunInv, [Next]_vars PROVE NodeSide'
  OBVIOUS
<1>a. NodeSide /\ ChildSide /\ Programmed
  BY DEF RunInv, TypeOK
<1>s. ASSUME UNCHANGED <<nodes, ok, attempted>> PROVE NodeSide'
  BY <1>s, <1>a DEF NodeSide, nodes
<1>1. CASE Ask
  BY <1>1, <1>a DEF Ask, NodeSide, nodes, closing
<1>2. CASE Offer \/ WaitAck \/ Skip \/ Serving \/ Trap \/ GiveUp
           \/ Aggregate \/ ChildDies
  BY <1>2, <1>s DEF Offer, WaitAck, Skip, Serving, Trap, GiveUp, Aggregate,
     ChildDies, closing
<1>3. ASSUME NEW call \in orders, Serve(call) PROVE NodeSide'
  <2> DEFINE action == call[1]
             s == call[2]
  <2>1. /\ Effect(action, s)
        /\ phase' = [phase EXCEPT ![s] = After(action, s)]
        /\ canceled' = IF action = "stop" THEN canceled \cup {s} ELSE canceled
        /\ proof' = IF action = "disarm" \/ (action = "stop" /\ s \in Hashes)
                    THEN proof \cup {s} ELSE proof
        /\ ok' \subseteq IF action = "stop" THEN ok \cup {s} ELSE ok
        /\ attempted' = attempted
    BY <1>3 DEF Serve
  <2>2. s \in attempted /\ s \in Slots
    BY <1>a DEF ChildSide
  <2>3. After(action, s) \in Phases
    BY <2>2, <1>a DEF After, Reaches, NodeSide, Phases
  <2>4. phase' \in [Slots -> Phases]
    BY <2>1, <2>3, <1>a DEF NodeSide
  <2>5. ok' \subseteq canceled' /\ canceled' \subseteq attempted'
    BY <2>1, <2>2, <1>a DEF NodeSide
  <2>6. proof' \subseteq canceled'
    BY <2>1, <1>a DEF NodeSide, Effect
  <2> QED
    BY <2>4, <2>5, <2>6 DEF NodeSide
<1>4. ASSUME NEW s \in Slots, GuardFires(s) \/ Ends(s) \/ Settles(s)
      PROVE  NodeSide'
  <2>1. s \in attempted
    BY <1>4, <1>a DEF GuardFires, Ends, Settles, Programmed
  <2> QED
    BY <1>4, <2>1, <1>a DEF GuardFires, Ends, Settles, NodeSide, Phases,
       closing
<1>5. CASE \E r \in Rank : CallGuard(r) \/ AcceptInventory(r)
  BY <1>5, <1>s DEF CallGuard, AcceptInventory, closing
<1>6. CASE Terminate \/ Kill \/ SeeOffer \/ Anchor \/ Acknowledge \/ Refuse
           \/ Reap \/ Conclude \/ Signal \/ RuntimeOver \/ ParentDies
           \/ CallbackFails
  BY <1>6, <1>s DEF Terminate, Kill, SeeOffer, Anchor, Acknowledge, Refuse,
     Reap, Conclude, Signal, RuntimeOver, ParentDies, CallbackFails, household,
     closing
<1>7. CASE UNCHANGED vars
  BY <1>7, <1>s DEF vars, closing
<1> QED
  BY <1>1, <1>2, <1>3, <1>4, <1>5, <1>6, <1>7
     DEF Next, ParentStep, ChildStep, NodeStep

(* The callback has passed only what both guards have accepted.             *)
LEMMA NextReplicating == RunInv /\ [Next]_vars => Replicating'
<1> SUFFICES ASSUME RunInv, [Next]_vars PROVE Replicating'
  OBVIOUS
<1>a. Replicating
  BY DEF RunInv
<1>s. ASSUME UNCHANGED replication PROVE Replicating'
  BY <1>s, <1>a DEF Replicating, replication
<1>1. CASE ChildStep
  BY <1>1, <1>s DEF ChildStep, Offer, WaitAck, Ask, Skip, Serving, Trap,
     GiveUp, Aggregate, ChildDies
<1>2. CASE Terminate \/ Kill \/ Anchor \/ Acknowledge \/ Refuse \/ Reap
           \/ Conclude \/ Signal \/ RuntimeOver \/ ParentDies
  BY <1>2, <1>s DEF Terminate, Kill, Anchor, Acknowledge, Refuse, Reap,
     Conclude, Signal, RuntimeOver, ParentDies
<1>3. CASE SeeOffer
  BY <1>3, <1>a DEF SeeOffer, Replicating
<1>4. CASE CallbackFails
  BY <1>4, <1>a DEF CallbackFails, Replicating
<1>5. CASE \E call \in orders : Serve(call)
  BY <1>5, <1>s DEF Serve
<1>6. CASE \E s \in Slots : GuardFires(s) \/ Ends(s) \/ Settles(s)
  BY <1>6, <1>s DEF GuardFires, Ends, Settles
<1>7. ASSUME NEW r \in Rank, CallGuard(r) \/ AcceptInventory(r)
      PROVE  Replicating'
  <2>1. CASE CallGuard(r)
    BY <1>7, <2>1, <1>a DEF CallGuard, Replicating
  <2>2. CASE AcceptInventory(r)
    <3>1. inventory' \subseteq Rank /\ relay' \subseteq Rank
      BY <1>7, <2>2, <1>a DEF AcceptInventory, Replicating
    <3>2. CASE Asks(r)
      BY <1>7, <2>2, <3>1, <3>2, <1>a, TwoNodes
         DEF AcceptInventory, Replicating, Asks
    <3>3. CASE ~Asks(r)
      BY <2>2, <3>1, <3>3, <1>a DEF AcceptInventory, Replicating
    <3> QED
      BY <3>2, <3>3
  <2> QED
    BY <1>7, <2>1, <2>2
<1>8. CASE UNCHANGED vars
  BY <1>8, <1>s DEF vars
<1> QED
  BY <1>1, <1>2, <1>3, <1>4, <1>5, <1>6, <1>7, <1>8
     DEF Next, ParentStep, NodeStep

(* The anchor is written behind the callback, what is tried behind both.    *)
LEMMA NextAnchoring == RunInv /\ [Next]_vars => Anchoring'
<1> SUFFICES ASSUME RunInv, [Next]_vars PROVE Anchoring'
  OBVIOUS
<1>a. Anchoring
  BY DEF RunInv
<1>s. ASSUME UNCHANGED <<policy, judging, channel, callback, child, attempted>>
      PROVE  Anchoring'
  BY <1>s, <1>a DEF Anchoring, Replicated, policy, judging
<1>1. CASE Offer \/ WaitAck \/ Serving
  BY <1>1, <1>a DEF Offer, WaitAck, Serving, Turn, Acknowledged, Anchoring,
     Replicated, policy, judging, replication
<1>2. CASE Ask
  <2>1. attempted # {} \/ child = "launch"
    BY <1>2 DEF Ask
  <2>2. UNCHANGED <<policy, judging, channel, callback, child>>
    BY <1>2 DEF Ask, replication
  <2> QED
    BY <2>1, <2>2, <1>a DEF Anchoring, Replicated, policy, judging
<1>3. CASE Skip \/ GiveUp
  BY <1>3, <1>s DEF Skip, GiveUp, replication
<1>4. CASE Trap \/ Aggregate \/ ChildDies
  BY <1>4, <1>a DEF Trap, Turn, Aggregate, ChildDies, Anchoring, Replicated,
     policy, judging, replication
<1>5. CASE \E call \in orders : Serve(call)
  BY <1>5, <1>s DEF Serve, replication
<1>6. CASE \E s \in Slots : GuardFires(s) \/ Ends(s) \/ Settles(s)
  BY <1>6, <1>s DEF GuardFires, Ends, Settles, replication
<1>7. ASSUME NEW r \in Rank, CallGuard(r) \/ AcceptInventory(r)
      PROVE  Anchoring'
  <2>1. UNCHANGED <<policy, judging, channel, child, attempted>>
    BY <1>7 DEF CallGuard, AcceptInventory
  <2>2. callback = "passed" => callback' = "passed"
    BY <1>7 DEF CallGuard, AcceptInventory, Asks
  <2> QED
    BY <2>1, <2>2, <1>a DEF Anchoring, Replicated, policy, judging
<1>8. CASE CallbackFails
  BY <1>8, <1>a DEF CallbackFails, Anchoring, Replicated, policy, judging
<1>9. CASE Terminate \/ Kill \/ Reap \/ Conclude \/ ParentDies
  BY <1>9, <1>a DEF Terminate, Kill, Reap, Conclude, ParentDies, Looks,
     household, Anchoring, Replicated, policy, replication
<1>10. CASE SeeOffer
  BY <1>10, <1>a DEF SeeOffer, household, Anchoring, Replicated, policy
<1>11. CASE Anchor \/ Acknowledge \/ Refuse
  BY <1>11, <1>a DEF Anchor, Acknowledge, Refuse, household, Anchoring,
     Replicated, policy, replication
<1>12. CASE Signal \/ RuntimeOver
  BY <1>12, <1>s DEF Signal, RuntimeOver, household, replication
<1>13. CASE UNCHANGED vars
  BY <1>13, <1>s DEF vars, replication
<1> QED
  BY <1>1, <1>2, <1>3, <1>4, <1>5, <1>6, <1>7, <1>8, <1>9, <1>10, <1>11,
     <1>12, <1>13 DEF Next, ParentStep, ChildStep, NodeStep

(* Nothing that is still served starts a slot behind its tombstone.         *)
LEMMA NextSettling == RunInv /\ [Next]_vars => Settling'
<1> SUFFICES ASSUME RunInv, [Next]_vars PROVE Settling'
  OBVIOUS
<1>a. Settling /\ ChildSide /\ NodeSide
  BY DEF RunInv, TypeOK
<1>s. ASSUME UNCHANGED <<nodes, result>> PROVE Settling'
  BY <1>s, <1>a DEF Settling, nodes
<1>1. CASE ChildStep
  BY <1>1, <1>s DEF ChildStep, Offer, WaitAck, Ask, Skip, Serving, Trap,
     GiveUp, Aggregate, ChildDies, judging
<1>2. CASE Terminate \/ Kill \/ SeeOffer \/ Anchor \/ Acknowledge \/ Refuse
           \/ Reap \/ Signal \/ RuntimeOver \/ ParentDies \/ CallbackFails
  BY <1>2, <1>s DEF Terminate, Kill, SeeOffer, Anchor, Acknowledge, Refuse,
     Reap, Signal, RuntimeOver, ParentDies, CallbackFails, household, judging
<1>3. CASE Conclude
  BY <1>3, <1>a DEF Conclude, Validated, Settling, household, nodes
<1>4. ASSUME NEW call \in orders, Serve(call) PROVE Settling'
  <2> DEFINE action == call[1]
             s == call[2]
  <2>1. /\ Effect(action, s)
        /\ phase' = [phase EXCEPT ![s] = After(action, s)]
        /\ proof' = IF action = "disarm" \/ (action = "stop" /\ s \in Hashes)
                    THEN proof \cup {s} ELSE proof
        /\ result' = result
    BY <1>4 DEF Serve, judging
  <2>2. s \in Slots
    BY <1>a DEF ChildSide
  <2>3. ASSUME NEW t \in proof' PROVE phase'[t] \notin {"created", "running"}
    <3>1. CASE t # s
      BY <2>1, <2>3, <3>1, <1>a DEF Settling, ChildSide, NodeSide
    <3>2. CASE t = s
      <4>1. phase'[s] = After(action, s)
        BY <2>1, <2>2, <1>a DEF ChildSide, NodeSide
      <4>2. CASE action = "stop" \/ action = "disarm"
        BY <2>1, <4>1, <4>2, <3>2 DEF Effect, After
      <4>3. CASE action # "stop" /\ action # "disarm"
        <5>1. s \in canceled /\ phase[s] \notin {"created", "running"}
          BY <2>1, <2>3, <3>2, <4>3, <1>a DEF Settling, ChildSide, NodeSide
        <5> QED
          BY <2>1, <4>1, <4>3, <5>1, <3>2 DEF Effect, After, Reaches
      <4> QED
        BY <4>2, <4>3
    <3> QED
      BY <3>1, <3>2
  <2>4. result' = "pass" => Slots \subseteq proof'
    BY <2>1, <1>a DEF Settling
  <2> QED
    BY <2>3, <2>4 DEF Settling
<1>5. ASSUME NEW s \in Slots, GuardFires(s) \/ Ends(s) \/ Settles(s)
      PROVE  Settling'
  BY <1>5, <1>a DEF GuardFires, Ends, Settles, Settling, ChildSide, NodeSide,
     judging
<1>6. CASE \E r \in Rank : CallGuard(r) \/ AcceptInventory(r)
  BY <1>6, <1>s DEF CallGuard, AcceptInventory, judging
<1>7. CASE UNCHANGED vars
  BY <1>7, <1>s DEF vars, judging
<1> QED
  BY <1>1, <1>2, <1>3, <1>4, <1>5, <1>6, <1>7 DEF Next, ParentStep, NodeStep

(* What is ready stays ready, and a container is created behind it only.    *)
LEMMA NextReadying == RunInv /\ [Next]_vars => Readying'
<1> SUFFICES ASSUME RunInv, [Next]_vars PROVE Readying'
  OBVIOUS
<1> USE LaunchCalls, ClosingCalls
<1>a. Readying /\ ChildSide /\ NodeSide /\ Programmed
  BY DEF RunInv, TypeOK
<1>b. /\ \A b \in Boxes : b \in Slots
      /\ <<"box", 0>> \in Boxes
      /\ \A b \in Boxes : b = <<"box", 0>> \/ b = <<"box", 1>>
      /\ \A h \in Hashes : h = <<"hash", 0>> \/ h = <<"hash", 1>>
  BY TwoNodes DEF Boxes, Hashes, Slots
<1>s. ASSUME UNCHANGED <<nodes, orders>>,
             child' = "launch" => child = "launch" /\ pc' = pc
      PROVE  Readying'
  BY <1>s, <1>a DEF Readying, Ready, NoModelBeforeAllReady, nodes
<1>1. CASE Offer \/ Serving \/ Trap \/ Skip \/ Aggregate \/ ChildDies
  BY <1>1, <1>s DEF Offer, Serving, Trap, Turn, Skip, Aggregate, ChildDies
<1>2. CASE WaitAck
  BY <1>2, <1>a DEF WaitAck, Turn, Readying, Ready, NoModelBeforeAllReady,
     nodes
<1>3. CASE Ask
  <2>1. orders' = orders \cup {Program[pc]}
    BY <1>3 DEF Ask
  <2>2. Program[pc][1] = "create" => Ready
    <3>1. CASE child = "launch"
      <4>1. pc \in 1..14 /\ Program[pc] = Launch[pc]
        BY <1>3, <3>1, <1>a, AskedCall
      <4>2. Launch[pc][1] = "create" => pc >= 11
        BY <4>1
      <4> QED
        BY <3>1, <4>1, <4>2, <1>a DEF Readying
    <3>2. CASE child = "clean"
      <4>1. pc \in 1..6 /\ Program[pc] = Closing[pc]
        BY <1>3, <3>2, <1>a, AskedCall
      <4> QED
        BY <4>1
    <3> QED
      BY <1>3, <3>1, <3>2 DEF Ask
  <2>3. UNCHANGED <<nodes, child, pc>>
    BY <1>3 DEF Ask
  <2> QED
    BY <2>1, <2>2, <2>3, <1>a DEF Readying, Ready, NoModelBeforeAllReady, nodes
<1>4. CASE GiveUp
  BY <1>4, <1>a DEF GiveUp, Readying, Ready, NoModelBeforeAllReady, nodes
<1>5. ASSUME NEW call \in orders, Serve(call) PROVE Readying'
  <2> DEFINE action == call[1]
             s == call[2]
             heard == waiting /\ Program[pc] = call
  <2>1. /\ orders' = orders \ {call}
        /\ Effect(action, s)
        /\ phase' = [phase EXCEPT ![s] = After(action, s)]
        /\ proof \subseteq proof'
        /\ pc' = IF heard THEN pc + 1 ELSE pc
        /\ child' = child
    BY <1>5 DEF Serve
  <2> HIDE DEF heard
  <2>2. s \in Slots /\ phase'[s] = After(action, s)
    BY <2>1, <1>a DEF ChildSide, NodeSide
  <2>3. \A t \in Slots : phase[t] \notin {"none", "prepared"} =>
                           phase'[t] \notin {"none", "prepared"}
    BY <2>1, <2>2, <1>a DEF ChildSide, NodeSide, Effect, After, Reaches
  <2>4. Ready => Ready'
    BY <2>1, <2>3, <1>b DEF Ready
  <2>5. action = "await" => s \in proof'
    BY <2>1 DEF Effect
  <2>6. action = "arm" => phase'[s] = "armed"
    BY <2>2 DEF After, Reaches
  <2>7. /\ (\E other \in orders' : other[1] = "create") => Ready'
        /\ NoModelBeforeAllReady'
    <3>1. (\E other \in orders' : other[1] = "create") => Ready'
      BY <2>1, <2>4, <1>a DEF Readying
    <3>2. ASSUME NEW b \in Boxes, phase'[b] \in {"created", "running"}
          PROVE  Ready'
      <4>1. CASE phase[b] \in {"created", "running"}
        BY <4>1, <2>4, <1>a DEF Readying, NoModelBeforeAllReady
      <4>2. CASE phase[b] \notin {"created", "running"}
        <5>1. b = s /\ After(action, s) \in {"created", "running"}
          BY <2>1, <2>2, <3>2, <4>2, <1>a, <1>b DEF ChildSide, NodeSide
        <5>2. action = "create"
          BY <2>1, <5>1, <4>2, <3>2 DEF Effect, After, Reaches
        <5> QED
          BY <5>2, <2>4, <1>a DEF Readying
      <4> QED
        BY <4>1, <4>2
    <3> QED
      BY <3>1, <3>2 DEF NoModelBeforeAllReady
  <2>8. CASE child # "launch"
    BY <2>1, <2>7, <2>8 DEF Readying
  <2>9. CASE child = "launch" /\ ~heard
    BY <2>1, <2>3, <2>4, <2>7, <2>9, <1>a, <1>b DEF Readying
  <2>10. CASE child = "launch" /\ heard
    <3>1. Launch[pc] = call /\ pc \in 1..14 /\ pc' = pc + 1
      BY <2>1, <2>10, <1>a DEF heard, Program, Programmed
    <3>2. pc' >= 6 => <<"hash", 0>> \in proof'
      BY <2>1, <2>5, <2>10, <3>1, <1>a DEF Readying
    <3>3. pc' >= 7 => <<"hash", 1>> \in proof'
      BY <2>1, <2>5, <2>10, <3>1, <1>a DEF Readying
    <3>4. pc' >= 10 => phase'[<<"box", 0>>] \notin {"none", "prepared"}
      BY <2>3, <2>6, <2>10, <3>1, <1>a, <1>b DEF Readying
    <3>5. pc' >= 11 => Ready'
      <4>1. CASE pc = 10
        <5>1. phase'[<<"box", 1>>] = "armed"
          BY <2>6, <3>1, <4>1
        <5> QED
          BY <3>1, <3>2, <3>3, <3>4, <4>1, <5>1, <1>b DEF Ready
      <4>2. CASE pc # 10
        BY <2>4, <2>10, <3>1, <4>2, <1>a DEF Readying
      <4> QED
        BY <4>1, <4>2
    <3> QED
      BY <2>7, <3>2, <3>3, <3>4, <3>5 DEF Readying
  <2> QED
    BY <2>8, <2>9, <2>10
<1>6. ASSUME NEW s \in Slots, GuardFires(s) \/ Ends(s) \/ Settles(s)
      PROVE  Readying'
  <2>1. /\ UNCHANGED <<child, pc, orders>> /\ proof \subseteq proof'
        /\ phase' \in [Slots -> Phases]
        /\ \A t \in Slots :
              /\ phase[t] \notin {"none", "prepared"} =>
                    phase'[t] \notin {"none", "prepared"}
              /\ phase'[t] \in {"created", "running"} =>
                    phase[t] \in {"created", "running"}
    BY <1>6, <1>a DEF GuardFires, Ends, Settles, ChildSide, NodeSide, Phases
  <2>2. Ready => Ready'
    BY <2>1, <1>b DEF Ready
  <2> QED
    BY <2>1, <2>2, <1>a, <1>b DEF Readying, NoModelBeforeAllReady
<1>7. CASE \E r \in Rank : CallGuard(r) \/ AcceptInventory(r)
  BY <1>7, <1>s DEF CallGuard, AcceptInventory
<1>8. CASE Terminate \/ Kill \/ SeeOffer \/ Anchor \/ Acknowledge \/ Refuse
           \/ Reap \/ Conclude \/ Signal \/ RuntimeOver \/ ParentDies
           \/ CallbackFails
  BY <1>8, <1>s DEF Terminate, Kill, SeeOffer, Anchor, Acknowledge, Refuse,
     Reap, Conclude, Signal, RuntimeOver, ParentDies, CallbackFails, household
<1>9. CASE UNCHANGED vars
  BY <1>9, <1>s DEF vars
<1> QED
  BY <1>1, <1>2, <1>3, <1>4, <1>5, <1>6, <1>7, <1>8, <1>9
     DEF Next, ParentStep, ChildStep, NodeStep

(* The inductive invariant of a run.                                        *)
THEOREM RunInvariant == Spec => []RunInv
<1>1. RunInv /\ [Next]_vars => RunInv'
  BY NextFlags, NextParentSide, NextChildSide, NextNodeSide, NextReadying,
     NextReplicating, NextAnchoring, NextSettling
     DEF RunInv, TypeOK
<1> QED
  BY InitRunInv, <1>1, PTL DEF Spec

(* The run keeps its types.                                                 *)
THEOREM RunTypeCorrect == Spec => []TypeOK
  BY RunInvariant, PTL DEF RunInv

(* A container exists only behind armed guards and settled hashes.          *)
THEOREM NoModelBeforeAllReadyHolds == Spec => []NoModelBeforeAllReady
  BY RunInvariant, PTL DEF RunInv, Readying

(* Nothing is tried on a node before both guards hold the declaration.      *)
THEOREM StagedMeansReplicatedHolds == Spec => []StagedMeansReplicated
<1>1. RunInv => StagedMeansReplicated
  <2> SUFFICES ASSUME RunInv, replicates, attempted # {}
               PROVE  inventory = Rank /\ "anchor" \in channel
    BY DEF StagedMeansReplicated
  <2>1. "anchor" \in channel /\ callback = "passed"
    BY DEF RunInv, Anchoring, Replicated
  <2> QED
    BY <2>1, TwoNodes DEF RunInv, Replicating
<1> QED
  BY RunInvariant, <1>1, PTL

(* A passed result is final: every slot has its receipt, and nothing runs.  *)
THEOREM PositiveMeansSettledHolds == Spec => []PositiveMeansSettled
<1>1. RunInv => PositiveMeansSettled
  BY DEF RunInv, Settling, TypeOK, NodeSide, PositiveMeansSettled
<1> QED
  BY RunInvariant, <1>1, PTL
=============================================================================
