---------------------------- MODULE BorrowedPair ----------------------------
(***************************************************************************)
(* What a direct run promises its operator: each node's network is         *)
(* borrowed, used while both are, and given back, and a node is let go     *)
(* only with its network as it was.  Who finishes the run, and how often   *)
(* it is tried, is left open.                                              *)
(***************************************************************************)
CONSTANT Nodes

VARIABLES
    lent,       \* nodes whose interfaces or rules differ from what they were
    running,    \* nodes on which something of the run runs
    returning,  \* nodes whose return has begun
    released    \* nodes whose rollback lease has been given up

vars == <<lent, running, returning, released>>

Init == lent = {} /\ running = {} /\ returning = {} /\ released = {}

Borrow(n) == /\ n \notin released
             /\ lent' = lent \cup {n}
             /\ UNCHANGED <<running, returning, released>>

Start(n) == /\ lent = Nodes /\ returning = {}
            /\ running' = running \cup {n}
            /\ UNCHANGED <<lent, returning, released>>

Stop == /\ running' \in SUBSET running
        /\ UNCHANGED <<lent, returning, released>>

BeginReturn(n) == /\ running = {}
                  /\ returning' = returning \cup {n}
                  /\ UNCHANGED <<lent, running, released>>

Return(n) == /\ n \in returning
             /\ lent' = lent \ {n}
             /\ UNCHANGED <<running, returning, released>>

Release(n) == /\ n \in returning \ lent
              /\ released' = released \cup {n}
              /\ UNCHANGED <<lent, running, returning>>

Next == \/ Stop
        \/ \E n \in Nodes : \/ Borrow(n) \/ Start(n) \/ BeginReturn(n)
                            \/ Return(n) \/ Release(n)

Spec == Init /\ [][Next]_vars

-----------------------------------------------------------------------------
(* What runs has both networks, and neither is being taken back.            *)
UsedWhileLent == running # {} => lent = Nodes /\ returning = {}

(* A node that was let go has its network, and keeps it.                    *)
ReleasedReturned == released \subseteq returning \ lent

PairPromise == UsedWhileLent /\ ReleasedReturned
=============================================================================
