--------------------------- MODULE OwnedResource ---------------------------
(***************************************************************************)
(* What the cleanup bridge relies on when it reads a positive stop receipt *)
(* of a resource that a run owns (a link server slot, a container slot):   *)
(* the resource runs at most once, its proof of being stopped is written   *)
(* only while it does not run, and it never runs again behind the proof.   *)
(***************************************************************************)
VARIABLES
    phase,      \* new, running or over
    proof       \* a positive stop receipt stands

vars == <<phase, proof>>

Init == phase = "new" /\ proof = FALSE

Begin == /\ phase = "new" /\ ~proof
         /\ phase' = "running"
         /\ UNCHANGED proof

End == /\ phase = "running"
       /\ phase' = "over"
       /\ UNCHANGED proof

Prove == /\ phase # "running"
         /\ proof' = TRUE
         /\ UNCHANGED phase

Next == Begin \/ End \/ Prove

Spec == Init /\ [][Next]_vars
=============================================================================
