------------------------------ MODULE IndexGate ------------------------------
(***************************************************************************)
(* What the index lock of pipeline.c promises to the threads of the        *)
(* server: at most one of them is inside, and once the lock has been       *)
(* forced open by a shutdown, at most two.                                 *)
(***************************************************************************)

CONSTANT Threads

VARIABLES inside, forced

vars == <<inside, forced>>

Init == inside = {} /\ forced = FALSE

Enter(t) ==
    /\ t \notin inside
    /\ inside = {} \/ (forced /\ \E u \in Threads : inside = {u})
    /\ inside' = inside \cup {t}
    /\ UNCHANGED forced

Leave(t) ==
    /\ t \in inside
    /\ inside' = inside \ {t}
    /\ UNCHANGED forced

Force ==
    /\ ~forced /\ forced' = TRUE
    /\ UNCHANGED inside

Next == Force \/ \E t \in Threads : Enter(t) \/ Leave(t)

Spec == Init /\ [][Next]_vars
=============================================================================
