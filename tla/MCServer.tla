------------------------------ MODULE MCServer ------------------------------
(* Instances of Server for TLC.                                            *)
EXTENDS Server, TLC

CONSTANTS auto1, auto2

OneAuto  == {auto1}
TwoAutos == {auto1, auto2}

\* The auto-index threads are alike.
AutoSymmetry == Permutations(TwoAutos)
=============================================================================
