-------------------------- MODULE MCIndexPipeline --------------------------
(* Small instances of IndexPipeline.  One file is visited by every mode and *)
(* one only by FULL; three files reach the half-more rule of the routing.   *)
EXTENDS IndexPipeline

CONSTANTS src, aux, doc

TwoFiles   == {src, doc}
ThreeFiles == {src, aux, doc}
DocSkipped == {doc}
TwoSkipped == {aux, doc}
=============================================================================
