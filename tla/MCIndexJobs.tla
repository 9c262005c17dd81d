---------------------------- MODULE MCIndexJobs ----------------------------
(* Small instances of IndexJobs; the constants are numbers.                 *)
EXTENDS IndexJobs
=============================================================================
