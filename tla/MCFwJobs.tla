------------------------------ MODULE MCFwJobs ------------------------------
(* Instances of FwJobs for TLC.                                            *)
EXTENDS FwJobs
=============================================================================
