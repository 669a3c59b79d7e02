----------------------------- MODULE MCFwStore -----------------------------
(* Instances of FwStore for TLC.                                           *)
EXTENDS FwStore
=============================================================================
