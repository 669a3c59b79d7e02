----------------------------- MODULE MCHhtRole -----------------------------
(* Instances of HhtRole for TLC.                                           *)
EXTENDS HhtRole
=============================================================================
