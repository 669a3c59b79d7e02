--------------------------- MODULE MCHhtKeysRace ---------------------------
(* Instances of HhtKeysRace for TLC.                                       *)
EXTENDS HhtKeysRace
=============================================================================
