------------------------------ MODULE MCEspOta ------------------------------
(* Instances of EspOta for TLC.                                            *)
EXTENDS EspOta
=============================================================================
