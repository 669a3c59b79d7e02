----------------------------- MODULE MCRoleUart -----------------------------
(* Instances of RoleUart for TLC.  The control blocks of FreeRTOS are      *)
(* interchangeable, so permuting them is a symmetry of the safety run.     *)
EXTENDS RoleUart, TLC

TaskSymmetry == Permutations(Tasks)
=============================================================================
