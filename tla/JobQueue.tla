------------------------------ MODULE JobQueue ------------------------------
(***************************************************************************)
(* What the firmware update queue promises to those who are told that      *)
(* their update has started: an accepted job begins at most once, and none *)
(* is dropped except by a restart of the device.  While the worker is the  *)
(* only one (alone), jobs are executed one at a time and in the order of   *)
(* their acceptance.  Jobs are numbered as accepted.                       *)
(***************************************************************************)
EXTENDS Naturals

CONSTANT MaxJobs   \* bound on the number of jobs accepted

VARIABLES
  accepted,  \* jobs accepted so far
  pending,   \* accepted jobs not yet begun
  current,   \* jobs being executed
  alone      \* the worker was started by one client at a time

vars == <<accepted, pending, current, alone>>

Init == accepted = 0 /\ pending = {} /\ current = {} /\ alone = TRUE

Accept ==
  /\ accepted < MaxJobs
  /\ accepted' = accepted + 1
  /\ pending' = pending \cup {accepted'}
  /\ UNCHANGED <<current, alone>>

Begin(j) ==
  /\ j \in pending
  /\ alone => current = {} /\ \A k \in pending : j <= k
  /\ current' = current \cup {j} /\ pending' = pending \ {j}
  /\ UNCHANGED <<accepted, alone>>

End(j) ==
  /\ j \in current
  /\ current' = current \ {j}
  /\ UNCHANGED <<accepted, pending, alone>>

Overlap ==
  /\ alone' = FALSE
  /\ UNCHANGED <<accepted, pending, current>>

Restart ==
  /\ pending' = {} /\ current' = {} /\ alone' = TRUE
  /\ UNCHANGED accepted

Next ==
  \/ Accept \/ Overlap \/ Restart
  \/ \E j \in 1 .. MaxJobs : Begin(j) \/ End(j)

Spec == Init /\ [][Next]_vars
=============================================================================
