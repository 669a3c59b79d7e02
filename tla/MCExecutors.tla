---------------------------- MODULE MCExecutors ----------------------------
(* Instances of Executors for TLC.                                         *)
EXTENDS Executors

\* A dry run, which is the default; with and without an erase and a reset, and
\* without a size.
MCMetas ==
  {[dry |-> d, erase |-> e, reset |-> r, sized |-> s] :
     <<d, e, r, s>> \in {<<"absent", "absent", "absent", TRUE>>, <<"false", "absent", "true", TRUE>>,
                         <<"false", "false", "absent", TRUE>>, <<"false", "true", "false", FALSE>>}}

\* A probe is used once: answers that come after the end of an update multiply
\* the states of the next one.
MCUpdates == [b \in Boards |-> IF b = "probe" THEN 1 ELSE 2]
=============================================================================
