--------------------------- MODULE MCHhtTerminal ---------------------------
(* Instances of HhtTerminal for TLC.                                       *)
EXTENDS HhtTerminal

CONSTANTS a, b

\* A whole row, and a character 0 in a row of the second half.
MCDraws == {<<0, 0, <<a, b>>>>, <<2, 1, <<Nul>>>>}
=============================================================================
