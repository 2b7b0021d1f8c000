--------------------------- MODULE MCUsageLedger ---------------------------
(***************************************************************************)
(* Instances of UsageLedger for TLC.                                       *)
(***************************************************************************)
EXTENDS UsageLedger

\* Below zero, zero, the cap of 2 and one above it: every bound of the amount
\* checks has a value on each side.
MCNumbers == {-1, 0, 2, 3}
=============================================================================
