------------------------ MODULE MCAllocation ------------------------
(***************************************************************************)
(* Allocation with its keys ordered by operator<, and inputs for TLC.      *)
(***************************************************************************)
EXTENDS Allocation, Compare

\* Arrays, strings and binaries that declare more than the input holds.
MCInputs == { <<220, 0, 9, 1>>, <<217, 200, 97>>, <<145, 197, 1, 0, 7>>, <<129, 1, 212, 5>> }
MCErrs == {""}
=====================================================================
