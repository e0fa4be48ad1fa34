------------------------------ MODULE MCBatch ------------------------------
(***************************************************************************)
(* Instances of Batch for TLC.                                             *)
(***************************************************************************)
EXTENDS Batch

\* No deadline, and one that is tighter than the timeout.
MCDeadlines == {1, Never}
=============================================================================
