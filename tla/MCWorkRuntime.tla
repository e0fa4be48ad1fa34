--------------------------- MODULE MCWorkRuntime ---------------------------
(***************************************************************************)
(* Instances of WorkRuntime for TLC.                                       *)
(***************************************************************************)
EXTENDS WorkRuntime, TLC

\* Clients are interchangeable: no definition names one.
Interchangeable == Permutations(Clients)
=============================================================================
