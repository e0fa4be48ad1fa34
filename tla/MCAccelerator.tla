--------------------------- MODULE MCAccelerator ---------------------------
(***************************************************************************)
(* Instances of Accelerator for TLC.                                       *)
(***************************************************************************)
EXTENDS Accelerator, TLC

\* One conclusive, one uncertain and one failed outcome.
ClientFinals ==
  {<<"confirmed", "returned">>, <<"unknown", "unknown">>, <<"prepared", "failed">>}

\* Requests, operation ids and calls are interchangeable: no definition names one.
Interchangeable ==
  Permutations(Requests) \cup Permutations(OpIds) \cup Permutations(Calls)
=============================================================================
