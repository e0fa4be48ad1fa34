--------------------------- MODULE MCStoreSchema ---------------------------
(***************************************************************************)
(* Instances of StoreSchema for TLC.                                       *)
(***************************************************************************)
EXTENDS StoreSchema

CONSTANTS o1, o2, o3

\* Two operations of one process and one of another.
TwoProcesses == [o \in Openers |-> IF o = o3 THEN "other" ELSE "bridge"]
=============================================================================
