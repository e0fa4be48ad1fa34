-------------------------- MODULE OperationLedger --------------------------
(***************************************************************************)
(* What receipts promise a client that retries: an operation id is bound   *)
(* to one call the first time it is used, is never rebound, and is         *)
(* executed at most once, only after it was bound.  There is no retry,     *)
(* race, crash or lost message at this level.                              *)
(***************************************************************************)
CONSTANTS Ops, Calls, Executors

VARIABLES
  bound,   \* operation id -> the call it is bound to, as a set of at most one
  runs     \* operation id -> who executed it

vars == <<bound, runs>>

Init ==
  /\ bound = [o \in Ops |-> {}]
  /\ runs = [o \in Ops |-> {}]

\* The first use of o stands for call from now on.
Bind(o, call) ==
  /\ bound[o] = {}
  /\ bound' = [bound EXCEPT ![o] = {call}]
  /\ UNCHANGED runs

\* The one execution of o.
Execute(o, e) ==
  /\ bound[o] # {}
  /\ runs[o] = {}
  /\ runs' = [runs EXCEPT ![o] = {e}]
  /\ UNCHANGED bound

Next ==
  \/ \E o \in Ops, call \in Calls : Bind(o, call)
  \/ \E o \in Ops, e \in Executors : Execute(o, e)

Spec == Init /\ [][Next]_vars
=============================================================================
