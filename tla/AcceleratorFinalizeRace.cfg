\* A finalized receipt is rewritten by a finalizer that raced the first.
SPECIFICATION Spec
CONSTANTS
  Requests = {r1, r2, r3}
  OpIds = {o1}
  Calls = {c1}
  Tasks = {t1}
  Hints = {TRUE}
  Kinds = {"prepare", "finalize"}
  Finals <- ClientFinals
  Faults = {}
  None = None
PROPERTIES FinalizedImmutable
