\* Two requests of any kind into one task, while a capsule is put together.
SPECIFICATION FairCapsuleSpec
CONSTANTS
  Requests = {r1, r2}
  OpIds = {o1, o2}
  Calls = {c1}
  Tasks = {t1}
  Hints = {TRUE}
  Kinds = {"call", "prepare", "finalize"}
  Finals <- OneFinal
  Faults = {"crash"}
  None = None
  Window = 1
  MaxListed = 1
INVARIANTS OneChain SentIsListed CapsuleAgrees
PROPERTIES Answered

