\* Three calls, licences and finalizations that share one operation id, or retry it.
SPECIFICATION Spec
CONSTANTS
  Requests = {r1, r2, r3}
  OpIds = {o1}
  Calls = {c1, c2}
  Tasks = {t1}
  Hints = {TRUE}
  Kinds = {"call", "prepare", "finalize"}
  Finals <- ClientFinals
  Faults = {"crash", "statement"}
  None = None
SYMMETRY Interchangeable
INVARIANTS TypeOK AtMostOnce WriteAhead HonestReceipt HonestAnswer NoBlindRetry
PROPERTIES LedgerSpec
