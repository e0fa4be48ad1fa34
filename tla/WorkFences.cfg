\* Concurrent changes, each in two statements, beside the creation of audits.
SPECIFICATION Spec
CONSTANTS
  Clients = {c1, c2}
  Ops = {"task.update", "task.step_add", "artifact.register", "artifact.state", "checkpoint.create", "audit.create"}
  Starts = {"audit"}
  Faults = {"statement"}
  MaxRevision = 2
  MaxSteps = 1
  MaxArtifacts = 1
  MaxAudits = 2
  MaxChecks = 0
  MaxLog = 1
  MaxClock = 1
SYMMETRY Interchangeable
INVARIANTS RevisionFences OneChain LaterAuditWins
