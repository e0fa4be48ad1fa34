\* A step is added between the gate's SELECT and the write of done.
SPECIFICATION Spec
CONSTANTS
  Clients = {c1, c2}
  Ops = {"task.transition", "task.step_add", "audit.create", "audit.record", "audit.evaluate"}
  Starts = {"audit"}
  Faults = {}
  MaxRevision = 2
  MaxSteps = 1
  MaxArtifacts = 0
  MaxAudits = 1
  MaxChecks = 1
  MaxLog = 1
  MaxClock = 0
PROPERTIES DoneIsGated
