\* One client: transitions, audits and the changes that make them stale.
SPECIFICATION Spec
CONSTANTS
  Clients = {c1}
  Ops = {"task.transition", "task.update", "task.step_add", "task.step_update", "artifact.register", "artifact.state", "audit.create", "audit.record", "audit.evaluate"}
  Starts = {"pending"}
  Faults = {}
  MaxRevision = 3
  MaxSteps = 1
  MaxArtifacts = 1
  MaxAudits = 2
  MaxChecks = 1
  MaxLog = 2
  MaxClock = 0
INVARIANTS TypeOK PassIsBacked StampsAgree
PROPERTIES DoneIsGated MaterialChangeBlocks
