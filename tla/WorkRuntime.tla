---------------------------- MODULE WorkRuntime ----------------------------
(***************************************************************************)
(* The life of one task in the Work store: its status and revision         *)
(* (work/tasks.go), its steps, its artifacts (work/artifacts.go), the      *)
(* audits that gate its completion (work/audits.go) and the checkpoints    *)
(* all of them leave (work/checkpoints.go).                                *)
(*                                                                         *)
(* Every operation opens a handle of its own and runs one autocommitted    *)
(* SQL statement after another, so one action is one statement of one      *)
(* client's operation.  A SELECT that only finds out that a row exists,    *)
(* and the last SELECT that builds the answer, are left out: rows are      *)
(* never deleted and those SELECTs change nothing.  An operation that is   *)
(* turned away after reading changes nothing either and is no step.        *)
(*                                                                         *)
(* Statements name one task and rows of two tasks never meet: the model    *)
(* holds one task.  Ids are the positions of rows in insertion order.      *)
(***************************************************************************)
EXTENDS CheckpointLog, Sequences, FiniteSets

CONSTANTS
  Clients,       \* whoever drives the task, each one operation at a time
  Ops,           \* the operations they use, named as in WorkOperations
  Starts,        \* the statuses the task may start with
  Faults,        \* which faults happen: "statement"
  MaxRevision,   \* bounds: from this revision on no operation starts that bumps it;
  MaxSteps,      \* at most so many steps and artifacts;
  MaxArtifacts,
  MaxAudits,     \* at so many audits, or checkpoints, no operation starts that
  MaxLog,        \* may add one;
  MaxChecks,     \* an audit has at most so many checks;
  MaxClock       \* the wall clock stops at this second

WorkOperations ==
  {"task.transition", "task.update", "task.step_add", "task.step_update",
   "checkpoint.create", "audit.create", "audit.record", "audit.evaluate",
   "artifact.register", "artifact.state"}
taskStates == {"pending", "running", "blocked", "audit", "done", "failed", "cancelled"}

ASSUME OpsAssumption == Ops \subseteq WorkOperations
ASSUME StartsAssumption == Starts \subseteq taskStates
ASSUME WorkFaultsAssumption == Faults \subseteq {"statement"}
ASSUME BoundsAssumption ==
  {MaxRevision, MaxSteps, MaxArtifacts, MaxAudits, MaxChecks, MaxLog, MaxClock} \subseteq Nat

VARIABLES
  task,        \* its row, and as history the revision a change was last torn from
  steps,       \* task_steps
  artifacts,   \* the status of each of its artifacts
  audits,      \* audits, each with its audit_checks
  log,         \* checkpoints
  clock,       \* now(), in whole seconds
  pc,          \* the statement each client's operation is at
  loc          \* what the operation read and was asked for

tables == <<task, steps, artifacts, audits, log>>
vars == <<tables, clock, pc, loc>>

stepStates == {"todo", "doing", "blocked", "done", "failed", "skipped"}
artifactStates == {"draft", "final", "archived"}
Verdicts == {"PASS", "FAIL", "UNCERTAIN"}

\* What a check's evidence amounts to: none recorded; equal to what the check
\* expects; different from it; manual, where the check does not allow that.
Evidence == {"none", "match", "mismatch", "manual"}

taskTransitions ==
  [s \in taskStates |->
     CASE s = "pending" -> {"running", "cancelled"}
       [] s = "running" -> {"blocked", "audit", "failed", "cancelled"}
       [] s = "blocked" -> {"running", "cancelled"}
       [] s = "audit" -> {"done", "running", "blocked"}
       [] OTHER -> {}]

\* terminalStepTime: when a write of this status sets completed_at.
terminalStepTime(status) == status \in {"done", "failed", "skipped"}

\* What an audit attests and the revision stands for.
Material == <<task.required, steps, artifacts>>

NoLocals ==
  [to |-> "none", id |-> 0, set |-> FALSE, revision |-> 0, stamp |-> 0, todo |-> 0,
   checks |-> <<>>, tip |-> Root, material |-> <<>>, before |-> 0]

Init ==
  /\ task \in [status : Starts, revision : {1}, required : BOOLEAN, current : {0}, torn : {0}]
  /\ steps = <<>>
  /\ artifacts = <<>>
  /\ audits = <<>>
  /\ log = {}
  /\ clock = 0
  /\ pc = [c \in Clients |-> "idle"]
  /\ loc = [c \in Clients |-> NoLocals]

At(c, label) == pc[c] = label
Starting(c, op) == pc[c] = "idle" /\ op \in Ops

\* The operation goes on to its next statement, keeping what it knows in local.
Then(c, label, local) ==
  /\ pc' = [pc EXCEPT ![c] = label]
  /\ loc' = [loc EXCEPT ![c] = local]

\* The operation is over, with an answer or an error.
Over(c) == Then(c, "idle", NoLocals)

----------------------------------------------------------------------------
(***************************************************************************)
(* TaskTransition.                                                         *)
(***************************************************************************)

\* Mutant of LatestAudit: ORDER BY created_at DESC alone leaves ties in any order.
LatestAuditAnyTie(rows) ==
  IF rows = <<>> THEN 0
  ELSE CHOOSE a \in DOMAIN rows :
         \A b \in DOMAIN rows :
           \/ rows[b].created < rows[a].created
           \/ rows[b].created = rows[a].created /\ a <= b

\* ORDER BY created_at DESC, rowid DESC LIMIT 1; 0 when there is no audit.
LatestAudit(rows) ==
  IF rows = <<>> THEN 0
  ELSE CHOOSE a \in DOMAIN rows :
         \A b \in DOMAIN rows :
           \/ rows[b].created < rows[a].created
           \/ rows[b].created = rows[a].created /\ b <= a

\* Mutant of ReadForTransition: the target is not even a task's status.
ReadForTransitionUnvalidated(c) ==
  /\ Starting(c, "task.transition")
  /\ \E to \in taskStates \cup stepStates :
       Then(c, IF to = "done" /\ task.required THEN "gate" ELSE "status",
            [NoLocals EXCEPT !.to = to, !.revision = task.revision])
  /\ UNCHANGED <<tables, clock>>

ReadForTransition(c) ==
  /\ Starting(c, "task.transition")
  /\ \E to \in taskTransitions[task.status] :
       Then(c, IF to = "done" /\ task.required THEN "gate" ELSE "status",
            [NoLocals EXCEPT !.to = to, !.revision = task.revision])
  /\ UNCHANGED <<tables, clock>>

\* Mutant of Gate: the audited revision is not compared.
GateAnyRevision(c) ==
  /\ At(c, "gate")
  /\ LET a == LatestAudit(audits)
     IN  IF a # 0 /\ audits[a].status = "PASS"
         THEN Then(c, "status", loc[c])
         ELSE Over(c)
  /\ UNCHANGED <<tables, clock>>

\* The latest audit must PASS for the revision the task had when it was read.
Gate(c) ==
  /\ At(c, "gate")
  /\ LET a == LatestAudit(audits)
     IN  IF a # 0 /\ audits[a].status = "PASS" /\ audits[a].revision = loc[c].revision
         THEN Then(c, "status", loc[c])
         ELSE Over(c)                                       \* audit_gate_blocked
  /\ UNCHANGED <<tables, clock>>

\* UPDATE ... WHERE task_id = ?, whatever the status is by now.  completed_at
\* is written with it and tells nothing the status does not.
WriteStatus(c) ==
  /\ At(c, "status")
  /\ task' = [task EXCEPT !.status = loc[c].to]
  /\ Over(c)
  /\ UNCHANGED <<steps, artifacts, audits, log, clock>>

----------------------------------------------------------------------------
(***************************************************************************)
(* Changes to what the task consists of.                                   *)
(***************************************************************************)

MayRevise == task.revision < MaxRevision
MayJournal == Cardinality(log) < MaxLog

\* Mutant of TaskUpdate: the revision stays.
TaskUpdateSilently(c) ==
  /\ Starting(c, "task.update") /\ MayRevise
  /\ \E required \in BOOLEAN : task' = [task EXCEPT !.required = required]
  /\ UNCHANGED <<steps, artifacts, audits, log, clock, pc, loc>>

\* One UPDATE, of any status.  Of the fields only audit_required is modelled;
\* keeping its value stands for a change of the others.
TaskUpdate(c) ==
  /\ Starting(c, "task.update") /\ MayRevise
  /\ \E required \in BOOLEAN :
       task' = [task EXCEPT !.required = required, !.revision = @ + 1]
  /\ UNCHANGED <<steps, artifacts, audits, log, clock, pc, loc>>

\* TaskStepAdd after MAX(position)+1: the INSERT.  A position that is in use is
\* an error, which changes nothing.
TaskStepAdd(c) ==
  /\ Starting(c, "task.step_add") /\ MayRevise
  /\ Len(steps) < MaxSteps
  /\ steps' = Append(steps, [status |-> "todo", completed |-> FALSE])
  /\ Then(c, "touch", NoLocals)
  /\ UNCHANGED <<task, artifacts, audits, log, clock>>

\* TaskStepUpdate: the status that counts is the one asked for, or else the
\* one the step had when it was read.
ReadStep(c) ==
  /\ Starting(c, "task.step_update") /\ MayRevise /\ MayJournal
  /\ \E s \in DOMAIN steps :
       \/ \E to \in stepStates :
            Then(c, "step", [NoLocals EXCEPT !.id = s, !.to = to, !.set = TRUE])
       \/ Then(c, "step", [NoLocals EXCEPT !.id = s, !.to = steps[s].status])
  /\ UNCHANGED <<tables, clock>>

\* What follows the revision's UPDATE: current_step_id, the checkpoint
\* step.complete, or nothing.
AfterTouch(status) ==
  CASE status = "doing" -> "touch_current"
    [] status = "done" -> "touch_journal"
    [] OTHER -> "touch"

\* Mutant of WriteStep: completed_at follows the status the step had.
WriteStepStampsOld(c) ==
  /\ At(c, "step")
  /\ steps' = [steps EXCEPT ![loc[c].id] =
                 [status |-> IF loc[c].set THEN loc[c].to ELSE @.status,
                  completed |-> terminalStepTime(@.status)]]
  /\ Then(c, AfterTouch(loc[c].to), loc[c])
  /\ UNCHANGED <<task, artifacts, audits, log, clock>>

WriteStep(c) ==
  /\ At(c, "step")
  /\ steps' = [steps EXCEPT ![loc[c].id] =
                 [status |-> IF loc[c].set THEN loc[c].to ELSE @.status,
                  completed |-> terminalStepTime(loc[c].to)]]
  /\ Then(c, AfterTouch(loc[c].to), loc[c])
  /\ UNCHANGED <<task, artifacts, audits, log, clock>>

ArtifactRegister(c) ==
  /\ Starting(c, "artifact.register") /\ MayRevise
  /\ Len(artifacts) < MaxArtifacts
  /\ artifacts' = Append(artifacts, "draft")
  /\ Then(c, "touch", NoLocals)
  /\ UNCHANGED <<task, steps, audits, log, clock>>

legal(current, target) ==
  \/ current = "draft" /\ target \in {"final", "archived"}
  \/ current = "final" /\ target = "archived"

\* ArtifactFinalize and ArtifactArchive (artifactState).
ReadArtifact(c) ==
  /\ Starting(c, "artifact.state") /\ MayRevise /\ MayJournal
  /\ \E a \in DOMAIN artifacts, to \in artifactStates :
       /\ legal(artifacts[a], to)
       /\ Then(c, "artifact", [NoLocals EXCEPT !.id = a, !.to = to])
  /\ UNCHANGED <<tables, clock>>

WriteArtifact(c) ==
  /\ At(c, "artifact")
  /\ artifacts' = [artifacts EXCEPT ![loc[c].id] = loc[c].to]
  /\ Then(c, IF loc[c].to = "final" THEN "touch_journal" ELSE "touch", loc[c])
  /\ UNCHANGED <<task, steps, audits, log, clock>>

Touching == {"touch", "touch_current", "touch_journal"}

\* touchTaskRevision, in the UPDATE after the one that changed something.
Touch(c) ==
  /\ pc[c] \in Touching
  /\ task' = [task EXCEPT !.revision = @ + 1]
  /\ CASE pc[c] = "touch_current" -> Then(c, "current", loc[c])
       [] pc[c] = "touch_journal" -> Then(c, "tip", NoLocals)
       [] OTHER -> Over(c)
  /\ UNCHANGED <<steps, artifacts, audits, log, clock>>

SetCurrent(c) ==
  /\ At(c, "current")
  /\ task' = [task EXCEPT !.current = loc[c].id]
  /\ Over(c)
  /\ UNCHANGED <<steps, artifacts, audits, log, clock>>

----------------------------------------------------------------------------
(***************************************************************************)
(* checkpointCreateDB, for a client's checkpoint.create and for the events *)
(* step.complete, artifact.finalized and audit.complete.                   *)
(***************************************************************************)

CheckpointCreate(c) ==
  /\ Starting(c, "checkpoint.create") /\ MayJournal
  /\ Then(c, "tip", NoLocals)
  /\ UNCHANGED <<tables, clock>>

ReadTip(c) ==
  /\ At(c, "tip")
  /\ Then(c, "checkpoint", [NoLocals EXCEPT !.tip = Tip(log, "task")])
  /\ UNCHANGED <<tables, clock>>

\* The slower of two writers of one sequence gets an error instead.  A new id is
\* who wrote the checkpoint and where in the history; the snapshot's content is
\* left out.
InsertCheckpoint(c) ==
  /\ At(c, "checkpoint")
  /\ log' = IF Fits(log, "task", loc[c].tip)
            THEN log \cup {Entry("task", loc[c].tip, <<c, loc[c].tip.seq + 1>>, "snapshot")}
            ELSE log
  /\ Over(c)
  /\ UNCHANGED <<task, steps, artifacts, audits, clock>>

----------------------------------------------------------------------------
(***************************************************************************)
(* Audits.                                                                 *)
(***************************************************************************)

\* AuditCreate reads the task; stamp := now() follows.  material and before
\* are history: what the task consisted of, and how many audits there were.
ReadForAudit(c) ==
  /\ Starting(c, "audit.create")
  /\ Len(audits) < MaxAudits
  /\ \E n \in 0 .. MaxChecks :
       Then(c, "audit", [NoLocals EXCEPT !.revision = task.revision, !.stamp = clock,
                                         !.todo = n, !.material = Material,
                                         !.before = Len(audits)])
  /\ UNCHANGED <<tables, clock>>

InsertAudit(c) ==
  /\ At(c, "audit")
  /\ audits' = Append(audits, [status |-> "UNCERTAIN", revision |-> loc[c].revision,
                               created |-> loc[c].stamp, checks |-> <<>>,
                               material |-> loc[c].material, before |-> loc[c].before])
  /\ IF loc[c].todo = 0
     THEN Over(c)
     ELSE Then(c, "check", [NoLocals EXCEPT !.id = Len(audits) + 1, !.todo = loc[c].todo])
  /\ UNCHANGED <<task, steps, artifacts, log, clock>>

\* One INSERT per check.
InsertCheck(c) ==
  /\ At(c, "check")
  /\ audits' = [audits EXCEPT ![loc[c].id].checks =
                  Append(@, [evidence |-> "none", status |-> "UNCERTAIN"])]
  /\ IF loc[c].todo = 1
     THEN Over(c)
     ELSE Then(c, "check", [loc[c] EXCEPT !.todo = @ - 1])
  /\ UNCHANGED <<task, steps, artifacts, log, clock>>

\* A check without a name ends AuditCreate; the audit stays as it is.
RejectCheck(c) ==
  /\ At(c, "check")
  /\ Over(c)
  /\ UNCHANGED <<tables, clock>>

\* Mutant of AuditRecord: the check keeps its verdict.
AuditRecordKeepsVerdict(c) ==
  /\ Starting(c, "audit.record")
  /\ \E a \in DOMAIN audits : \E k \in DOMAIN audits[a].checks, e \in Evidence \ {"none"} :
       audits' = [audits EXCEPT ![a].checks[k].evidence = e]
  /\ UNCHANGED <<task, steps, artifacts, log, clock, pc, loc>>

\* One UPDATE: the check is uncertain again, its audit keeps its verdict.
AuditRecord(c) ==
  /\ Starting(c, "audit.record")
  /\ \E a \in DOMAIN audits : \E k \in DOMAIN audits[a].checks, e \in Evidence \ {"none"} :
       audits' = [audits EXCEPT ![a].checks[k] = [evidence |-> e, status |-> "UNCERTAIN"]]
  /\ UNCHANGED <<task, steps, artifacts, log, clock, pc, loc>>

\* AuditEvaluate reads the audit, whose revision never changes, and the task.
ReadForEvaluate(c) ==
  /\ Starting(c, "audit.evaluate") /\ MayJournal
  /\ \E a \in DOMAIN audits :
       Then(c, "checks", [NoLocals EXCEPT !.id = a, !.revision = task.revision])
  /\ UNCHANGED <<tables, clock>>

Judgement(evidence) ==
  CASE evidence = "match" -> "PASS"
    [] evidence = "mismatch" -> "FAIL"
    [] OTHER -> "UNCERTAIN"

\* PASS needs at least one check, none FAIL and none UNCERTAIN, and the task
\* still at the audited revision.
Overall(verdicts, stale) ==
  LET Some(verdict) == \E k \in DOMAIN verdicts : verdicts[k] = verdict
  IN  IF stale \/ verdicts = <<>> THEN "UNCERTAIN"
      ELSE IF Some("FAIL") THEN "FAIL"
      ELSE IF Some("UNCERTAIN") THEN "UNCERTAIN" ELSE "PASS"

ReadChecks(c) ==
  /\ At(c, "checks")
  /\ LET rows == audits[loc[c].id].checks
     IN  Then(c, IF rows = <<>> THEN "verdict" ELSE "judge",
              [loc[c] EXCEPT !.todo = 1,
                             !.checks = [k \in DOMAIN rows |-> Judgement(rows[k].evidence)]])
  /\ UNCHANGED <<tables, clock>>

\* One UPDATE per check that was read, whatever is recorded for it by now.
JudgeCheck(c) ==
  /\ At(c, "judge")
  /\ LET k == loc[c].todo
     IN  /\ audits' = [audits EXCEPT ![loc[c].id].checks[k].status = loc[c].checks[k]]
         /\ Then(c, IF k = Len(loc[c].checks) THEN "verdict" ELSE "judge",
                 [loc[c] EXCEPT !.todo = k + 1])
  /\ UNCHANGED <<task, steps, artifacts, log, clock>>

WriteVerdict(c) ==
  /\ At(c, "verdict")
  /\ LET a == loc[c].id
         overall == Overall(loc[c].checks, audits[a].revision # loc[c].revision)
     IN  /\ audits' = [audits EXCEPT ![a].status = overall]
         /\ IF overall = "UNCERTAIN" THEN Over(c) ELSE Then(c, "tip", NoLocals)
  /\ UNCHANGED <<task, steps, artifacts, log, clock>>

----------------------------------------------------------------------------
(***************************************************************************)
(* Faults, the clock, and the specification.                               *)
(***************************************************************************)

\* The statement the operation is at fails, or the Bridge dies there.  A change
\* that is torn from its touchTaskRevision stays, under the old revision.
Abandon(c) ==
  /\ "statement" \in Faults
  /\ pc[c] # "idle"
  /\ task' = IF pc[c] \in Touching THEN [task EXCEPT !.torn = task.revision] ELSE task
  /\ Over(c)
  /\ UNCHANGED <<steps, artifacts, audits, log, clock>>

Tick ==
  /\ clock < MaxClock
  /\ clock' = clock + 1
  /\ UNCHANGED <<tables, pc, loc>>

\* No operation is under way: one that waits for good would be a deadlock.
Quiet ==
  /\ \A c \in Clients : pc[c] = "idle"
  /\ UNCHANGED vars

Step(c) ==
  \/ ReadForTransition(c) \/ Gate(c) \/ WriteStatus(c)
  \/ TaskUpdate(c) \/ TaskStepAdd(c) \/ ReadStep(c) \/ WriteStep(c)
  \/ ArtifactRegister(c) \/ ReadArtifact(c) \/ WriteArtifact(c)
  \/ Touch(c) \/ SetCurrent(c)
  \/ CheckpointCreate(c) \/ ReadTip(c) \/ InsertCheckpoint(c)
  \/ ReadForAudit(c) \/ InsertAudit(c) \/ InsertCheck(c) \/ RejectCheck(c)
  \/ AuditRecord(c) \/ ReadForEvaluate(c) \/ ReadChecks(c) \/ JudgeCheck(c) \/ WriteVerdict(c)
  \/ Abandon(c)

Next == (\E c \in Clients : Step(c)) \/ Tick \/ Quiet

Spec == Init /\ [][Next]_vars

----------------------------------------------------------------------------
(***************************************************************************)
(* Properties.                                                             *)
(***************************************************************************)

StepRow == [status : stepStates, completed : BOOLEAN]
CheckRow == [evidence : Evidence, status : Verdicts]
Materials == BOOLEAN \X Seq(StepRow) \X Seq(artifactStates)
AuditRow == [status : Verdicts, revision : Nat, created : Nat, checks : Seq(CheckRow),
             material : Materials, before : Nat]
CheckpointIds == {<<>>} \cup (Clients \X Nat)
Words == {"none"} \cup taskStates \cup stepStates \cup artifactStates
Local == [to : Words, id : Nat, set : BOOLEAN, revision : Nat, stamp : Nat, todo : Nat,
          checks : Seq(Verdicts), tip : [seq : Nat, id : CheckpointIds],
          material : Materials \cup {<<>>}, before : Nat]
Labels == {"idle", "gate", "status", "step", "artifact", "current", "tip", "checkpoint",
           "audit", "check", "checks", "judge", "verdict"} \cup Touching

\* Type correctness of the tables and of each operation's control state.
TypeOK ==
  /\ task \in [status : taskStates, revision : Nat, required : BOOLEAN, current : Nat, torn : Nat]
  /\ steps \in Seq(StepRow)
  /\ artifacts \in Seq(artifactStates)
  /\ audits \in Seq(AuditRow)
  /\ \A e \in log : e \in [task : {"task"}, id : CheckpointIds, seq : Nat, parent : CheckpointIds,
                           body : {"snapshot"}]
  /\ clock \in Nat
  /\ pc \in [Clients -> Labels]
  /\ loc \in [Clients -> Local]

\* No operation stands between a change and its touchTaskRevision, and none was
\* cut off there at this revision.
Settled ==
  /\ \A c \in Clients : pc[c] \notin Touching
  /\ task.torn # task.revision

\* The revision fences audits, whoever races whom and whatever fails: an audit of
\* the current revision was created when the task consisted of exactly what it
\* consists of now, unless a change still lacks its touchTaskRevision.
RevisionFences ==
  \A a \in DOMAIN audits :
    audits[a].revision = task.revision /\ Settled => audits[a].material = Material

\* The audit the gate reads is never one that was there before another's
\* creation began, within one second of the clock or not.  The clock is one that
\* is not set back.
LaterAuditWins == \A a \in DOMAIN audits : audits[a].before < LatestAudit(audits)

\* All writers of checkpoints, whoever fails, leave one chain.
OneChain == Chain(log, "task")

Completes == task.status # "done" /\ task'.status = "done" /\ task.required

\* "`task.audit_required` true: latest audit must PASS and
\* `audited_task_revision == task.revision`" (section 7, the done gate), at the
\* moment the task becomes done.
DoneIsGated ==
  [][Completes =>
       LET a == LatestAudit(audits)
       IN  a # 0 /\ audits[a].status = "PASS" /\ audits[a].revision = task.revision]_task

\* "a PASS audit becomes stale after material task, step, or artifact changes
\* and cannot unlock completion" (CHANGELOG.md): when the task becomes done, the
\* latest audit, which must PASS, was created when the task consisted of exactly
\* what it consists of now, whatever was changed and changed back in between.
\* A change that was torn from its touchTaskRevision is not noticed.
MaterialChangeBlocks ==
  [][Completes /\ Settled =>
       LET a == LatestAudit(audits)
       IN  a # 0 /\ audits[a].status = "PASS" /\ audits[a].material = Material]_task

\* "Manual evidence alone cannot satisfy a required mechanical check" (section
\* 7): if operations do not overlap, no check stands at PASS on evidence that is
\* missing, manual, or differs from what it expects, however often evidence is
\* recorded and evaluated anew.
PassIsBacked ==
  \A a \in DOMAIN audits : \A k \in DOMAIN audits[a].checks :
    audits[a].checks[k].status = "PASS" => audits[a].checks[k].evidence = "match"

\* A step has a completion time exactly when its status is a terminal one, if
\* operations do not overlap.
StampsAgree ==
  \A s \in DOMAIN steps : steps[s].completed <=> terminalStepTime(steps[s].status)
=============================================================================
