------------------------- MODULE WorkRuntime_proofs -------------------------
(***************************************************************************)
(* Theorems about WorkRuntime, for any number of clients and any bounds.   *)
(***************************************************************************)
EXTENDS WorkRuntime, CheckpointLog_proofs, SequenceTheorems, TLAPS

----------------------------------------------------------------------------
(***************************************************************************)
(* Types.                                                                  *)
(***************************************************************************)

TablesOK ==
  /\ task \in [status : taskStates, revision : Nat, required : BOOLEAN, current : Nat, torn : Nat]
  /\ steps \in Seq(StepRow)
  /\ artifacts \in Seq(artifactStates)
  /\ audits \in Seq(AuditRow)
  /\ \A e \in log : e \in [task : {"task"}, id : CheckpointIds, seq : Nat, parent : CheckpointIds,
                           body : {"snapshot"}]
  /\ clock \in Nat

\* What the statement at label relies on.
Fit(label, local) ==
  /\ label \in {"gate", "status"} => local.to \in taskStates
  /\ label = "step" => local.to \in stepStates
  /\ label = "artifact" => local.to \in artifactStates
  /\ label = "audit" => local.material \in Materials
  /\ label = "check" => local.todo # 0
  /\ label = "judge" => local.todo \in DOMAIN local.checks

ControlOK ==
  /\ pc \in [Clients -> Labels]
  /\ loc \in [Clients -> Local]
  /\ \A c \in Clients : Fit(pc[c], loc[c])

TypesOK == TablesOK /\ ControlOK

\* An evaluation is of an audit that is there.
Evaluating == {"checks", "judge", "verdict"}
EvaluationOK == \A c \in Clients : pc[c] \in Evaluating => loc[c].id \in DOMAIN audits

TypeInv == TypesOK /\ EvaluationOK

LEMMA TypeImplies == TypeInv => TypeOK
BY DEF TypeInv, TypesOK, TablesOK, ControlOK, TypeOK

LEMMA NoLocalsType == NoLocals \in Local
BY DEF NoLocals, Local, Words, Root, CheckpointIds

LEMMA WordsType == taskStates \cup stepStates \cup artifactStates \subseteq Words
BY DEF Words

LEMMA RowType == ASSUME NEW S, NEW q \in Seq(S), NEW i \in DOMAIN q PROVE q[i] \in S
OBVIOUS

\* An UPDATE of a row that may not be there.
LEMMA UpdateType ==
  ASSUME NEW S, NEW q \in Seq(S), NEW i, NEW row, i \in DOMAIN q => row \in S
  PROVE  [q EXCEPT ![i] = row] \in Seq(S)
<1>1. CASE i \in DOMAIN q
  BY <1>1
<1>2. CASE i \notin DOMAIN q
  <2>1. [q EXCEPT ![i] = row] = q
    BY <1>2
  <2> QED
    BY <2>1
<1> QED
  BY <1>1, <1>2

LEMMA MaterialType == TablesOK => Material \in Materials
BY DEF TablesOK, Material, Materials

LEMMA ThenControl ==
  ASSUME ControlOK, NEW c \in Clients, NEW label \in Labels, NEW local \in Local,
         Fit(label, local), Then(c, label, local)
  PROVE  ControlOK'
BY DEF ControlOK, Then

LEMMA OverControl ==
  ASSUME ControlOK, NEW c \in Clients, Over(c)
  PROVE  ControlOK'
BY ThenControl, NoLocalsType DEF Over, Labels, Fit

LEMMA TypeInit == Init => TypeInv
BY StartsAssumption, NoLocalsType
   DEF Init, TypeInv, TypesOK, TablesOK, ControlOK, EvaluationOK, Evaluating, Fit, Labels

\* The invariant of the checkpoints: whoever is about to insert one knows a row
\* that is, or was, the last.
ChainInv ==
  /\ OneChain
  /\ \A c \in Clients : At(c, "checkpoint") => OnceTip(log, "task", loc[c].tip)

LEMMA TipType ==
  ASSUME TablesOK, OneChain
  PROVE  Tip(log, "task") \in [seq : Nat, id : CheckpointIds]
<1>1. OnceTip(log, "task", Tip(log, "task"))
  BY TipOnChain DEF OneChain
<1>2. CASE Tip(log, "task") = Root
  <2>1. Root \in [seq : Nat, id : CheckpointIds]
    BY DEF Root, CheckpointIds
  <2> QED
    BY <1>2, <2>1
<1>3. CASE \E e \in Rows(log, "task") : Tip(log, "task") = [seq |-> e.seq, id |-> e.id]
  BY <1>3 DEF Rows, TablesOK
<1> QED
  BY <1>1, <1>2, <1>3 DEF OnceTip

----------------------------------------------------------------------------
LEMMA TypesStep == TypeInv /\ ChainInv /\ [Next]_vars => TypesOK'
<1> SUFFICES ASSUME TypeInv, ChainInv, [Next]_vars PROVE TypesOK'
  OBVIOUS
<1> USE DEF TypeInv, TypesOK, At, Starting
<1>1. ASSUME NEW c \in Clients, ReadForTransition(c) PROVE TypesOK'
  <2>1. PICK to \in taskTransitions[task.status] :
          Then(c, IF to = "done" /\ task.required THEN "gate" ELSE "status",
               [NoLocals EXCEPT !.to = to, !.revision = task.revision])
    BY <1>1 DEF ReadForTransition
  <2>2. to \in taskStates
    BY DEF taskTransitions, taskStates, TablesOK
  <2> DEFINE local == [NoLocals EXCEPT !.to = to, !.revision = task.revision]
  <2>3. local \in Local /\ local.to = to
    <3>1. to \in Words /\ task.revision \in Nat
      BY <2>2, WordsType DEF TablesOK
    <3> QED
      BY <3>1, NoLocalsType DEF Local
  <2> HIDE DEF local
  <2>4. Fit("gate", local) /\ Fit("status", local)
    BY <2>2, <2>3 DEF Fit
  <2>5. ControlOK'
    BY <2>1, <2>3, <2>4, ThenControl DEF Labels, local
  <2> QED
    BY <1>1, <2>5 DEF ReadForTransition, TablesOK, tables
<1>2. ASSUME NEW c \in Clients, Gate(c) PROVE TypesOK'
  <2>1. loc[c] \in Local /\ Fit("status", loc[c])
    BY <1>2 DEF Gate, ControlOK, Fit
  <2>2. ControlOK'
    BY <1>2, <2>1, ThenControl, OverControl DEF Gate, Labels
  <2> QED
    BY <1>2, <2>2 DEF Gate, TablesOK, tables
<1>3. ASSUME NEW c \in Clients, WriteStatus(c) PROVE TypesOK'
  <2>1. loc[c].to \in taskStates
    BY <1>3 DEF WriteStatus, ControlOK, Fit
  <2> QED
    BY <1>3, <2>1, OverControl DEF WriteStatus, TablesOK
<1>4. ASSUME NEW c \in Clients, TaskUpdate(c) PROVE TypesOK'
  <2>1. PICK required \in BOOLEAN :
          task' = [task EXCEPT !.required = required, !.revision = @ + 1]
    BY <1>4 DEF TaskUpdate
  <2>2. task' \in [status : taskStates, revision : Nat, required : BOOLEAN,
                   current : Nat, torn : Nat]
    <3>1. task \in [status : taskStates, revision : Nat, required : BOOLEAN,
                    current : Nat, torn : Nat]
      BY DEF TablesOK
    <3>2. task.revision + 1 \in Nat
      BY <3>1
    <3> QED
      BY <2>1, <3>1, <3>2
  <2> QED
    BY <1>4, <2>2 DEF TaskUpdate, TablesOK, ControlOK
<1>5. ASSUME NEW c \in Clients, TaskStepAdd(c) PROVE TypesOK'
  <2>1. steps' \in Seq(StepRow)
    BY <1>5 DEF TaskStepAdd, TablesOK, StepRow, stepStates
  <2>2. ControlOK'
    BY <1>5, ThenControl, NoLocalsType DEF TaskStepAdd, Labels, Touching, Fit
  <2> QED
    BY <1>5, <2>1, <2>2 DEF TaskStepAdd, TablesOK
<1>6. ASSUME NEW c \in Clients, ReadStep(c) PROVE TypesOK'
  <2>1. PICK s \in DOMAIN steps, to \in stepStates, set \in BOOLEAN :
          Then(c, "step", [NoLocals EXCEPT !.id = s, !.to = to, !.set = set])
    <3>1. PICK s \in DOMAIN steps :
            \/ \E to \in stepStates :
                 Then(c, "step", [NoLocals EXCEPT !.id = s, !.to = to, !.set = TRUE])
            \/ Then(c, "step", [NoLocals EXCEPT !.id = s, !.to = steps[s].status])
      BY <1>6 DEF ReadStep
    <3>2. steps[s].status \in stepStates
      <4>1. steps[s] \in StepRow
        BY RowType DEF TablesOK
      <4> QED
        BY <4>1 DEF StepRow
    <3>3. [NoLocals EXCEPT !.id = s, !.to = steps[s].status]
            = [NoLocals EXCEPT !.id = s, !.to = steps[s].status, !.set = FALSE]
      <4>1. NoLocals \in Local /\ NoLocals.set = FALSE
        BY NoLocalsType DEF NoLocals
      <4> QED
        BY <4>1 DEF Local
    <3> QED
      BY <3>1, <3>2, <3>3
  <2> DEFINE local == [NoLocals EXCEPT !.id = s, !.to = to, !.set = set]
  <2>2. s \in Nat
    BY DEF TablesOK
  <2>3. local \in Local /\ local.to = to
    <3>1. to \in Words
      BY WordsType
    <3> QED
      BY <2>2, <3>1, NoLocalsType DEF Local
  <2> HIDE DEF local
  <2>4. Fit("step", local)
    BY <2>3 DEF Fit
  <2>5. ControlOK'
    BY <2>1, <2>3, <2>4, ThenControl DEF Labels, local
  <2> QED
    BY <1>6, <2>5 DEF ReadStep, TablesOK, tables
<1>7. ASSUME NEW c \in Clients, WriteStep(c) PROVE TypesOK'
  <2>1. loc[c].to \in stepStates /\ loc[c] \in Local
    BY <1>7 DEF WriteStep, ControlOK, Fit
  <2>2. steps' \in Seq(StepRow)
    <3> DEFINE row == [status |-> IF loc[c].set THEN loc[c].to ELSE steps[loc[c].id].status,
                       completed |-> terminalStepTime(loc[c].to)]
    <3>1. steps \in Seq(StepRow) /\ steps' = [steps EXCEPT ![loc[c].id] = row]
      BY <1>7 DEF WriteStep, TablesOK
    <3>2. loc[c].id \in DOMAIN steps => steps[loc[c].id].status \in stepStates
      <4>1. loc[c].id \in DOMAIN steps => steps[loc[c].id] \in StepRow
        BY <3>1, RowType
      <4> QED
        BY <4>1 DEF StepRow
    <3>3. loc[c].id \in DOMAIN steps => row \in StepRow
      BY <2>1, <3>2 DEF StepRow, terminalStepTime
    <3> HIDE DEF row
    <3> QED
      BY <3>1, <3>3, UpdateType
  <2>3. AfterTouch(loc[c].to) \in Touching
    BY DEF AfterTouch, Touching
  <2>4. ControlOK'
    BY <1>7, <2>1, <2>3, ThenControl DEF WriteStep, Labels, Touching, Fit
  <2> QED
    BY <1>7, <2>2, <2>4 DEF WriteStep, TablesOK
<1>8. ASSUME NEW c \in Clients, ArtifactRegister(c) PROVE TypesOK'
  <2>1. artifacts' \in Seq(artifactStates)
    BY <1>8 DEF ArtifactRegister, TablesOK, artifactStates
  <2>2. ControlOK'
    BY <1>8, ThenControl, NoLocalsType DEF ArtifactRegister, Labels, Touching, Fit
  <2> QED
    BY <1>8, <2>1, <2>2 DEF ArtifactRegister, TablesOK
<1>9. ASSUME NEW c \in Clients, ReadArtifact(c) PROVE TypesOK'
  <2>1. PICK a \in DOMAIN artifacts, to \in artifactStates :
          /\ legal(artifacts[a], to)
          /\ Then(c, "artifact", [NoLocals EXCEPT !.id = a, !.to = to])
    BY <1>9 DEF ReadArtifact
  <2> DEFINE local == [NoLocals EXCEPT !.id = a, !.to = to]
  <2>2. a \in Nat
    BY DEF TablesOK
  <2>3. local \in Local /\ local.to = to
    <3>1. to \in Words
      BY WordsType
    <3> QED
      BY <2>2, <3>1, NoLocalsType DEF Local
  <2> HIDE DEF local
  <2>4. Fit("artifact", local)
    BY <2>3 DEF Fit
  <2>5. ControlOK'
    BY <2>1, <2>3, <2>4, ThenControl DEF Labels, local
  <2> QED
    BY <1>9, <2>5 DEF ReadArtifact, TablesOK, tables
<1>10. ASSUME NEW c \in Clients, WriteArtifact(c) PROVE TypesOK'
  <2>1. loc[c].to \in artifactStates /\ loc[c] \in Local
    BY <1>10 DEF WriteArtifact, ControlOK, Fit
  <2>2. artifacts' \in Seq(artifactStates)
    BY <1>10, <2>1, UpdateType DEF WriteArtifact, TablesOK
  <2>3. ControlOK'
    BY <1>10, <2>1, ThenControl DEF WriteArtifact, Labels, Touching, Fit
  <2> QED
    BY <1>10, <2>2, <2>3 DEF WriteArtifact, TablesOK
<1>11. ASSUME NEW c \in Clients, Touch(c) PROVE TypesOK'
  <2>1. task' \in [status : taskStates, revision : Nat, required : BOOLEAN,
                  current : Nat, torn : Nat]
    <3>1. task.revision + 1 \in Nat
      BY DEF TablesOK
    <3>2. task' = [task EXCEPT !.revision = @ + 1]
      BY <1>11 DEF Touch
    <3> QED
      BY <3>1, <3>2 DEF TablesOK
  <2>2. loc[c] \in Local
    BY DEF ControlOK
  <2>3. ControlOK'
    BY <1>11, <2>2, ThenControl, OverControl, NoLocalsType DEF Touch, Labels, Touching, Fit
  <2> QED
    BY <1>11, <2>1, <2>3 DEF Touch, TablesOK
<1>12. ASSUME NEW c \in Clients, SetCurrent(c) PROVE TypesOK'
  <2>1. loc[c].id \in Nat
    BY DEF ControlOK, Local
  <2> QED
    BY <1>12, <2>1, OverControl DEF SetCurrent, TablesOK
<1>13. ASSUME NEW c \in Clients, CheckpointCreate(c) PROVE TypesOK'
  <2>1. ControlOK'
    BY <1>13, ThenControl, NoLocalsType DEF CheckpointCreate, Labels, Fit
  <2> QED
    BY <1>13, <2>1 DEF CheckpointCreate, TablesOK, tables
<1>14. ASSUME NEW c \in Clients, ReadTip(c) PROVE TypesOK'
  <2> DEFINE local == [NoLocals EXCEPT !.tip = Tip(log, "task")]
  <2>1. local \in Local
    BY TipType, NoLocalsType DEF ChainInv, Local
  <2> HIDE DEF local
  <2>2. ControlOK'
    BY <1>14, <2>1, ThenControl DEF ReadTip, Labels, Fit, local
  <2> QED
    BY <1>14, <2>2 DEF ReadTip, TablesOK, tables
<1>15. ASSUME NEW c \in Clients, InsertCheckpoint(c) PROVE TypesOK'
  <2> DEFINE e == Entry("task", loc[c].tip, <<c, loc[c].tip.seq + 1>>, "snapshot")
  <2>1. loc[c].tip \in [seq : Nat, id : CheckpointIds]
    BY DEF ControlOK, Local
  <2>2. e \in [task : {"task"}, id : CheckpointIds, seq : Nat, parent : CheckpointIds,
               body : {"snapshot"}]
    BY <2>1 DEF Entry, CheckpointIds
  <2> HIDE DEF e
  <2>3. log' = log \/ log' = log \cup {e}
    BY <1>15 DEF InsertCheckpoint, e
  <2>4. TablesOK'
    BY <1>15, <2>2, <2>3 DEF InsertCheckpoint, TablesOK
  <2> QED
    BY <1>15, <2>4, OverControl DEF InsertCheckpoint
<1>16. ASSUME NEW c \in Clients, ReadForAudit(c) PROVE TypesOK'
  <2>1. PICK n \in 0 .. MaxChecks :
          Then(c, "audit", [NoLocals EXCEPT !.revision = task.revision, !.stamp = clock,
                                            !.todo = n, !.material = Material,
                                            !.before = Len(audits)])
    BY <1>16 DEF ReadForAudit
  <2> DEFINE local == [NoLocals EXCEPT !.revision = task.revision, !.stamp = clock,
                                       !.todo = n, !.material = Material,
                                       !.before = Len(audits)]
  <2>2. task.revision \in Nat /\ clock \in Nat /\ n \in Nat /\ Len(audits) \in Nat
    BY BoundsAssumption DEF TablesOK
  <2>3. Material \in Materials
    BY MaterialType
  <2>4. local \in Local /\ local.material = Material
    BY <2>2, <2>3, NoLocalsType DEF Local
  <2> HIDE DEF local
  <2>5. Fit("audit", local)
    BY <2>3, <2>4 DEF Fit
  <2>6. ControlOK'
    BY <2>1, <2>4, <2>5, ThenControl DEF Labels, local
  <2> QED
    BY <1>16, <2>6 DEF ReadForAudit, TablesOK, tables
<1>17. ASSUME NEW c \in Clients, InsertAudit(c) PROVE TypesOK'
  <2> DEFINE row == [status |-> "UNCERTAIN", revision |-> loc[c].revision,
                     created |-> loc[c].stamp, checks |-> <<>>,
                     material |-> loc[c].material, before |-> loc[c].before]
             local == [NoLocals EXCEPT !.id = Len(audits) + 1, !.todo = loc[c].todo]
  <2>1. /\ loc[c].revision \in Nat /\ loc[c].stamp \in Nat /\ loc[c].before \in Nat
        /\ loc[c].todo \in Nat /\ loc[c].material \in Materials
    BY <1>17 DEF InsertAudit, ControlOK, Local, Fit
  <2>2. row \in AuditRow
    BY <2>1 DEF AuditRow, Verdicts
  <2>3. local \in Local /\ local.todo = loc[c].todo
    <3>1. Len(audits) + 1 \in Nat
      BY DEF TablesOK
    <3> QED
      BY <2>1, <3>1, NoLocalsType DEF Local
  <2> HIDE DEF row, local
  <2>4. audits' \in Seq(AuditRow)
    BY <1>17, <2>2 DEF InsertAudit, TablesOK, row
  <2>5. CASE loc[c].todo = 0
    BY <1>17, <2>4, <2>5, OverControl DEF InsertAudit, TablesOK
  <2>6. CASE loc[c].todo # 0
    <3>1. Fit("check", local)
      BY <2>3, <2>6 DEF Fit
    <3>2. ControlOK'
      BY <1>17, <2>3, <2>6, <3>1, ThenControl DEF InsertAudit, Labels, local
    <3> QED
      BY <1>17, <2>4, <3>2 DEF InsertAudit, TablesOK
  <2> QED
    BY <2>5, <2>6
<1>18. ASSUME NEW c \in Clients, InsertCheck(c) PROVE TypesOK'
  <2> DEFINE local == [loc[c] EXCEPT !.todo = @ - 1]
  <2>1. audits' \in Seq(AuditRow)
    <3> DEFINE a == loc[c].id
               check == [evidence |-> "none", status |-> "UNCERTAIN"]
               row == [audits[a] EXCEPT !.checks = Append(@, check)]
    <3>1. audits \in Seq(AuditRow) /\ audits' = [audits EXCEPT ![a] = row]
      BY <1>18 DEF InsertCheck, TablesOK
    <3>2. check \in CheckRow
      BY DEF CheckRow, Evidence, Verdicts
    <3> HIDE DEF a, check
    <3>3. a \in DOMAIN audits => row \in AuditRow
      <4>1. a \in DOMAIN audits => audits[a] \in AuditRow
        BY <3>1, RowType
      <4> QED
        BY <3>2, <4>1 DEF AuditRow
    <3> HIDE DEF row
    <3> QED
      BY <3>1, <3>3, UpdateType
  <2>2. loc[c] \in Local /\ loc[c].todo \in Nat /\ loc[c].todo # 0
    BY <1>18 DEF InsertCheck, ControlOK, Local, Fit
  <2>3. CASE loc[c].todo = 1
    BY <1>18, <2>1, <2>3, OverControl DEF InsertCheck, TablesOK
  <2>4. CASE loc[c].todo # 1
    <3>1. loc[c].todo - 1 \in Nat \ {0}
      BY <2>2, <2>4
    <3>2. local \in Local /\ local.todo # 0
      BY <2>2, <3>1 DEF Local
    <3> HIDE DEF local
    <3>3. Fit("check", local)
      BY <3>2 DEF Fit
    <3>4. ControlOK'
      BY <1>18, <2>4, <3>2, <3>3, ThenControl DEF InsertCheck, Labels, local
    <3> QED
      BY <1>18, <2>1, <3>4 DEF InsertCheck, TablesOK
  <2> QED
    BY <2>3, <2>4
<1>19. ASSUME NEW c \in Clients, RejectCheck(c) PROVE TypesOK'
  BY <1>19, OverControl DEF RejectCheck, TablesOK, tables
<1>20. ASSUME NEW c \in Clients, AuditRecord(c) PROVE TypesOK'
  <2>1. audits' \in Seq(AuditRow)
    <3>1. PICK a \in DOMAIN audits : \E k \in DOMAIN audits[a].checks, e \in Evidence \ {"none"} :
            audits' = [audits EXCEPT ![a].checks[k] = [evidence |-> e, status |-> "UNCERTAIN"]]
      BY <1>20 DEF AuditRecord
    <3>2. PICK k \in DOMAIN audits[a].checks, e \in Evidence :
            audits' = [audits EXCEPT ![a].checks[k] = [evidence |-> e, status |-> "UNCERTAIN"]]
      BY <3>1
    <3> DEFINE check == [evidence |-> e, status |-> "UNCERTAIN"]
               checks == [audits[a].checks EXCEPT ![k] = check]
               row == [audits[a] EXCEPT !.checks = checks]
    <3>3. audits \in Seq(AuditRow) /\ audits' = [audits EXCEPT ![a] = row]
      BY <3>2 DEF TablesOK
    <3>4. check \in CheckRow /\ audits[a] \in AuditRow
      BY <3>3 DEF CheckRow, Verdicts
    <3> HIDE DEF check
    <3>5. checks \in Seq(CheckRow)
      BY <3>4 DEF AuditRow
    <3> HIDE DEF checks
    <3>6. row \in AuditRow
      BY <3>4, <3>5 DEF AuditRow
    <3> HIDE DEF row
    <3> QED
      BY <3>3, <3>6, UpdateType
  <2> QED
    BY <1>20, <2>1 DEF AuditRecord, TablesOK, ControlOK
<1>21. ASSUME NEW c \in Clients, ReadForEvaluate(c) PROVE TypesOK'
  <2>1. PICK a \in DOMAIN audits :
          Then(c, "checks", [NoLocals EXCEPT !.id = a, !.revision = task.revision])
    BY <1>21 DEF ReadForEvaluate
  <2> DEFINE local == [NoLocals EXCEPT !.id = a, !.revision = task.revision]
  <2>2. local \in Local
    <3>1. a \in Nat /\ task.revision \in Nat
      BY DEF TablesOK
    <3> QED
      BY <3>1, NoLocalsType DEF Local
  <2> HIDE DEF local
  <2>3. ControlOK'
    BY <2>1, <2>2, ThenControl DEF Labels, Fit, local
  <2> QED
    BY <1>21, <2>3 DEF ReadForEvaluate, TablesOK, tables
<1>22. ASSUME NEW c \in Clients, ReadChecks(c) PROVE TypesOK'
  <2> DEFINE rows == audits[loc[c].id].checks
             verdicts == [k \in DOMAIN rows |-> Judgement(rows[k].evidence)]
             local == [loc[c] EXCEPT !.todo = 1, !.checks = verdicts]
  <2>1. rows \in Seq(CheckRow)
    <3>1. loc[c].id \in DOMAIN audits /\ audits \in Seq(AuditRow)
      BY <1>22 DEF ReadChecks, EvaluationOK, Evaluating, TablesOK
    <3>2. audits[loc[c].id] \in AuditRow
      BY <3>1, RowType
    <3> QED
      BY <3>2 DEF AuditRow
  <2> HIDE DEF rows
  <2>2. verdicts \in Seq(Verdicts) /\ DOMAIN verdicts = DOMAIN rows
    BY <2>1 DEF Judgement, Verdicts
  <2> HIDE DEF verdicts
  <2>3. local \in Local /\ local.todo = 1 /\ local.checks = verdicts
    BY <2>2 DEF ControlOK, Local
  <2> HIDE DEF local
  <2>4. Fit("verdict", local)
    BY DEF Fit
  <2>5. CASE rows = <<>>
    <3>1. Then(c, "verdict", local)
      BY <1>22, <2>5 DEF ReadChecks, local, verdicts, rows
    <3>2. ControlOK'
      BY <2>3, <2>4, <3>1, ThenControl DEF Labels
    <3> QED
      BY <1>22, <3>2 DEF ReadChecks, TablesOK, tables
  <2>6. CASE rows # <<>>
    <3>1. Then(c, "judge", local)
      BY <1>22, <2>6 DEF ReadChecks, local, verdicts, rows
    <3>2. Fit("judge", local)
      BY <2>1, <2>2, <2>3, <2>6 DEF Fit
    <3>3. ControlOK'
      BY <2>3, <3>1, <3>2, ThenControl DEF Labels
    <3> QED
      BY <1>22, <3>3 DEF ReadChecks, TablesOK, tables
  <2> QED
    BY <2>5, <2>6
<1>23. ASSUME NEW c \in Clients, JudgeCheck(c) PROVE TypesOK'
  <2> DEFINE a == loc[c].id
             k == loc[c].todo
             verdicts == loc[c].checks
             local == [loc[c] EXCEPT !.todo = k + 1]
             check == [audits[a].checks[k] EXCEPT !.status = verdicts[k]]
             checks == [audits[a].checks EXCEPT ![k] = check]
             row == [audits[a] EXCEPT !.checks = checks]
  <2>1. k \in DOMAIN verdicts /\ verdicts \in Seq(Verdicts) /\ loc[c] \in Local
    BY <1>23 DEF JudgeCheck, ControlOK, Fit, Local
  <2>2. audits \in Seq(AuditRow) /\ audits' = [audits EXCEPT ![a] = row]
    BY <1>23 DEF JudgeCheck, TablesOK
  <2>3. Then(c, IF k = Len(verdicts) THEN "verdict" ELSE "judge", local)
    BY <1>23 DEF JudgeCheck
  <2>4. a \in DOMAIN audits
    BY <1>23 DEF JudgeCheck, EvaluationOK, Evaluating
  <2>5. audits[a] \in AuditRow /\ verdicts[k] \in Verdicts /\ k \in Nat
    BY <2>1, <2>2, <2>4
  <2>6. local \in Local /\ local.todo = k + 1 /\ local.checks = verdicts
    <3>1. k + 1 \in Nat
      BY <2>5
    <3> HIDE DEF k
    <3> QED
      BY <2>1, <3>1 DEF Local
  <2> HIDE DEF local, a, k, verdicts
  <2>7. k \in DOMAIN audits[a].checks => check \in CheckRow
    <3>1. audits[a].checks \in Seq(CheckRow)
      BY <2>5 DEF AuditRow
    <3>2. k \in DOMAIN audits[a].checks => audits[a].checks[k] \in CheckRow
      BY <3>1, RowType
    <3> QED
      BY <2>5, <3>2 DEF CheckRow
  <2>8. checks \in Seq(CheckRow)
    <3>1. audits[a].checks \in Seq(CheckRow)
      BY <2>5 DEF AuditRow
    <3> HIDE DEF check
    <3> QED
      BY <2>7, <3>1, UpdateType
  <2> HIDE DEF checks
  <2>9. row \in AuditRow
    BY <2>5, <2>8 DEF AuditRow
  <2> HIDE DEF row
  <2>10. audits' \in Seq(AuditRow)
    BY <2>2, <2>9, UpdateType
  <2>11. Fit("verdict", local) /\ (k # Len(verdicts) => Fit("judge", local))
    BY <2>1, <2>6 DEF Fit
  <2>12. ControlOK'
    BY <2>3, <2>6, <2>11, ThenControl DEF Labels
  <2> QED
    BY <1>23, <2>10, <2>12 DEF JudgeCheck, TablesOK
<1>24. ASSUME NEW c \in Clients, WriteVerdict(c) PROVE TypesOK'
  <2> DEFINE a == loc[c].id
             overall == Overall(loc[c].checks, audits[a].revision # loc[c].revision)
             row == [audits[a] EXCEPT !.status = overall]
  <2>1. overall \in Verdicts
    BY DEF Overall, Verdicts
  <2>2. audits \in Seq(AuditRow) /\ audits' = [audits EXCEPT ![a] = row]
    BY <1>24 DEF WriteVerdict, TablesOK
  <2>3. Then(c, "tip", NoLocals) \/ Over(c)
    BY <1>24 DEF WriteVerdict
  <2> HIDE DEF a, overall
  <2>4. a \in DOMAIN audits => row \in AuditRow
    <3>1. a \in DOMAIN audits => audits[a] \in AuditRow
      BY <2>2, RowType
    <3> QED
      BY <2>1, <3>1 DEF AuditRow
  <2> HIDE DEF row
  <2>5. audits' \in Seq(AuditRow)
    BY <2>2, <2>4, UpdateType
  <2>6. ControlOK'
    BY <2>3, ThenControl, OverControl, NoLocalsType DEF Labels, Fit
  <2> QED
    BY <1>24, <2>5, <2>6 DEF WriteVerdict, TablesOK
<1>25. ASSUME NEW c \in Clients, Abandon(c) PROVE TypesOK'
  BY <1>25, OverControl DEF Abandon, TablesOK, tables
<1>26. ASSUME Tick PROVE TypesOK'
  BY <1>26 DEF Tick, TablesOK, ControlOK, tables
<1>27. ASSUME UNCHANGED vars PROVE TypesOK'
  BY <1>27 DEF vars, tables, TablesOK, ControlOK
<1> QED
  BY <1>1, <1>2, <1>3, <1>4, <1>5, <1>6, <1>7, <1>8, <1>9, <1>10, <1>11, <1>12, <1>13, <1>14,
     <1>15, <1>16, <1>17, <1>18, <1>19, <1>20, <1>21, <1>22, <1>23, <1>24, <1>25, <1>26, <1>27
     DEF Next, Step, Quiet

\* Audits are never deleted, and an operation that goes on to evaluate one has
\* found it there.
LEMMA ThenEvaluation ==
  ASSUME TypesOK, EvaluationOK, DOMAIN audits \subseteq DOMAIN audits',
         NEW c \in Clients, NEW label, NEW local, Then(c, label, local),
         label \in Evaluating => local.id \in DOMAIN audits
  PROVE  EvaluationOK'
BY DEF TypesOK, ControlOK, EvaluationOK, Then

LEMMA EvaluationStep == TypeInv /\ [Next]_vars => EvaluationOK'
<1> SUFFICES ASSUME TypeInv, [Next]_vars PROVE EvaluationOK'
  OBVIOUS
<1> USE DEF TypeInv, At, Starting, Evaluating
<1>1. ASSUME NEW c \in Clients, UNCHANGED audits,
             NEW label \in Labels \ Evaluating, NEW local, Then(c, label, local)
      PROVE  EvaluationOK'
  BY <1>1, ThenEvaluation
<1>2. ASSUME UNCHANGED audits, NEW c \in Clients,
             \/ ReadForTransition(c) \/ Gate(c) \/ WriteStatus(c)
             \/ TaskStepAdd(c) \/ ReadStep(c) \/ WriteStep(c)
             \/ ArtifactRegister(c) \/ ReadArtifact(c) \/ WriteArtifact(c)
             \/ Touch(c) \/ SetCurrent(c)
             \/ CheckpointCreate(c) \/ ReadTip(c) \/ InsertCheckpoint(c)
             \/ ReadForAudit(c) \/ RejectCheck(c) \/ Abandon(c)
      PROVE  EvaluationOK'
  <2>1. \E label \in Labels \ Evaluating : \E local : Then(c, label, local)
    BY <1>2
       DEF ReadForTransition, Gate, WriteStatus, TaskStepAdd, ReadStep, WriteStep, AfterTouch,
           ArtifactRegister, ReadArtifact, WriteArtifact, Touch, SetCurrent, CheckpointCreate,
           ReadTip, InsertCheckpoint, ReadForAudit, RejectCheck, Abandon, Over, Labels, Touching
  <2> QED
    BY <1>1, <1>2, <2>1
<1>3. ASSUME NEW c \in Clients, TaskUpdate(c) \/ Tick \/ UNCHANGED vars PROVE EvaluationOK'
  BY <1>3 DEF TaskUpdate, Tick, tables, vars, EvaluationOK
<1>4. ASSUME NEW c \in Clients, InsertAudit(c) PROVE EvaluationOK'
  <2>1. DOMAIN audits \subseteq DOMAIN audits'
    BY <1>4 DEF InsertAudit, TypesOK, TablesOK
  <2>2. \E label \in Labels \ Evaluating : \E local : Then(c, label, local)
    BY <1>4 DEF InsertAudit, Over, Labels
  <2> QED
    BY <2>1, <2>2, ThenEvaluation
<1>5. ASSUME NEW c \in Clients, InsertCheck(c) \/ WriteVerdict(c) PROVE EvaluationOK'
  <2>1. DOMAIN audits = DOMAIN audits'
    BY <1>5 DEF InsertCheck, WriteVerdict, TypesOK, TablesOK
  <2>2. \E label \in Labels \ Evaluating : \E local : Then(c, label, local)
    BY <1>5 DEF InsertCheck, WriteVerdict, Over, Labels
  <2> QED
    BY <2>1, <2>2, ThenEvaluation
<1>6. ASSUME NEW c \in Clients, AuditRecord(c) PROVE EvaluationOK'
  <2>1. DOMAIN audits = DOMAIN audits' /\ UNCHANGED <<pc, loc>>
    BY <1>6 DEF AuditRecord, TypesOK, TablesOK
  <2> QED
    BY <2>1 DEF EvaluationOK
<1>7. ASSUME NEW c \in Clients, ReadForEvaluate(c) PROVE EvaluationOK'
  <2>1. PICK a \in DOMAIN audits :
          Then(c, "checks", [NoLocals EXCEPT !.id = a, !.revision = task.revision])
    BY <1>7 DEF ReadForEvaluate
  <2>2. [NoLocals EXCEPT !.id = a, !.revision = task.revision].id = a
    BY NoLocalsType DEF Local
  <2>3. UNCHANGED audits
    BY <1>7 DEF ReadForEvaluate, tables
  <2> QED
    BY <2>1, <2>2, <2>3, ThenEvaluation
<1>8. ASSUME NEW c \in Clients, ReadChecks(c) \/ JudgeCheck(c) PROVE EvaluationOK'
  <2>1. DOMAIN audits = DOMAIN audits'
    BY <1>8 DEF ReadChecks, JudgeCheck, tables, TypesOK, TablesOK
  <2>2. loc[c].id \in DOMAIN audits /\ loc[c] \in Local
    BY <1>8 DEF ReadChecks, JudgeCheck, EvaluationOK, TypesOK, ControlOK
  <2>3. PICK label, todo, checks :
          \/ Then(c, label, [loc[c] EXCEPT !.todo = todo, !.checks = checks])
          \/ Then(c, label, [loc[c] EXCEPT !.todo = todo])
    BY <1>8 DEF ReadChecks, JudgeCheck
  <2>4. /\ [loc[c] EXCEPT !.todo = todo, !.checks = checks].id = loc[c].id
        /\ [loc[c] EXCEPT !.todo = todo].id = loc[c].id
    BY <2>2 DEF Local
  <2> QED
    BY <2>1, <2>2, <2>3, <2>4, ThenEvaluation
<1>9. ASSUME NEW c \in Clients,
             \/ ReadForTransition(c) \/ Gate(c) \/ WriteStatus(c)
             \/ TaskStepAdd(c) \/ ReadStep(c) \/ WriteStep(c)
             \/ ArtifactRegister(c) \/ ReadArtifact(c) \/ WriteArtifact(c)
             \/ Touch(c) \/ SetCurrent(c)
             \/ CheckpointCreate(c) \/ ReadTip(c) \/ InsertCheckpoint(c)
             \/ ReadForAudit(c) \/ RejectCheck(c) \/ Abandon(c)
      PROVE  UNCHANGED audits
  BY <1>9
     DEF ReadForTransition, Gate, WriteStatus, TaskStepAdd, ReadStep, WriteStep, tables,
         ArtifactRegister, ReadArtifact, WriteArtifact, Touch, SetCurrent, CheckpointCreate,
         ReadTip, InsertCheckpoint, ReadForAudit, RejectCheck, Abandon
<1>10. ASSUME Tick \/ UNCHANGED vars PROVE EvaluationOK'
  BY <1>10 DEF Tick, tables, vars, EvaluationOK
<1> QED
  BY <1>2, <1>3, <1>4, <1>5, <1>6, <1>7, <1>8, <1>9, <1>10 DEF Next, Step, Quiet

----------------------------------------------------------------------------
(***************************************************************************)
(* The checkpoints.                                                        *)
(***************************************************************************)

LEMMA ChainInit == Init => ChainInv
BY DEF Init, ChainInv, OneChain, Chain, Rows, Seqs, At

\* A step that inserts no checkpoint and does not go to insert one.
LEMMA QuietChain ==
  ASSUME ChainInv, UNCHANGED log,
         \A c \in Clients : pc'[c] = "checkpoint" => pc[c] = "checkpoint" /\ loc'[c] = loc[c]
  PROVE  ChainInv'
BY DEF ChainInv, OneChain, At

LEMMA ThenChain ==
  ASSUME TypesOK, ChainInv, UNCHANGED log, NEW c \in Clients,
         NEW label \in Labels \ {"checkpoint"}, NEW local, Then(c, label, local)
  PROVE  ChainInv'
BY QuietChain DEF Then, TypesOK, ControlOK

LEMMA ChainStep == TypeInv /\ ChainInv /\ [Next]_vars => ChainInv'
<1> SUFFICES ASSUME TypeInv, ChainInv, [Next]_vars PROVE ChainInv'
  OBVIOUS
<1> USE DEF TypeInv, At, Starting
<1>1. ASSUME NEW c \in Clients,
             \/ ReadForTransition(c) \/ Gate(c) \/ WriteStatus(c)
             \/ TaskStepAdd(c) \/ ReadStep(c) \/ WriteStep(c)
             \/ ArtifactRegister(c) \/ ReadArtifact(c) \/ WriteArtifact(c)
             \/ Touch(c) \/ SetCurrent(c) \/ CheckpointCreate(c)
             \/ ReadForAudit(c) \/ InsertAudit(c) \/ InsertCheck(c) \/ RejectCheck(c)
             \/ ReadForEvaluate(c) \/ ReadChecks(c) \/ JudgeCheck(c) \/ WriteVerdict(c)
             \/ Abandon(c)
      PROVE  ChainInv'
  <2>1. \E label \in Labels \ {"checkpoint"} : \E local : Then(c, label, local)
    BY <1>1
       DEF ReadForTransition, Gate, WriteStatus, TaskStepAdd, ReadStep, WriteStep, AfterTouch,
           ArtifactRegister, ReadArtifact, WriteArtifact, Touch, SetCurrent, CheckpointCreate,
           ReadForAudit, InsertAudit, InsertCheck, RejectCheck, ReadForEvaluate, ReadChecks,
           JudgeCheck, WriteVerdict, Abandon, Over, Labels, Touching
  <2>2. UNCHANGED log
    BY <1>1
       DEF ReadForTransition, Gate, WriteStatus, TaskStepAdd, ReadStep, WriteStep, tables,
           ArtifactRegister, ReadArtifact, WriteArtifact, Touch, SetCurrent, CheckpointCreate,
           ReadForAudit, InsertAudit, InsertCheck, RejectCheck, ReadForEvaluate, ReadChecks,
           JudgeCheck, WriteVerdict, Abandon
  <2> QED
    BY <2>1, <2>2, ThenChain
<1>2. ASSUME NEW c \in Clients, TaskUpdate(c) \/ AuditRecord(c) PROVE ChainInv'
  BY <1>2, QuietChain DEF TaskUpdate, AuditRecord
<1>3. ASSUME NEW c \in Clients, ReadTip(c) PROVE ChainInv'
  <2> DEFINE local == [NoLocals EXCEPT !.tip = Tip(log, "task")]
  <2>1. local.tip = Tip(log, "task")
    BY NoLocalsType DEF Local
  <2>2. OnceTip(log, "task", local.tip)
    BY <2>1, TipOnChain DEF ChainInv, OneChain
  <2> HIDE DEF local
  <2>3. loc'[c] = local /\ UNCHANGED log
    BY <1>3 DEF ReadTip, Then, TypesOK, ControlOK, tables, local
  <2>4. \A d \in Clients : d # c => pc'[d] = pc[d] /\ loc'[d] = loc[d]
    BY <1>3 DEF ReadTip, Then, TypesOK, ControlOK
  <2> QED
    BY <2>2, <2>3, <2>4 DEF ChainInv, OneChain
<1>4. ASSUME NEW c \in Clients, InsertCheckpoint(c) PROVE ChainInv'
  <2>1. CASE UNCHANGED log
    BY <1>4, <2>1, ThenChain DEF InsertCheckpoint, Over, Labels
  <2>2. CASE log' # log
    <3>1. PICK id : log' = log \cup {Entry("task", loc[c].tip, id, "snapshot")}
      BY <1>4, <2>2 DEF InsertCheckpoint
    <3>2. Fits(log, "task", loc[c].tip) /\ OnceTip(log, "task", loc[c].tip)
      BY <1>4, <2>2 DEF InsertCheckpoint, ChainInv
    <3>3. Chain(log', "task")
      BY <3>1, <3>2, ChainExtends DEF ChainInv, OneChain
    <3>4. log \subseteq log'
      BY <3>1
    <3>5. ASSUME NEW d \in Clients, pc'[d] = "checkpoint"
          PROVE  OnceTip(log', "task", loc'[d].tip)
      <4>1. pc[d] = "checkpoint" /\ loc'[d] = loc[d]
        BY <1>4, <3>5 DEF InsertCheckpoint, Over, Then, TypesOK, ControlOK
      <4>2. OnceTip(log, "task", loc[d].tip)
        BY <4>1 DEF ChainInv
      <4> QED
        BY <3>4, <4>1, <4>2, TipStays
    <3> QED
      BY <3>3, <3>5 DEF ChainInv, OneChain
  <2> QED
    BY <2>1, <2>2
<1>5. ASSUME Tick \/ UNCHANGED vars PROVE ChainInv'
  BY <1>5, QuietChain DEF Tick, tables, vars
<1> QED
  BY <1>1, <1>2, <1>3, <1>4, <1>5 DEF Next, Step, Quiet

LEMMA TypeAndChainStep ==
  TypeInv /\ ChainInv /\ [Next]_vars => (TypeInv /\ ChainInv)'
BY TypesStep, EvaluationStep, ChainStep DEF TypeInv

\* The tables and the operations keep their types.
THEOREM WorkTypeCorrect == Spec => []TypeOK
<1>1. Init => TypeInv /\ ChainInv
  BY TypeInit, ChainInit
<1>2. TypeInv => TypeOK
  BY TypeImplies
<1> QED
  BY <1>1, <1>2, TypeAndChainStep, PTL DEF Spec

\* The checkpoints of the task form one gap-free chain, whichever operations
\* write them and whoever races whom.
THEOREM WorkCheckpointsFormOneChain == Spec => []OneChain
<1>1. Init => TypeInv /\ ChainInv
  BY TypeInit, ChainInit
<1>2. ChainInv => OneChain
  BY DEF ChainInv
<1> QED
  BY <1>1, <1>2, TypeAndChainStep, PTL DEF Spec

----------------------------------------------------------------------------
(***************************************************************************)
(* The revision fences audits.                                             *)
(***************************************************************************)

\* What holds of an audit, and of one that is about to be inserted: its
\* revision is not ahead, and stands for what the task consists of.
Fenced(revision, material) ==
  /\ revision <= task.revision
  /\ revision = task.revision /\ Settled => material = Material

FenceInv ==
  /\ \A a \in DOMAIN audits : Fenced(audits[a].revision, audits[a].material)
  /\ \A c \in Clients : pc[c] = "audit" => Fenced(loc[c].revision, loc[c].material)

LEMMA FenceInit == Init => FenceInv
BY DEF Init, FenceInv

\* Steps that leave the task as it is, and those that change it: each of these
\* bumps the revision or leaves its client before touchTaskRevision.
LEMMA StillFenced ==
  ASSUME TypesOK, TypesOK', NEW revision \in Nat, NEW material, Fenced(revision, material),
         \/ UNCHANGED <<Material, task.revision>> /\ (Settled' => Settled)
         \/ task'.revision = task.revision + 1
         \/ task'.revision = task.revision /\ ~Settled'
  PROVE  Fenced(revision, material)'
<1>1. task.revision \in Nat /\ task'.revision \in Nat
  BY DEF TypesOK, TablesOK
<1> QED
  BY <1>1 DEF Fenced

LEMMA FenceKept ==
  ASSUME TypesOK, TypesOK', FenceInv,
         \/ UNCHANGED <<Material, task.revision>> /\ (Settled' => Settled)
         \/ task'.revision = task.revision + 1
         \/ task'.revision = task.revision /\ ~Settled',
         \A a \in DOMAIN audits' :
           \/ /\ a \in DOMAIN audits
              /\ audits'[a].revision = audits[a].revision
              /\ audits'[a].material = audits[a].material
           \/ \E c \in Clients : /\ pc[c] = "audit"
                                /\ audits'[a].revision = loc[c].revision
                                /\ audits'[a].material = loc[c].material,
         \A c \in Clients : pc'[c] = "audit" =>
           \/ pc[c] = "audit" /\ loc'[c] = loc[c]
           \/ Fenced(loc[c].revision, loc[c].material)'
  PROVE  FenceInv'
<1>1. \A a \in DOMAIN audits : audits[a].revision \in Nat
  <2>1. \A a \in DOMAIN audits : audits[a] \in AuditRow
    BY RowType DEF TypesOK, TablesOK
  <2> QED
    BY <2>1 DEF AuditRow
<1>2. \A c \in Clients : loc[c].revision \in Nat
  BY DEF TypesOK, ControlOK, Local
<1>3. ASSUME NEW a \in DOMAIN audits'
      PROVE  Fenced(audits[a].revision, audits[a].material)'
  <2>1. PICK revision, material :
          /\ revision \in Nat
          /\ Fenced(revision, material)
          /\ audits'[a].revision = revision /\ audits'[a].material = material
    BY <1>1, <1>2, <1>3 DEF FenceInv
  <2>2. Fenced(revision, material)'
    BY <2>1, StillFenced
  <2> QED
    BY <2>1, <2>2 DEF Fenced
<1>4. ASSUME NEW c \in Clients, pc'[c] = "audit"
      PROVE  Fenced(loc[c].revision, loc[c].material)'
  <2>1. CASE pc[c] = "audit" /\ loc'[c] = loc[c]
    <3>1. Fenced(loc[c].revision, loc[c].material)
      BY <2>1 DEF FenceInv
    <3>2. loc[c].revision \in Nat
      BY <1>2
    <3> QED
      BY <2>1, <3>1, <3>2, StillFenced DEF Fenced
  <2> QED
    BY <1>4, <2>1
<1> QED
  BY <1>3, <1>4 DEF FenceInv

\* A step that writes no audit and goes elsewhere than to insert one.
LEMMA ThenFence ==
  ASSUME TypesOK, TypesOK', FenceInv, UNCHANGED audits,
         NEW c \in Clients, NEW label, NEW local, label # "audit", Then(c, label, local),
         \/ UNCHANGED <<Material, task.revision, task.torn>> /\ pc[c] \notin Touching
         \/ task'.revision = task.revision + 1
         \/ task'.revision = task.revision /\ label \in Touching
  PROVE  FenceInv'
<1>1. /\ pc'[c] = label
      /\ \A d \in Clients : d # c => pc'[d] = pc[d] /\ loc'[d] = loc[d]
  BY DEF Then, TypesOK, ControlOK
<1>2. \/ UNCHANGED <<Material, task.revision>> /\ (Settled' => Settled)
      \/ task'.revision = task.revision + 1
      \/ task'.revision = task.revision /\ ~Settled'
  BY <1>1 DEF Settled
<1> QED
  BY <1>1, <1>2, FenceKept

LEMMA FenceStep == TypeInv /\ TypeInv' /\ FenceInv /\ [Next]_vars => FenceInv'
<1> SUFFICES ASSUME TypeInv, TypeInv', FenceInv, [Next]_vars PROVE FenceInv'
  OBVIOUS
<1> USE DEF TypeInv, At, Starting, Touching
<1>1. ASSUME NEW c \in Clients,
             \/ ReadForTransition(c) \/ Gate(c) \/ ReadStep(c) \/ ReadArtifact(c)
             \/ CheckpointCreate(c) \/ ReadTip(c) \/ InsertCheckpoint(c)
             \/ RejectCheck(c) \/ ReadForEvaluate(c) \/ ReadChecks(c)
      PROVE  FenceInv'
  <2>1. \E label, local : label # "audit" /\ Then(c, label, local)
    BY <1>1
       DEF ReadForTransition, Gate, ReadStep, ReadArtifact, CheckpointCreate, ReadTip,
           InsertCheckpoint, RejectCheck, ReadForEvaluate, ReadChecks, Over
  <2>2. UNCHANGED <<task, steps, artifacts, audits>> /\ pc[c] \notin Touching
    BY <1>1
       DEF ReadForTransition, Gate, ReadStep, ReadArtifact, CheckpointCreate, ReadTip, tables,
           InsertCheckpoint, RejectCheck, ReadForEvaluate, ReadChecks
  <2> QED
    BY <2>1, <2>2, ThenFence DEF Material
<1>2. ASSUME NEW c \in Clients, WriteStatus(c) \/ SetCurrent(c) PROVE FenceInv'
  <2>1. Over(c) /\ UNCHANGED <<steps, artifacts, audits>> /\ pc[c] \notin Touching
    BY <1>2 DEF WriteStatus, SetCurrent
  <2>2. /\ task'.required = task.required /\ task'.revision = task.revision
        /\ task'.torn = task.torn
    BY <1>2 DEF WriteStatus, SetCurrent, TypesOK, TablesOK
  <2> QED
    BY <2>1, <2>2, ThenFence DEF Over, Material
<1>3. ASSUME NEW c \in Clients, TaskUpdate(c) PROVE FenceInv'
  <2>1. task'.revision = task.revision + 1
    BY <1>3 DEF TaskUpdate, TypesOK, TablesOK
  <2> QED
    BY <1>3, <2>1, FenceKept DEF TaskUpdate
<1>4. ASSUME NEW c \in Clients,
             TaskStepAdd(c) \/ WriteStep(c) \/ ArtifactRegister(c) \/ WriteArtifact(c)
      PROVE  FenceInv'
  <2>1. \E label \in Touching : \E local : Then(c, label, local)
    BY <1>4 DEF TaskStepAdd, WriteStep, ArtifactRegister, WriteArtifact, AfterTouch
  <2>2. UNCHANGED <<task, audits>>
    BY <1>4 DEF TaskStepAdd, WriteStep, ArtifactRegister, WriteArtifact
  <2> QED
    BY <2>1, <2>2, ThenFence
<1>5. ASSUME NEW c \in Clients, Touch(c) PROVE FenceInv'
  <2>1. \E label, local : label # "audit" /\ Then(c, label, local)
    BY <1>5 DEF Touch, Over
  <2>2. task'.revision = task.revision + 1 /\ UNCHANGED audits
    BY <1>5 DEF Touch, TypesOK, TablesOK
  <2> QED
    BY <2>1, <2>2, ThenFence
<1>6. ASSUME NEW c \in Clients, ReadForAudit(c) PROVE FenceInv'
  <2>1. PICK n \in 0 .. MaxChecks :
          Then(c, "audit", [NoLocals EXCEPT !.revision = task.revision, !.stamp = clock,
                                            !.todo = n, !.material = Material,
                                            !.before = Len(audits)])
    BY <1>6 DEF ReadForAudit
  <2> DEFINE local == [NoLocals EXCEPT !.revision = task.revision, !.stamp = clock,
                                       !.todo = n, !.material = Material,
                                       !.before = Len(audits)]
  <2>2. local.revision = task.revision /\ local.material = Material
    BY NoLocalsType DEF Local
  <2> HIDE DEF local
  <2>3. UNCHANGED <<task, steps, artifacts, audits>> /\ pc[c] = "idle"
    BY <1>6 DEF ReadForAudit, tables
  <2>4. /\ loc'[c] = local /\ pc'[c] = "audit"
        /\ \A d \in Clients : d # c => pc'[d] = pc[d] /\ loc'[d] = loc[d]
    BY <2>1 DEF Then, TypesOK, ControlOK, local
  <2>5. Settled' => Settled
    BY <2>3, <2>4 DEF Settled
  <2>6. Fenced(loc[c].revision, loc[c].material)'
    <3>1. task'.revision \in Nat
      BY DEF TypesOK, TablesOK
    <3> QED
      BY <2>2, <2>3, <2>4, <3>1 DEF Fenced, Material
  <2> QED
    BY <2>3, <2>4, <2>5, <2>6, FenceKept DEF Material
<1>7. ASSUME NEW c \in Clients, InsertAudit(c) PROVE FenceInv'
  <2> DEFINE row == [status |-> "UNCERTAIN", revision |-> loc[c].revision,
                     created |-> loc[c].stamp, checks |-> <<>>,
                     material |-> loc[c].material, before |-> loc[c].before]
  <2>1. audits \in Seq(AuditRow) /\ audits' = Append(audits, row)
    BY <1>7 DEF InsertAudit, TypesOK, TablesOK
  <2>2. row.revision = loc[c].revision /\ row.material = loc[c].material
    OBVIOUS
  <2> HIDE DEF row
  <2>3. \A a \in DOMAIN audits' :
          (a \in DOMAIN audits /\ audits'[a] = audits[a]) \/ audits'[a] = row
    BY <2>1
  <2>4. \E label, local : label \notin Touching \cup {"audit"} /\ Then(c, label, local)
    BY <1>7 DEF InsertAudit, Over
  <2>5. /\ pc'[c] # "audit" /\ pc[c] = "audit"
        /\ \A d \in Clients : d # c => pc'[d] = pc[d] /\ loc'[d] = loc[d]
    BY <1>7, <2>4 DEF InsertAudit, Then, TypesOK, ControlOK
  <2>6. UNCHANGED <<task, steps, artifacts>> /\ (Settled' => Settled)
    BY <1>7, <2>5 DEF InsertAudit, Settled
  <2> QED
    BY <2>2, <2>3, <2>5, <2>6, FenceKept DEF Material
<1>8. ASSUME NEW c \in Clients,
             InsertCheck(c) \/ AuditRecord(c) \/ JudgeCheck(c) \/ WriteVerdict(c)
      PROVE  FenceInv'
  <2>1. \A a \in DOMAIN audits' :
          /\ a \in DOMAIN audits
          /\ audits'[a].revision = audits[a].revision
          /\ audits'[a].material = audits[a].material
    <3>1. audits \in Seq(AuditRow) /\ \A a \in DOMAIN audits : audits[a] \in AuditRow
      BY RowType DEF TypesOK, TablesOK
    <3>2. PICK a, checks, status :
            \/ audits' = [audits EXCEPT ![a] = [@ EXCEPT !.checks = checks]]
            \/ audits' = [audits EXCEPT ![a] = [@ EXCEPT !.status = status]]
      BY <1>8 DEF InsertCheck, AuditRecord, JudgeCheck, WriteVerdict
    <3> QED
      BY <3>1, <3>2 DEF AuditRow
  <2>2. UNCHANGED <<task, steps, artifacts>> /\ pc[c] \notin Touching
    BY <1>8 DEF InsertCheck, AuditRecord, JudgeCheck, WriteVerdict
  <2>3. \A d \in Clients : d # c => pc'[d] = pc[d] /\ loc'[d] = loc[d]
    BY <1>8
       DEF InsertCheck, AuditRecord, JudgeCheck, WriteVerdict, Over, Then, TypesOK, ControlOK
  <2>4. pc'[c] = "audit" => pc[c] = "audit" /\ loc'[c] = loc[c]
    BY <1>8
       DEF InsertCheck, AuditRecord, JudgeCheck, WriteVerdict, Over, Then, TypesOK, ControlOK
  <2>5. Settled' => Settled
    BY <2>2, <2>3 DEF Settled
  <2> QED
    BY <2>1, <2>2, <2>3, <2>4, <2>5, FenceKept DEF Material
<1>9. ASSUME NEW c \in Clients, Abandon(c) PROVE FenceInv'
  <2>1. Over(c) /\ UNCHANGED <<steps, artifacts, audits>>
    BY <1>9 DEF Abandon
  <2>2. /\ pc'[c] = "idle"
        /\ \A d \in Clients : d # c => pc'[d] = pc[d] /\ loc'[d] = loc[d]
    BY <2>1 DEF Over, Then, TypesOK, ControlOK
  <2>3. task'.required = task.required /\ task'.revision = task.revision
    BY <1>9 DEF Abandon, TypesOK, TablesOK
  <2>4. UNCHANGED <<Material, task.revision>>
    BY <2>1, <2>3 DEF Material
  <2>5. CASE pc[c] \in Touching
    <3>1. task'.torn = task'.revision
      BY <1>9, <2>3, <2>5 DEF Abandon, TypesOK, TablesOK
    <3> QED
      BY <2>1, <2>2, <2>3, <3>1, FenceKept DEF Settled
  <2>6. CASE pc[c] \notin Touching
    <3>1. task' = task
      BY <1>9, <2>6 DEF Abandon
    <3>2. Settled' => Settled
      BY <2>2, <2>6, <3>1 DEF Settled
    <3> QED
      BY <2>1, <2>2, <2>4, <3>2, FenceKept
  <2> QED
    BY <2>5, <2>6
<1>10. ASSUME Tick \/ UNCHANGED vars PROVE FenceInv'
  <2>1. UNCHANGED <<task, steps, artifacts, audits, pc, loc>>
    BY <1>10 DEF Tick, tables, vars
  <2> QED
    BY <2>1 DEF FenceInv, Fenced, Settled, Material
<1> QED
  BY <1>1, <1>2, <1>3, <1>4, <1>5, <1>6, <1>7, <1>8, <1>9, <1>10 DEF Next, Step, Quiet

\* For any number of clients, whoever races whom and whatever statement fails, an
\* audit of the current revision was created for exactly what the task consists
\* of now, unless a change still lacks its touchTaskRevision.
THEOREM ChangesAreFenced == Spec => []RevisionFences
<1>1. Init => TypeInv /\ ChainInv /\ FenceInv
  BY TypeInit, ChainInit, FenceInit
<1>2. TypeInv /\ ChainInv /\ FenceInv /\ [Next]_vars => (TypeInv /\ ChainInv /\ FenceInv)'
  BY TypeAndChainStep, FenceStep
<1>3. FenceInv => RevisionFences
  BY DEF FenceInv, Fenced, Settled, RevisionFences
<1> QED
  BY <1>1, <1>2, <1>3, PTL DEF Spec
----------------------------------------------------------------------------
(***************************************************************************)
(* The latest audit.                                                       *)
(***************************************************************************)

\* Audit w comes first when rows are ordered as LatestAudit orders them.
Wins(rows, w) ==
  \A b \in DOMAIN rows :
    \/ rows[b].created < rows[w].created
    \/ rows[b].created = rows[w].created /\ b <= w

\* Whoever took this stamp when there were so many audits is no earlier than they.
Stamped(stamp, before) ==
  /\ stamp <= clock
  /\ before <= Len(audits)
  /\ \A b \in DOMAIN audits : b <= before => audits[b].created <= stamp

\* Some audit wins; each audit, created or under creation, is no earlier than those
\* that were there when its creation began.
LateInv ==
  /\ audits # <<>> => \E w \in DOMAIN audits : Wins(audits, w)
  /\ \A a \in DOMAIN audits :
       audits[a].before < a /\ Stamped(audits[a].created, audits[a].before)
  /\ \A c \in Clients : pc[c] = "audit" => Stamped(loc[c].stamp, loc[c].before)

LEMMA LateInit == Init => LateInv
BY DEF Init, LateInv

\* The winner is what LatestAudit chooses.
LEMMA LatestWins ==
  ASSUME audits # <<>>, NEW w \in DOMAIN audits, Wins(audits, w)
  PROVE  LatestAudit(audits) \in DOMAIN audits /\ Wins(audits, LatestAudit(audits))
BY DEF LatestAudit, Wins

LEMMA LateImplies == ASSUME TypesOK, LateInv PROVE LaterAuditWins
<1> SUFFICES ASSUME NEW a \in DOMAIN audits PROVE audits[a].before < LatestAudit(audits)
  BY DEF LaterAuditWins
<1> DEFINE w == LatestAudit(audits)
<1>1. audits \in Seq(AuditRow) /\ audits # <<>>
  BY DEF TypesOK, TablesOK
<1>2. w \in DOMAIN audits /\ Wins(audits, w)
  BY <1>1, LatestWins DEF LateInv
<1> HIDE DEF w
<1>3. audits[a] \in AuditRow /\ audits[w] \in AuditRow /\ a \in Nat /\ w \in Nat
  BY <1>1, <1>2, RowType
<1>4. /\ audits[a].before \in Nat /\ audits[a].created \in Nat /\ audits[w].created \in Nat
  BY <1>3 DEF AuditRow
<1>5. audits[a].before < a /\ (w <= audits[a].before => audits[w].created <= audits[a].created)
  BY <1>2 DEF LateInv, Stamped
<1>6. audits[a].created < audits[w].created \/ (audits[a].created = audits[w].created /\ a <= w)
  BY <1>2 DEF Wins
<1>7. audits[a].before < w
  BY <1>3, <1>4, <1>5, <1>6
<1> QED
  BY <1>7 DEF w

LEMMA AuditNumbers ==
  ASSUME TypesOK
  PROVE  /\ \A a \in DOMAIN audits :
              a \in Nat /\ audits[a].created \in Nat /\ audits[a].before \in Nat
         /\ \A c \in Clients : loc[c].stamp \in Nat /\ loc[c].before \in Nat
<1>1. audits \in Seq(AuditRow) /\ \A a \in DOMAIN audits : audits[a] \in AuditRow
  BY RowType DEF TypesOK, TablesOK
<1>2. \A c \in Clients : loc[c] \in Local
  BY DEF TypesOK, ControlOK
<1> QED
  BY <1>1, <1>2 DEF AuditRow, Local

\* Steps that create no audit, and begin no creation of one.
LEMMA LateKept ==
  ASSUME TypesOK, TypesOK', LateInv,
         clock <= clock', DOMAIN audits' = DOMAIN audits,
         \A a \in DOMAIN audits :
           audits'[a].created = audits[a].created /\ audits'[a].before = audits[a].before,
         \A c \in Clients :
           pc'[c] = "audit" => \/ pc[c] = "audit" /\ loc'[c] = loc[c]
                               \/ Stamped(loc[c].stamp, loc[c].before)'
  PROVE  LateInv'
<1>1. audits' # <<>> => \E w \in DOMAIN audits' : Wins(audits', w)
  <2>1. audits' # <<>> => audits # <<>>
    BY DEF TypesOK, TablesOK
  <2>2. \A w \in DOMAIN audits : Wins(audits, w) => Wins(audits', w)
    BY DEF Wins
  <2> QED
    BY <2>1, <2>2 DEF LateInv
<1>2. ASSUME NEW a \in DOMAIN audits'
      PROVE  (audits[a].before < a /\ Stamped(audits[a].created, audits[a].before))'
  <2>1. a \in DOMAIN audits /\ audits[a].created \in Nat /\ audits[a].before \in Nat
    BY <1>2, AuditNumbers
  <2>2. Stamped(audits[a].created, audits[a].before) /\ audits[a].before < a
    BY <2>1 DEF LateInv
  <2> DEFINE stamp == audits[a].created
             before == audits[a].before
  <2>3. stamp \in Nat /\ before \in Nat /\ Stamped(stamp, before)
    BY <2>1, <2>2
  <2>4. audits'[a].created = audits[a].created /\ audits'[a].before = audits[a].before
    BY <2>1
  <2>5. /\ audits[a].created <= clock'
        /\ audits[a].before <= Len(audits')
        /\ \A b \in DOMAIN audits' :
             b <= audits[a].before => audits'[b].created <= audits[a].created
    <3>1. clock \in Nat /\ clock' \in Nat /\ Len(audits') = Len(audits)
      BY DEF TypesOK, TablesOK
    <3> QED
      BY <2>1, <2>2, <3>1 DEF Stamped
  <2> QED
    BY <2>2, <2>4, <2>5 DEF Stamped
<1>3. ASSUME NEW c \in Clients, pc'[c] = "audit" PROVE Stamped(loc[c].stamp, loc[c].before)'
  <2>1. CASE pc[c] = "audit" /\ loc'[c] = loc[c]
    <3>1. /\ loc[c].stamp \in Nat /\ loc[c].before \in Nat
          /\ Stamped(loc[c].stamp, loc[c].before)
      BY <2>1, AuditNumbers DEF LateInv
    <3>2. clock \in Nat /\ clock' \in Nat /\ Len(audits') = Len(audits)
      BY DEF TypesOK, TablesOK
    <3>3. /\ loc[c].stamp <= clock'
          /\ loc[c].before <= Len(audits')
          /\ \A b \in DOMAIN audits' : b <= loc[c].before => audits'[b].created <= loc[c].stamp
      BY <3>1, <3>2 DEF Stamped
    <3> QED
      BY <2>1, <3>3 DEF Stamped
  <2> QED
    BY <1>3, <2>1
<1> QED
  BY <1>1, <1>2, <1>3 DEF LateInv

LEMMA LateStep == TypeInv /\ TypeInv' /\ LateInv /\ [Next]_vars => LateInv'
<1> SUFFICES ASSUME TypesOK, TypesOK', LateInv, [Next]_vars PROVE LateInv'
  BY DEF TypeInv
<1>c. clock \in Nat /\ clock' \in Nat
  BY DEF TypesOK, TablesOK
\* Audits stay, and the client's next statement is no INSERT of an audit.
<1>1. ASSUME NEW c \in Clients, UNCHANGED <<audits, clock>>,
             \E label, local : label # "audit" /\ Then(c, label, local)
      PROVE  LateInv'
  <2>1. /\ pc'[c] # "audit"
        /\ \A d \in Clients : d # c => pc'[d] = pc[d] /\ loc'[d] = loc[d]
    BY <1>1 DEF Then, TypesOK, ControlOK
  <2> QED
    BY <1>1, <1>c, <2>1, LateKept
<1>2. ASSUME NEW c \in Clients,
             \/ ReadForTransition(c) \/ Gate(c) \/ WriteStatus(c) \/ TaskStepAdd(c) \/ ReadStep(c)
             \/ WriteStep(c) \/ ArtifactRegister(c) \/ ReadArtifact(c) \/ WriteArtifact(c)
             \/ Touch(c) \/ SetCurrent(c)
      PROVE  LateInv'
  <2>1. UNCHANGED <<audits, clock>>
    BY <1>2 DEF ReadForTransition, Gate, WriteStatus, TaskStepAdd, ReadStep, WriteStep,
                ArtifactRegister, ReadArtifact, WriteArtifact, Touch, SetCurrent, tables
  <2>2. \E label, local : label # "audit" /\ Then(c, label, local)
    BY <1>2 DEF ReadForTransition, Gate, WriteStatus, TaskStepAdd, ReadStep, WriteStep,
                ArtifactRegister, ReadArtifact, WriteArtifact, Touch, SetCurrent, AfterTouch, Over
  <2> QED
    BY <1>1, <2>1, <2>2
<1>3. ASSUME NEW c \in Clients,
             \/ CheckpointCreate(c) \/ ReadTip(c) \/ InsertCheckpoint(c) \/ RejectCheck(c)
             \/ ReadForEvaluate(c) \/ ReadChecks(c) \/ Abandon(c)
      PROVE  LateInv'
  <2>1. UNCHANGED <<audits, clock>>
    BY <1>3 DEF CheckpointCreate, ReadTip, InsertCheckpoint, RejectCheck, ReadForEvaluate,
                ReadChecks, Abandon, tables
  <2>2. \E label, local : label # "audit" /\ Then(c, label, local)
    BY <1>3 DEF CheckpointCreate, ReadTip, InsertCheckpoint, RejectCheck, ReadForEvaluate,
                ReadChecks, Abandon, Over
  <2> QED
    BY <1>1, <2>1, <2>2
<1>4. ASSUME NEW c \in Clients, TaskUpdate(c) PROVE LateInv'
  BY <1>4, <1>c, LateKept DEF TaskUpdate
<1>5. ASSUME NEW c \in Clients, ReadForAudit(c) PROVE LateInv'
  <2>1. PICK n \in 0 .. MaxChecks :
          Then(c, "audit", [NoLocals EXCEPT !.revision = task.revision, !.stamp = clock,
                                            !.todo = n, !.material = Material,
                                            !.before = Len(audits)])
    BY <1>5 DEF ReadForAudit
  <2> DEFINE local == [NoLocals EXCEPT !.revision = task.revision, !.stamp = clock,
                                       !.todo = n, !.material = Material,
                                       !.before = Len(audits)]
  <2>2. local.stamp = clock /\ local.before = Len(audits)
    BY NoLocalsType DEF Local
  <2> HIDE DEF local
  <2>3. /\ loc'[c] = local
        /\ \A d \in Clients : d # c => pc'[d] = pc[d] /\ loc'[d] = loc[d]
    BY <2>1 DEF Then, TypesOK, ControlOK, local
  <2>4. UNCHANGED <<audits, clock>>
    BY <1>5 DEF ReadForAudit, tables
  <2>5. Stamped(loc[c].stamp, loc[c].before)'
    <3>1. Len(audits) \in Nat
      BY DEF TypesOK, TablesOK
    <3>2. \A b \in DOMAIN audits : audits[b].created <= clock
      BY DEF LateInv, Stamped
    <3> QED
      BY <1>c, <2>2, <2>3, <2>4, <3>1, <3>2 DEF Stamped
  <2> QED
    BY <1>c, <2>3, <2>4, <2>5, LateKept
<1>6. ASSUME NEW c \in Clients, InsertAudit(c) PROVE LateInv'
  <2> DEFINE row == [status |-> "UNCERTAIN", revision |-> loc[c].revision,
                     created |-> loc[c].stamp, checks |-> <<>>,
                     material |-> loc[c].material, before |-> loc[c].before]
             n == Len(audits)
  <2>1. audits \in Seq(AuditRow) /\ audits' = Append(audits, row) /\ clock' = clock
    BY <1>6 DEF InsertAudit, TypesOK, TablesOK
  <2>2. row.created = loc[c].stamp /\ row.before = loc[c].before
    OBVIOUS
  <2> HIDE DEF row
  <2>3. /\ n \in Nat /\ DOMAIN audits = 1 .. n /\ DOMAIN audits' = 1 .. n + 1
        /\ Len(audits') = n + 1 /\ audits'[n + 1] = row
        /\ \A a \in 1 .. n : audits'[a] = audits[a]
    BY <2>1
  <2> HIDE DEF n
  <2>4. row.created \in Nat /\ row.before \in Nat
    BY <2>2, AuditNumbers
  <2>5. \A a \in 1 .. n : audits[a].created \in Nat /\ audits[a].before \in Nat
    BY <2>3, AuditNumbers
  <2>6. /\ row.created <= clock /\ row.before <= n
        /\ \A b \in 1 .. n : b <= row.before => audits[b].created <= row.created
    BY <1>6, <2>2, <2>3 DEF InsertAudit, At, LateInv, Stamped, n
  <2>7. \E w \in DOMAIN audits' : Wins(audits', w)
    <3>1. CASE \A b \in 1 .. n : audits[b].created <= row.created
      <4>1. Wins(audits', n + 1)
        BY <2>3, <2>4, <2>5, <3>1 DEF Wins
      <4> QED
        BY <2>3, <4>1
    <3>2. CASE \E b \in 1 .. n : ~(audits[b].created <= row.created)
      <4>1. PICK b \in 1 .. n : ~(audits[b].created <= row.created)
        BY <3>2
      <4>2. audits # <<>>
        BY <2>3, <4>1
      <4>3. PICK w \in 1 .. n : Wins(audits, w)
        BY <2>3, <4>2 DEF LateInv
      <4>4. row.created < audits[w].created
        BY <2>3, <2>4, <2>5, <4>1, <4>3 DEF Wins
      <4>5. Wins(audits', w)
        BY <2>3, <4>3, <4>4 DEF Wins
      <4> QED
        BY <2>3, <4>3, <4>5
    <3> QED
      BY <3>1, <3>2
  <2>8. ASSUME NEW a \in DOMAIN audits'
        PROVE  (audits[a].before < a /\ Stamped(audits[a].created, audits[a].before))'
    <3>1. CASE a = n + 1
      <4>1. row.before < a
        BY <2>3, <2>4, <2>6, <3>1
      <4>2. \A b \in 1 .. n + 1 : b <= row.before => audits'[b].created <= row.created
        BY <2>3, <2>4, <2>6
      <4>3. row.before <= n + 1
        BY <2>3, <2>4, <2>6
      <4> QED
        BY <2>1, <2>3, <2>6, <3>1, <4>1, <4>2, <4>3 DEF Stamped
    <3>2. CASE a \in 1 .. n
      <4>1. audits[a].before < a /\ Stamped(audits[a].created, audits[a].before)
        BY <2>3, <3>2 DEF LateInv
      <4>2. \A b \in 1 .. n + 1 : b <= audits[a].before => audits'[b].created <= audits[a].created
        <5> SUFFICES ASSUME NEW b \in 1 .. n + 1, b <= audits[a].before
                     PROVE  audits'[b].created <= audits[a].created
          OBVIOUS
        <5>1. b \in 1 .. n
          BY <2>3, <2>5, <3>2, <4>1
        <5>2. audits'[b] = audits[b]
          BY <2>3, <5>1
        <5>3. b \in DOMAIN audits => audits[b].created <= audits[a].created
          BY <4>1 DEF Stamped
        <5> QED
          BY <2>3, <5>1, <5>2, <5>3
      <4>3. audits[a].before <= n + 1 /\ audits'[a] = audits[a]
        BY <2>3, <2>5, <3>2, <4>1
      <4> QED
        BY <2>1, <2>3, <4>1, <4>2, <4>3 DEF Stamped
    <3> QED
      BY <2>3, <2>8, <3>1, <3>2
  <2>9. ASSUME NEW d \in Clients, pc'[d] = "audit" PROVE Stamped(loc[d].stamp, loc[d].before)'
    <3>1. d # c /\ pc'[d] = pc[d] /\ loc'[d] = loc[d]
      <4>1. \E label, local : label # "audit" /\ Then(c, label, local)
        BY <1>6 DEF InsertAudit, Over
      <4> QED
        BY <2>9, <4>1 DEF Then, TypesOK, ControlOK
    <3>2. /\ Stamped(loc[d].stamp, loc[d].before)
          /\ loc[d].stamp \in Nat /\ loc[d].before \in Nat
      BY <2>9, <3>1, AuditNumbers DEF LateInv
    <3>3. loc[d].before <= n
      BY <3>2 DEF Stamped, n
    <3>4. /\ loc[d].before <= n + 1
          /\ \A b \in 1 .. n + 1 : b <= loc[d].before => audits'[b].created <= loc[d].stamp
      BY <2>3, <3>2, <3>3 DEF Stamped
    <3> QED
      BY <2>1, <2>3, <3>1, <3>2, <3>4 DEF Stamped
  <2> QED
    BY <2>7, <2>8, <2>9 DEF LateInv
<1>7. ASSUME NEW c \in Clients,
             InsertCheck(c) \/ AuditRecord(c) \/ JudgeCheck(c) \/ WriteVerdict(c)
      PROVE  LateInv'
  <2>1. /\ DOMAIN audits' = DOMAIN audits
        /\ \A a \in DOMAIN audits :
             audits'[a].created = audits[a].created /\ audits'[a].before = audits[a].before
    <3>1. audits \in Seq(AuditRow) /\ \A a \in DOMAIN audits : audits[a] \in AuditRow
      BY RowType DEF TypesOK, TablesOK
    <3>2. PICK a, checks, status :
            \/ audits' = [audits EXCEPT ![a] = [@ EXCEPT !.checks = checks]]
            \/ audits' = [audits EXCEPT ![a] = [@ EXCEPT !.status = status]]
      BY <1>7 DEF InsertCheck, AuditRecord, JudgeCheck, WriteVerdict
    <3>3. DOMAIN audits' = DOMAIN audits
      BY <3>2
    <3>4. ASSUME NEW b \in DOMAIN audits
          PROVE  audits'[b].created = audits[b].created /\ audits'[b].before = audits[b].before
      <4>1. \/ audits'[b] = audits[b]
            \/ audits'[b] = [audits[b] EXCEPT !.checks = checks]
            \/ audits'[b] = [audits[b] EXCEPT !.status = status]
        BY <3>2
      <4>2. audits[b] \in AuditRow
        BY <3>1
      <4> QED
        BY <4>1, <4>2 DEF AuditRow
    <3> QED
      BY <3>3, <3>4
  <2>2. clock' = clock
    BY <1>7 DEF InsertCheck, AuditRecord, JudgeCheck, WriteVerdict
  <2>3. \A d \in Clients : pc'[d] = "audit" => pc[d] = "audit" /\ loc'[d] = loc[d]
    BY <1>7
       DEF InsertCheck, AuditRecord, JudgeCheck, WriteVerdict, Over, Then, TypesOK, ControlOK
  <2> QED
    BY <1>c, <2>1, <2>2, <2>3, LateKept
<1>8. ASSUME Tick \/ UNCHANGED vars PROVE LateInv'
  <2>1. UNCHANGED <<audits, pc, loc>> /\ clock <= clock'
    BY <1>8, <1>c DEF Tick, tables, vars
  <2> QED
    BY <2>1, LateKept
<1> QED
  BY <1>2, <1>3, <1>4, <1>5, <1>6, <1>7, <1>8 DEF Next, Step, Quiet

\* For any number of clients and whatever fails, the audit that the gate reads is
\* never one that existed before another's creation began: seconds decide, and
\* within a second the order of insertion; the clock is never set back.
THEOREM GateReadsLaterAudit == Spec => []LaterAuditWins
<1>1. Init => TypeInv /\ ChainInv /\ LateInv
  BY TypeInit, ChainInit, LateInit
<1>2. TypeInv /\ ChainInv /\ LateInv /\ [Next]_vars => (TypeInv /\ ChainInv /\ LateInv)'
  BY TypeAndChainStep, LateStep
<1>3. TypeInv /\ LateInv => LaterAuditWins
  BY LateImplies DEF TypeInv
<1> QED
  BY <1>1, <1>2, <1>3, PTL DEF Spec

----------------------------------------------------------------------------
(***************************************************************************)
(* The completion gate.  Its SELECTs and the UPDATE that follows are apart, *)
(* so it holds what it promises only if no operation runs beside another.  *)
(***************************************************************************)

\* Operations on the task do not overlap, whichever client they come from: one
\* goes on only while the others are not under way.
Alone(c) == \A d \in Clients \ {c} : pc[d] = "idle"
SerialNext == (\E c \in Clients : Step(c) /\ Alone(c)) \/ Tick \/ Quiet
SerialSpec == Init /\ [][SerialNext]_vars

LEMMA SerialIsSome == [SerialNext]_vars => [Next]_vars
BY DEF SerialNext, Next

\* A step leaves the others where they are.
LEMMA OthersWait ==
  ASSUME TypeInv, NEW c \in Clients, Step(c), Alone(c)
  PROVE  \A d \in Clients \ {c} : pc'[d] = "idle"
<1> USE DEF TypeInv, TypesOK, ControlOK
<1>1. \A d \in Clients \ {c} : pc'[d] = pc[d]
  BY DEF Step, ReadForTransition, Gate, WriteStatus, TaskUpdate, TaskStepAdd, ReadStep,
         WriteStep, ArtifactRegister, ReadArtifact, WriteArtifact, Touch, SetCurrent,
         CheckpointCreate, ReadTip, InsertCheckpoint, ReadForAudit, InsertAudit, InsertCheck,
         RejectCheck, AuditRecord, ReadForEvaluate, ReadChecks, JudgeCheck, WriteVerdict,
         Abandon, Over, Then
<1> QED
  BY <1>1 DEF Alone

\* Operations of one client never overlap.
LEMMA OneClientIsSerial ==
  ASSUME \A c, d \in Clients : c = d
  PROVE  Spec => SerialSpec
<1>1. [Next]_vars => [SerialNext]_vars
  BY DEF Next, SerialNext, Alone
<1> QED
  BY <1>1, PTL DEF Spec, SerialSpec

GateOpen ==
  LET a == LatestAudit(audits)
  IN  a # 0 /\ audits[a].status = "PASS" /\ audits[a].revision = task.revision

\* What a transition has read of the task and its audits is still so.
GateInv ==
  \A c \in Clients :
    /\ pc[c] = "gate" => loc[c].revision = task.revision
    /\ pc[c] = "status" /\ loc[c].to = "done" /\ task.required => GateOpen

LEMMA GateInit == Init => GateInv
BY DEF Init, GateInv

LEMMA GateAlone ==
  ASSUME TypeInv, GateInv, NEW c \in Clients, Step(c),
         \A d \in Clients \ {c} : pc'[d] = "idle"
  PROVE  GateInv'
<1> USE DEF TypeInv, TypesOK, ControlOK, At, Starting
<1>1. CASE ReadForTransition(c)
  <2>1. PICK to \in taskTransitions[task.status] :
          Then(c, IF to = "done" /\ task.required THEN "gate" ELSE "status",
               [NoLocals EXCEPT !.to = to, !.revision = task.revision])
    BY <1>1 DEF ReadForTransition
  <2> DEFINE local == [NoLocals EXCEPT !.to = to, !.revision = task.revision]
  <2>2. local.to = to /\ local.revision = task.revision
    BY DEF NoLocals
  <2> HIDE DEF local
  <2>3. /\ pc'[c] = IF to = "done" /\ task.required THEN "gate" ELSE "status"
        /\ loc'[c] = local /\ UNCHANGED <<task, audits>>
    BY <1>1, <2>1 DEF Then, ReadForTransition, tables, local
  <2> QED
    BY <2>2, <2>3 DEF GateInv
<1>2. CASE Gate(c)
  <2>1. CASE GateOpen
    <3>1. UNCHANGED <<task, audits>>
      BY <1>2 DEF Gate, tables
    <3>2. GateOpen'
      BY <2>1, <3>1 DEF GateOpen
    <3>3. pc'[c] \in {"idle", "status"}
      BY <1>2 DEF Gate, Over, Then
    <3> QED
      BY <3>2, <3>3 DEF GateInv
  <2>2. CASE ~GateOpen
    <3>1. Over(c)
      BY <1>2, <2>2 DEF Gate, GateOpen, GateInv
    <3> QED
      BY <3>1 DEF Over, Then, GateInv
  <2> QED
    BY <2>1, <2>2
<1>3. CASE ~ReadForTransition(c) /\ ~Gate(c)
  <2>1. pc'[c] \notin {"gate", "status"}
    BY <1>3
       DEF Step, WriteStatus, TaskUpdate, TaskStepAdd, ReadStep, WriteStep, AfterTouch,
           ArtifactRegister, ReadArtifact, WriteArtifact, Touch, SetCurrent, CheckpointCreate,
           ReadTip, InsertCheckpoint, ReadForAudit, InsertAudit, InsertCheck, RejectCheck,
           AuditRecord, ReadForEvaluate, ReadChecks, JudgeCheck, WriteVerdict, Abandon,
           Over, Then
  <2> QED
    BY <2>1 DEF GateInv
<1> QED
  BY <1>1, <1>2, <1>3

LEMMA GateStep == TypeInv /\ GateInv /\ [SerialNext]_vars => GateInv'
<1> SUFFICES ASSUME TypeInv, GateInv, [SerialNext]_vars PROVE GateInv'
  OBVIOUS
<1>1. ASSUME Tick \/ UNCHANGED vars PROVE GateInv'
  <2>1. UNCHANGED <<task, audits, pc, loc>>
    BY <1>1 DEF Tick, tables, vars
  <2> QED
    BY <2>1 DEF GateInv, GateOpen
<1> QED
  BY <1>1, OthersWait, GateAlone DEF SerialNext, Quiet

\* Only the UPDATE of a transition makes the task done.
LEMMA OnlyWriteStatusCompletes ==
  ASSUME TypeInv, [Next]_vars, Completes
  PROVE  \E c \in Clients : pc[c] = "status" /\ loc[c].to = "done" /\ WriteStatus(c)
<1>1. task' # task
  BY DEF Completes
<1>2. PICK c \in Clients : \/ WriteStatus(c) \/ TaskUpdate(c) \/ Touch(c) \/ SetCurrent(c)
                           \/ Abandon(c)
  BY <1>1
     DEF Next, Step, Quiet, Tick, vars, tables, ReadForTransition, Gate, TaskStepAdd, ReadStep,
         WriteStep, ArtifactRegister, ReadArtifact, WriteArtifact, CheckpointCreate, ReadTip,
         InsertCheckpoint, ReadForAudit, InsertAudit, InsertCheck, RejectCheck, AuditRecord,
         ReadForEvaluate, ReadChecks, JudgeCheck, WriteVerdict
<1>3. task'.status = task.status \/ WriteStatus(c)
  BY <1>2 DEF TaskUpdate, Touch, SetCurrent, Abandon, TypeInv, TypesOK, TablesOK
<1>4. WriteStatus(c)
  BY <1>3 DEF Completes
<1> QED
  BY <1>4 DEF WriteStatus, At, Completes, TypeInv, TypesOK, TablesOK

\* A task that requires an audit becomes done only while its latest audit is a
\* PASS of its current revision, if operations do not overlap: whichever came
\* before, from whichever clients, and whichever of their statements failed.
THEOREM CompletionIsGated == SerialSpec => DoneIsGated
<1>1. Init => TypeInv /\ ChainInv /\ GateInv
  BY TypeInit, ChainInit, GateInit
<1>2. TypeInv /\ ChainInv /\ GateInv /\ [SerialNext]_vars => (TypeInv /\ ChainInv /\ GateInv)'
  BY TypeAndChainStep, GateStep, SerialIsSome
<1>3. TypeInv /\ GateInv /\ [SerialNext]_vars =>
        [Completes =>
           LET a == LatestAudit(audits)
           IN  a # 0 /\ audits[a].status = "PASS" /\ audits[a].revision = task.revision]_task
  BY OnlyWriteStatusCompletes, SerialIsSome DEF GateInv, GateOpen, Completes
<1> QED
  BY <1>1, <1>2, <1>3, PTL DEF SerialSpec, DoneIsGated

\* It becomes done only while its latest audit is a PASS and was created for
\* exactly what the task consists of at that moment, unless a change was torn from
\* its touchTaskRevision, if operations do not overlap.
THEOREM MaterialChangesBlock == SerialSpec => MaterialChangeBlocks
<1>1. Init => TypeInv /\ ChainInv /\ FenceInv /\ LateInv /\ GateInv
  BY TypeInit, ChainInit, FenceInit, LateInit, GateInit
<1>2. TypeInv /\ ChainInv /\ FenceInv /\ LateInv /\ GateInv /\ [SerialNext]_vars
        => (TypeInv /\ ChainInv /\ FenceInv /\ LateInv /\ GateInv)'
  BY TypeAndChainStep, FenceStep, LateStep, GateStep, SerialIsSome
<1>3. ASSUME TypeInv, FenceInv, LateInv, GateInv, [SerialNext]_vars, Completes, Settled
      PROVE  LET a == LatestAudit(audits)
             IN  a # 0 /\ audits[a].status = "PASS" /\ audits[a].material = Material
  <2> DEFINE a == LatestAudit(audits)
  <2>1. a # 0 /\ audits[a].status = "PASS" /\ audits[a].revision = task.revision
    BY <1>3, OnlyWriteStatusCompletes, SerialIsSome DEF GateInv, GateOpen, Completes
  <2>2. audits # <<>>
    BY <2>1 DEF LatestAudit
  <2>3. a \in DOMAIN audits
    BY <1>3, <2>2, LatestWins DEF LateInv
  <2>4. RevisionFences
    BY <1>3 DEF FenceInv, Fenced, Settled, RevisionFences
  <2>5. audits[a].material = Material
    BY <1>3, <2>1, <2>3, <2>4 DEF RevisionFences
  <2> QED
    BY <2>1, <2>5
<1>4. TypeInv /\ FenceInv /\ LateInv /\ GateInv /\ [SerialNext]_vars =>
        [Completes /\ Settled =>
           LET a == LatestAudit(audits)
           IN  a # 0 /\ audits[a].status = "PASS" /\ audits[a].material = Material]_task
  BY <1>3
<1> QED
  BY <1>1, <1>2, <1>4, PTL DEF SerialSpec, MaterialChangeBlocks

----------------------------------------------------------------------------
(***************************************************************************)
(* Steps and checks that are read and written in separate statements, of   *)
(* operations that do not overlap.                                         *)
(***************************************************************************)

\* The status a step update keeps is the one the step has.
StampInv ==
  /\ StampsAgree
  /\ \A c \in Clients :
       pc[c] = "step" /\ ~loc[c].set =>
         loc[c].id \in DOMAIN steps /\ loc[c].to = steps[loc[c].id].status

LEMMA StampInit == Init => StampInv
BY DEF Init, StampInv, StampsAgree

LEMMA StampAlone ==
  ASSUME TypeInv, StampInv, NEW c \in Clients, Step(c),
         \A d \in Clients \ {c} : pc'[d] = "idle"
  PROVE  StampInv'
<1> USE DEF TypeInv, TypesOK, ControlOK, At, Starting
<1>0. steps \in Seq(StepRow)
  BY DEF TablesOK
<1>1. CASE TaskStepAdd(c)
  <2>1. pc'[c] = "touch" /\ steps' = Append(steps, [status |-> "todo", completed |-> FALSE])
    BY <1>1 DEF TaskStepAdd, Then
  <2>2. \A s \in DOMAIN steps' :
          \/ s \in DOMAIN steps /\ steps'[s] = steps[s]
          \/ steps'[s] = [status |-> "todo", completed |-> FALSE]
    BY <1>0, <2>1
  <2>3. StampsAgree'
    BY <2>2 DEF StampInv, StampsAgree, terminalStepTime
  <2> QED
    BY <2>1, <2>3 DEF StampInv
<1>2. CASE ReadStep(c)
  <2>1. PICK s \in DOMAIN steps :
          \/ \E to \in stepStates :
               Then(c, "step", [NoLocals EXCEPT !.id = s, !.to = to, !.set = TRUE])
          \/ Then(c, "step", [NoLocals EXCEPT !.id = s, !.to = steps[s].status])
    BY <1>2 DEF ReadStep
  <2>2. loc'[c].set \/ (loc'[c].id = s /\ loc'[c].to = steps[s].status)
    <3>1. CASE \E to \in stepStates :
                 Then(c, "step", [NoLocals EXCEPT !.id = s, !.to = to, !.set = TRUE])
      BY <3>1 DEF Then, NoLocals
    <3>2. CASE Then(c, "step", [NoLocals EXCEPT !.id = s, !.to = steps[s].status])
      BY <3>2 DEF Then, NoLocals
    <3> QED
      BY <2>1, <3>1, <3>2
  <2>3. UNCHANGED steps
    BY <1>2 DEF ReadStep, tables
  <2> QED
    BY <2>2, <2>3 DEF StampInv, StampsAgree
<1>3. CASE WriteStep(c)
  <2> DEFINE s == loc[c].id
             status == IF loc[c].set THEN loc[c].to ELSE steps[s].status
             row == [status |-> status, completed |-> terminalStepTime(loc[c].to)]
  <2>1. steps' = [steps EXCEPT ![s] = row] /\ pc[c] = "step"
    BY <1>3 DEF WriteStep
  <2>2. status = loc[c].to
    BY <2>1 DEF StampInv
  <2>3. row.completed <=> terminalStepTime(row.status)
    BY <2>2
  <2> HIDE DEF row, s
  <2>4. StampsAgree'
    BY <1>0, <2>1, <2>3 DEF StampInv, StampsAgree
  <2>5. pc'[c] # "step"
    BY <1>3 DEF WriteStep, Then, AfterTouch
  <2> QED
    BY <2>4, <2>5 DEF StampInv
<1>4. CASE ~TaskStepAdd(c) /\ ~ReadStep(c) /\ ~WriteStep(c)
  <2>1. pc'[c] # "step" /\ UNCHANGED steps
    BY <1>4
       DEF Step, ReadForTransition, Gate, WriteStatus, TaskUpdate, ArtifactRegister,
           ReadArtifact, WriteArtifact, Touch, SetCurrent, CheckpointCreate, ReadTip,
           InsertCheckpoint, ReadForAudit, InsertAudit, InsertCheck, RejectCheck, AuditRecord,
           ReadForEvaluate, ReadChecks, JudgeCheck, WriteVerdict, Abandon, Over, Then, tables
  <2> QED
    BY <2>1 DEF StampInv, StampsAgree
<1> QED
  BY <1>1, <1>2, <1>3, <1>4

LEMMA StampStep == TypeInv /\ StampInv /\ [SerialNext]_vars => StampInv'
<1> SUFFICES ASSUME TypeInv, StampInv, [SerialNext]_vars PROVE StampInv'
  OBVIOUS
<1>1. ASSUME Tick \/ UNCHANGED vars PROVE StampInv'
  <2>1. UNCHANGED <<steps, pc, loc>>
    BY <1>1 DEF Tick, tables, vars
  <2> QED
    BY <2>1 DEF StampInv, StampsAgree
<1> QED
  BY <1>1, OthersWait, StampAlone DEF SerialNext, Quiet

\* A step has a completion time exactly while its status is terminal, although
\* one statement reads the status and another writes both, as long as operations
\* do not overlap.
THEOREM CompletionTimesAgree == SerialSpec => []StampsAgree
<1>1. Init => TypeInv /\ ChainInv /\ StampInv
  BY TypeInit, ChainInit, StampInit
<1>2. TypeInv /\ ChainInv /\ StampInv /\ [SerialNext]_vars => (TypeInv /\ ChainInv /\ StampInv)'
  BY TypeAndChainStep, StampStep, SerialIsSome
<1>3. StampInv => StampsAgree
  BY DEF StampInv
<1> QED
  BY <1>1, <1>2, <1>3, PTL DEF SerialSpec

\* The verdicts an evaluation is about to write fit the evidence as it is.
BackedInv ==
  /\ PassIsBacked
  /\ \A c \in Clients :
       pc[c] = "judge" =>
         \A k \in DOMAIN loc[c].checks :
           /\ k \in DOMAIN audits[loc[c].id].checks
           /\ loc[c].checks[k] = Judgement(audits[loc[c].id].checks[k].evidence)

LEMMA BackedInit == Init => BackedInv
BY DEF Init, BackedInv, PassIsBacked

\* An UPDATE or INSERT of one check.
LEMMA CheckBacked ==
  ASSUME PassIsBacked, NEW a, DOMAIN audits' = DOMAIN audits,
         \A b \in DOMAIN audits \ {a} : audits'[b] = audits[b],
         \A k \in DOMAIN audits'[a].checks :
           \/ k \in DOMAIN audits[a].checks /\ audits'[a].checks[k] = audits[a].checks[k]
           \/ audits'[a].checks[k].status = "PASS" => audits'[a].checks[k].evidence = "match"
  PROVE  PassIsBacked'
BY DEF PassIsBacked

\* The row that such an UPDATE leaves.
LEMMA ChecksWritten ==
  ASSUME audits \in Seq(AuditRow), NEW a \in DOMAIN audits, NEW checks,
         audits' = [audits EXCEPT ![a] = [@ EXCEPT !.checks = checks]]
  PROVE  /\ DOMAIN audits' = DOMAIN audits
         /\ \A b \in DOMAIN audits \ {a} : audits'[b] = audits[b]
         /\ audits'[a].checks = checks
<1>1. \A b \in DOMAIN audits : audits[b] \in AuditRow
  BY RowType
<1> QED
  BY <1>1 DEF AuditRow

LEMMA BackedAlone ==
  ASSUME TypeInv, TypeInv', BackedInv, NEW c \in Clients, Step(c),
         \A d \in Clients \ {c} : pc'[d] = "idle"
  PROVE  BackedInv'
<1> USE DEF TypeInv, TypesOK, ControlOK, At, Starting
<1>0. audits \in Seq(AuditRow) /\ \A a \in DOMAIN audits : audits[a] \in AuditRow
  BY RowType DEF TablesOK
<1>1. CASE InsertAudit(c)
  <2> DEFINE row == [status |-> "UNCERTAIN", revision |-> loc[c].revision,
                     created |-> loc[c].stamp, checks |-> <<>>,
                     material |-> loc[c].material, before |-> loc[c].before]
  <2>1. audits' = Append(audits, row)
    BY <1>1 DEF InsertAudit
  <2>2. row.checks = <<>>
    OBVIOUS
  <2> HIDE DEF row
  <2>3. \A a \in DOMAIN audits' :
          (a \in DOMAIN audits /\ audits'[a] = audits[a]) \/ audits'[a] = row
    BY <1>0, <2>1
  <2>4. PassIsBacked'
    BY <2>2, <2>3 DEF BackedInv, PassIsBacked
  <2>5. pc'[c] # "judge"
    BY <1>1 DEF InsertAudit, Over, Then
  <2> QED
    BY <2>4, <2>5 DEF BackedInv
<1>2. CASE InsertCheck(c)
  <2> DEFINE a == loc[c].id
             checks == Append(audits[a].checks, [evidence |-> "none", status |-> "UNCERTAIN"])
  <2>1. pc'[c] # "judge"
    BY <1>2 DEF InsertCheck, Over, Then
  <2>2. audits' = [audits EXCEPT ![a] = [@ EXCEPT !.checks = checks]]
    BY <1>2 DEF InsertCheck
  <2>3. CASE a \in DOMAIN audits
    <3>1. audits[a].checks \in Seq(CheckRow)
      BY <1>0, <2>3 DEF AuditRow
    <3>2. \A k \in DOMAIN checks :
            \/ k \in DOMAIN audits[a].checks /\ checks[k] = audits[a].checks[k]
            \/ checks[k].status = "PASS" => checks[k].evidence = "match"
      BY <3>1
    <3> HIDE DEF checks
    <3>3. PICK b, new : b = a /\ new = checks
      OBVIOUS
    <3>4. PassIsBacked'
      <4>1. /\ DOMAIN audits' = DOMAIN audits /\ audits'[b].checks = new
            /\ \A d \in DOMAIN audits \ {b} : audits'[d] = audits[d]
        BY <1>0, <2>2, <2>3, <3>3, ChecksWritten
      <4> QED
        BY <3>2, <3>3, <4>1, CheckBacked DEF BackedInv
    <3> QED
      BY <2>1, <3>4 DEF BackedInv
  <2>4. CASE a \notin DOMAIN audits
    <3>1. audits' = audits
      BY <1>0, <2>2, <2>4
    <3> QED
      BY <2>1, <3>1 DEF BackedInv, PassIsBacked
  <2> QED
    BY <2>3, <2>4
<1>3. CASE AuditRecord(c)
  <2>1. PICK a \in DOMAIN audits : \E k \in DOMAIN audits[a].checks, e \in Evidence \ {"none"} :
          audits' = [audits EXCEPT ![a].checks[k] = [evidence |-> e, status |-> "UNCERTAIN"]]
    BY <1>3 DEF AuditRecord
  <2>2. PICK k \in DOMAIN audits[a].checks, e \in Evidence \ {"none"} :
          audits' = [audits EXCEPT ![a].checks[k] = [evidence |-> e, status |-> "UNCERTAIN"]]
    BY <2>1
  <2> DEFINE checks == [audits[a].checks EXCEPT ![k] = [evidence |-> e, status |-> "UNCERTAIN"]]
  <2>3. audits' = [audits EXCEPT ![a] = [@ EXCEPT !.checks = checks]]
    BY <2>2
  <2>4. audits[a].checks \in Seq(CheckRow)
    BY <1>0 DEF AuditRow
  <2>5. \A i \in DOMAIN checks :
          \/ i \in DOMAIN audits[a].checks /\ checks[i] = audits[a].checks[i]
          \/ checks[i].status = "PASS" => checks[i].evidence = "match"
    BY <2>4
  <2> HIDE DEF checks
  <2>6. PICK new : new = checks
    OBVIOUS
  <2>7. PassIsBacked'
    <3>1. /\ DOMAIN audits' = DOMAIN audits /\ audits'[a].checks = new
          /\ \A d \in DOMAIN audits \ {a} : audits'[d] = audits[d]
      BY <1>0, <2>3, <2>6, ChecksWritten
    <3> QED
      BY <2>5, <2>6, <3>1, CheckBacked DEF BackedInv
  <2>8. pc'[c] = "idle"
    BY <1>3 DEF AuditRecord
  <2> QED
    BY <2>7, <2>8 DEF BackedInv
<1>4. CASE ReadChecks(c)
  <2> DEFINE rows == audits[loc[c].id].checks
             verdicts == [k \in DOMAIN rows |-> Judgement(rows[k].evidence)]
  <2>1. loc'[c] = [loc[c] EXCEPT !.todo = 1, !.checks = verdicts] /\ UNCHANGED audits
    BY <1>4 DEF ReadChecks, Then, tables
  <2>2. loc'[c].checks = verdicts /\ loc'[c].id = loc[c].id
    BY <2>1 DEF Local
  <2>3. \A k \in DOMAIN verdicts :
          k \in DOMAIN rows /\ verdicts[k] = Judgement(rows[k].evidence)
    OBVIOUS
  <2>4. rows = audits'[loc'[c].id].checks
    BY <2>1, <2>2
  <2> HIDE DEF rows, verdicts
  <2>5. PassIsBacked'
    BY <2>1 DEF BackedInv, PassIsBacked
  <2> QED
    BY <2>2, <2>3, <2>4, <2>5 DEF BackedInv
<1>5. CASE JudgeCheck(c)
  <2> DEFINE a == loc[c].id
             k == loc[c].todo
             check == [audits[a].checks[k] EXCEPT !.status = loc[c].checks[k]]
             checks == [audits[a].checks EXCEPT ![k] = check]
  <2>1. audits' = [audits EXCEPT ![a] = [@ EXCEPT !.checks = checks]] /\ a \in DOMAIN audits
    BY <1>5 DEF JudgeCheck, EvaluationOK, Evaluating
  <2>2. k \in DOMAIN loc[c].checks /\ pc[c] = "judge"
    BY <1>5 DEF JudgeCheck, Fit
  <2>3. audits[a].checks \in Seq(CheckRow)
    BY <1>0, <2>1 DEF AuditRow
  <2>4. /\ k \in DOMAIN audits[a].checks
        /\ loc[c].checks[k] = Judgement(audits[a].checks[k].evidence)
    BY <2>2 DEF BackedInv
  <2>5. audits[a].checks[k] \in CheckRow
    BY <2>3, <2>4
  <2>6. /\ check.status = Judgement(check.evidence)
        /\ check.evidence = audits[a].checks[k].evidence
    BY <2>4, <2>5 DEF CheckRow
  <2> HIDE DEF check
  <2>7. \A i \in DOMAIN checks :
          \/ i \in DOMAIN audits[a].checks /\ checks[i] = audits[a].checks[i]
          \/ checks[i].status = "PASS" => checks[i].evidence = "match"
    BY <2>3, <2>4, <2>6 DEF Judgement
  <2> HIDE DEF a, checks
  <2>8. PassIsBacked'
    <3>1. PICK b, new : b = a /\ new = checks
      OBVIOUS
    <3> QED
      <4>1. /\ DOMAIN audits' = DOMAIN audits /\ audits'[b].checks = new
            /\ \A d \in DOMAIN audits \ {b} : audits'[d] = audits[d]
        BY <1>0, <2>1, <3>1, ChecksWritten
      <4> QED
        BY <2>7, <3>1, <4>1, CheckBacked DEF BackedInv
  <2>9. audits'[a].checks = checks
    BY <1>0, <2>1 DEF AuditRow
  <2>10. loc'[c].checks = loc[c].checks /\ loc'[c].id = a
    BY <1>5 DEF JudgeCheck, Then, Local, a
  <2>11. \A i \in DOMAIN loc[c].checks :
           /\ i \in DOMAIN checks
           /\ loc[c].checks[i] = Judgement(checks[i].evidence)
    BY <2>2, <2>3, <2>6 DEF BackedInv, a, checks
  <2> QED
    BY <2>8, <2>9, <2>10, <2>11 DEF BackedInv
<1>6. CASE WriteVerdict(c)
  <2>1. pc'[c] # "judge"
    BY <1>6 DEF WriteVerdict, Over, Then
  <2>2. \E status : audits' = [audits EXCEPT ![loc[c].id] = [@ EXCEPT !.status = status]]
    BY <1>6 DEF WriteVerdict
  <2>3. /\ DOMAIN audits' = DOMAIN audits
        /\ \A b \in DOMAIN audits : audits'[b].checks = audits[b].checks
    BY <1>0, <2>2 DEF AuditRow
  <2> QED
    BY <2>1, <2>3 DEF BackedInv, PassIsBacked
<1>7. CASE /\ ~InsertAudit(c) /\ ~InsertCheck(c) /\ ~AuditRecord(c)
           /\ ~ReadChecks(c) /\ ~JudgeCheck(c) /\ ~WriteVerdict(c)
  <2>1. pc'[c] # "judge" /\ UNCHANGED audits
    BY <1>7
       DEF Step, ReadForTransition, Gate, WriteStatus, TaskUpdate, TaskStepAdd, ReadStep,
           WriteStep, AfterTouch, ArtifactRegister, ReadArtifact, WriteArtifact, Touch,
           SetCurrent, CheckpointCreate, ReadTip, InsertCheckpoint, ReadForAudit, RejectCheck,
           ReadForEvaluate, Abandon, Over, Then, tables
  <2> QED
    BY <2>1 DEF BackedInv, PassIsBacked
<1> QED
  BY <1>1, <1>2, <1>3, <1>4, <1>5, <1>6, <1>7

LEMMA BackedStep == TypeInv /\ TypeInv' /\ BackedInv /\ [SerialNext]_vars => BackedInv'
<1> SUFFICES ASSUME TypeInv, TypeInv', BackedInv, [SerialNext]_vars PROVE BackedInv'
  OBVIOUS
<1>1. ASSUME Tick \/ UNCHANGED vars PROVE BackedInv'
  <2>1. UNCHANGED <<audits, pc, loc>>
    BY <1>1 DEF Tick, tables, vars
  <2> QED
    BY <2>1 DEF BackedInv, PassIsBacked
<1> QED
  BY <1>1, OthersWait, BackedAlone DEF SerialNext, Quiet

\* No check stands at PASS on evidence that is missing, differs from what the
\* check expects or is manual where it may not be, as long as recording and
\* evaluating do not overlap.
THEOREM PassesAreBacked == SerialSpec => []PassIsBacked
<1>1. Init => TypeInv /\ ChainInv /\ BackedInv
  BY TypeInit, ChainInit, BackedInit
<1>2. TypeInv /\ ChainInv /\ BackedInv /\ [SerialNext]_vars => (TypeInv /\ ChainInv /\ BackedInv)'
  BY TypeAndChainStep, BackedStep, SerialIsSome
<1>3. BackedInv => PassIsBacked
  BY DEF BackedInv
<1> QED
  BY <1>1, <1>2, <1>3, PTL DEF SerialSpec
=============================================================================
