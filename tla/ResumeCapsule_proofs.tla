------------------------ MODULE ResumeCapsule_proofs ------------------------
(***************************************************************************)
(* Proofs about ResumeCapsule, for any number of requests of any kind, any *)
(* window and any length of the list.                                      *)
(***************************************************************************)
EXTENDS ResumeCapsule, Accelerator_proofs, FiniteSetTheorems

USE DEF Preparing, Finalizing, Journaling

----------------------------------------------------------------------------
(***************************************************************************)
(* The capsule's reader changes nothing.                                   *)
(***************************************************************************)

LEMMA CapsuleStep == [CapsuleNext]_allVars => [Next]_vars
<1> SUFFICES ASSUME [CapsuleNext]_allVars PROVE [Next]_vars
  OBVIOUS
<1>1. CASE ReadCheckpoint \/ ReadReceipts \/ UNCHANGED allVars
  BY <1>1 DEF ReadCheckpoint, ReadReceipts, allVars, accelerator
<1>2. CASE CrashAll
  BY <1>2 DEF CrashAll, Next
<1>3. ASSUME NEW r \in Requests, Advance(r) \/ Surroundings(r) PROVE Next
  BY <1>3 DEF Advance, Surroundings, Next
<1> QED
  BY <1>1, <1>2, <1>3 DEF CapsuleNext

\* What a request does, it does as in Accelerator while capsules are put
\* together: every theorem about Spec holds beside them.
THEOREM ReaderIsPassive == CapsuleSpec => Spec
<1>1. CapsuleInit => Init
  BY DEF CapsuleInit
<1> QED
  BY <1>1, CapsuleStep, PTL DEF CapsuleSpec, Spec

\* The checkpoints that the capsule reads the latest of are one gap-free chain,
\* and capsules keep them so.
THEOREM CapsuleReadsOneChain == CapsuleSpec => []OneChain
BY ReaderIsPassive, CheckpointsFormOneChain, PTL

----------------------------------------------------------------------------
(***************************************************************************)
(* The rows of the two tables the capsule reads.                           *)
(***************************************************************************)

\* What a checkpoint of the task says of a receipt, and goes on to be true.
Fact(t, body) ==
  /\ body.receipt \in DOMAIN receipts
  /\ receipts[body.receipt].task = t
  /\ body.event # "mutation.before" => receipts[body.receipt].finished

\* A request whose receipt is on disk, and one that found it finished or has
\* finished it.
Busy == Entitled \cup Finalizing \cup Journaling
Settled == {"fin_reread"} \cup Journaling

\* The receipt a request works on: its own, or the one it finalizes.
TargetInv ==
  /\ \A r \in Requests : Target(r) \in DOMAIN receipts \cup {r, None}
  /\ \A r \in DOMAIN receipts : Target(r) = r
  /\ \A r \in Requests : Target(r) \in DOMAIN receipts =>
       receipts[Target(r)].task = req[r].task /\ receipts[Target(r)].mut = req[r].mut
  /\ \A r \in Requests : pc[r] \in Busy => Target(r) \in DOMAIN receipts
  /\ \A r \in Requests : pc[r] \in Settled => receipts[Target(r)].finished

\* Every checkpoint names a receipt of its task, a finished one unless it was
\* written before the call; the receipts are finitely many.
RowsInv ==
  /\ TargetInv
  /\ \A d \in log : Fact(d.task, d.body)
  /\ IsFiniteSet(DOMAIN receipts)

\* What the capsule's reader read of the checkpoints stays true.
ReaderInv == reader # NoReader => \A c \in reader.latest : Fact(reader.task, c)

\* The order of the receipts puts none before those its SELECT had seen.
OrderInv ==
  /\ DOMAIN newer = DOMAIN receipts
  /\ \A r \in DOMAIN receipts : newer[r] \subseteq (DOMAIN receipts \ {r}) \ older[r]
  /\ \A r \in Requests : older[r] \subseteq DOMAIN receipts

CapsuleInv == TypeInv /\ OnceInv /\ AheadInv /\ RowsInv /\ ReaderInv /\ OrderInv

LEMMA RowsInit == Init => RowsInv
<1> SUFFICES ASSUME Init PROVE RowsInv
  OBVIOUS
<1>1. DOMAIN receipts = {} /\ log = {} /\ \A r \in Requests : pc[r] = "idle" /\ Target(r) = None
  BY DEF Init, Target, NoRequest
<1>2. IsFiniteSet(DOMAIN receipts)
  BY <1>1, FS_EmptySet
<1> QED
  BY <1>1, <1>2 DEF RowsInv, TargetInv, Busy, Settled, Entitled

\* Receipts are added one at a time, by the request whose INSERT succeeds; what
\* a row says of task and kind is never changed, and a finished one stays so.
LEMMA TableGrows ==
  ASSUME TypeInv, OnceInv, [Next]_vars
  PROVE  /\ DOMAIN receipts \subseteq DOMAIN receipts'
         /\ \A r \in DOMAIN receipts : /\ receipts'[r].task = receipts[r].task
                                       /\ receipts'[r].mut = receipts[r].mut
                                       /\ receipts[r].finished => receipts'[r].finished
         /\ \A r \in DOMAIN receipts' \ DOMAIN receipts :
              pc[r] = "insert" /\ pc'[r] = "reread" /\ DOMAIN receipts' = DOMAIN receipts \cup {r}
<1>1. CASE UNCHANGED receipts
  BY <1>1
<1>2. ASSUME NEW r \in Requests, InsertReceipt(r), receipts' # receipts
      PROVE  /\ r \notin DOMAIN receipts /\ DOMAIN receipts' = DOMAIN receipts \cup {r}
             /\ pc[r] = "insert" /\ pc'[r] = "reread"
             /\ \A s \in DOMAIN receipts : receipts'[s] = receipts[s]
  <2>1. r \notin DOMAIN receipts
    BY <1>2 DEF InsertReceipt, OnceInv, Early
  <2> QED
    BY <1>2, <2>1 DEF InsertReceipt, Prepared, TypeInv, TypeOK
<1>3. ASSUME NEW r \in Requests, UpdateReceipt(r)
      PROVE  /\ DOMAIN receipts' = DOMAIN receipts
             /\ \A s \in DOMAIN receipts : /\ receipts'[s].task = receipts[s].task
                                           /\ receipts'[s].mut = receipts[s].mut
                                           /\ receipts[s].finished => receipts'[s].finished
  <2>1. DOMAIN receipts' = DOMAIN receipts
    BY <1>3 DEF UpdateReceipt
  <2>2. ASSUME NEW s \in DOMAIN receipts
        PROVE  /\ receipts'[s].task = receipts[s].task
               /\ receipts'[s].mut = receipts[s].mut
               /\ receipts[s].finished => receipts'[s].finished
    <3>1. CASE s # Target(r)
      BY <1>3, <3>1 DEF UpdateReceipt
    <3>2. CASE s = Target(r)
      <4>1. receipts'[s] = [receipts[s] EXCEPT !.delivery = Delivery(r), !.result = Result(r),
                              !.ref = Ref(r), !.finished = TRUE, !.by = r]
        BY <1>3, <3>2 DEF UpdateReceipt
      <4>2. receipts[s] \in Row
        BY DEF TypeInv, TypeOK
      <4> QED
        BY <4>1, <4>2 DEF Row
    <3> QED
      BY <3>1, <3>2
  <2> QED
    BY <2>1, <2>2
<1>4. ASSUME NEW r \in Requests, Step(r) \/ Environment(r), receipts' # receipts
      PROVE  InsertReceipt(r) \/ UpdateReceipt(r)
  BY <1>4 DEF Step, Environment, SelectReceipt, RereadReceipt, ReadTipBefore, InsertBefore,
              ConnectFails, SendCall, CallReturns, CallErrs, ShapeResult, StoreResult,
              SelectForFinalize, RereadFinalized, ReadTipAfter, InsertAfter, Arrive, Refuse,
              ArriveFinalize, UpstreamRuns, UpstreamLoses, ExternalRuns, StatementFails
<1> QED
  BY <1>1, <1>2, <1>3, <1>4 DEF Next, Crash, Terminated, vars

\* So what a checkpoint said of a receipt it says for good.
LEMMA FactStays ==
  ASSUME TypeInv, OnceInv, [Next]_vars, NEW t, NEW body, Fact(t, body)
  PROVE  Fact(t, body)'
BY TableGrows DEF Fact

\* A step that stores no receipt and no arguments and moves nobody backwards.
LEMMA QuietTarget ==
  ASSUME TargetInv, UNCHANGED <<receipts, req>>,
         \A s \in Requests : pc'[s] \in Busy => pc[s] \in Busy,
         \A s \in Requests : pc'[s] \in Settled =>
           pc[s] \in Settled \/ receipts[Target(s)].finished
  PROVE  TargetInv'
<1>1. \A s : Target(s)' = Target(s)
  BY DEF Target
<1> QED
  BY <1>1 DEF TargetInv

\* One request goes on to `to`.
LEMMA GotoTarget ==
  ASSUME TypeInv, TargetInv, UNCHANGED <<receipts, req>>, NEW r \in Requests, NEW to,
         pc' = [pc EXCEPT ![r] = to],
         to \in Busy => pc[r] \in Busy,
         to \in Settled => pc[r] \in Settled \/ receipts[Target(r)].finished
  PROVE  TargetInv'
BY QuietTarget DEF TypeInv, TypeOK

LEMMA ReplyTarget ==
  ASSUME TypeInv, TargetInv, UNCHANGED <<receipts, req>>, NEW r \in Requests,
         NEW status, NEW policy, Reply(r, status, policy)
  PROVE  TargetInv'
BY GotoTarget DEF Reply, Busy, Settled, Entitled

LEMMA ProceedTarget ==
  ASSUME TypeInv, TargetInv, UNCHANGED <<receipts, req>>, NEW r \in Requests,
         Proceed(r), pc[r] \in Busy
  PROVE  TargetInv'
BY GotoTarget, ReplyTarget DEF Proceed, Settled

LEMMA AfterFinalizeTarget ==
  ASSUME TypeInv, TargetInv, UNCHANGED <<receipts, req>>, NEW r \in Requests, NEW row,
         AfterFinalize(r, row), pc[r] \in Busy, receipts[Target(r)].finished
  PROVE  TargetInv'
BY GotoTarget, ReplyTarget DEF AfterFinalize

LEMMA FailsTarget ==
  ASSUME TypeInv, TargetInv, UNCHANGED <<receipts, req>>, NEW r \in Requests,
         Fail(r) \/ FinalizeFails(r) \/ AfterFails(r)
  PROVE  TargetInv'
BY ReplyTarget DEF Fail, FinalizeFails, AfterFails

LEMMA TargetStep ==
  ASSUME TypeInv, OnceInv, AheadInv, TargetInv, [Next]_vars
  PROVE  TargetInv'
<1> USE DEF Goto
<1> None \notin DOMAIN receipts /\ DOMAIN receipts \subseteq Requests
  BY RequestsAssumption DEF TypeInv, TypeOK
<1>1. ASSUME NEW r \in Requests, Arrive(r) \/ ArriveFinalize(r) PROVE TargetInv'
  <2>1. r \notin DOMAIN receipts
    BY <1>1 DEF Arrive, ArriveFinalize, OnceInv, Early
  <2>2. UNCHANGED receipts /\ \A s \in Requests \ {r} : req'[s] = req[s] /\ pc'[s] = pc[s]
    BY <1>1 DEF Arrive, ArriveFinalize, TypeInv, TypeOK
  <2>3. \/ pc'[r] = "select" /\ req'[r].target = r
        \/ /\ pc'[r] = "fin_read" /\ req'[r].target \in DOMAIN receipts
           /\ receipts[req'[r].target].task = req'[r].task
           /\ receipts[req'[r].target].mut = req'[r].mut
    <3>1. CASE Arrive(r)
      <4>1. PICK kind \in Kinds \ {"finalize"}, op \in OpIds \cup {r}, call \in Calls,
                 mut \in Hints, task \in Tasks \cup {None} :
              /\ op = r => ~mut
              /\ req' = [req EXCEPT ![r] =
                    [NoRequest EXCEPT !.kind = kind, !.op = op, !.call = call,
                                      !.mut = mut, !.task = task, !.target = r]]
        BY <3>1 DEF Arrive
      <4> QED
        BY <3>1, <4>1 DEF Arrive, NoRequest, TypeInv, TypeOK
    <3>2. CASE ArriveFinalize(r)
      <4>1. PICK s \in DOMAIN receipts, final \in Finals :
              req' = [req EXCEPT ![r] =
                 [kind |-> "finalize", op |-> receipts[s].op, call |-> receipts[s].call,
                  mut |-> receipts[s].mut, task |-> receipts[s].task,
                  target |-> s, delivery |-> final[1], result |-> final[2]]]
        BY <3>2 DEF ArriveFinalize
      <4>2. /\ req'[r].target = s /\ req'[r].task = receipts[s].task
            /\ req'[r].mut = receipts[s].mut
        BY <4>1 DEF TypeInv, TypeOK
      <4> QED
        BY <3>2, <4>2 DEF ArriveFinalize, TypeInv, TypeOK
    <3> QED
      BY <1>1, <3>1, <3>2
  <2> QED
    BY <2>1, <2>2, <2>3 DEF TargetInv, Target, Busy, Settled, Entitled
<1>2. ASSUME NEW r \in Requests, InsertReceipt(r) PROVE TargetInv'
  <2>1. CASE Fail(r) /\ UNCHANGED receipts
    BY <1>2, <2>1, FailsTarget DEF InsertReceipt
  <2>2. CASE receipts' = Prepared(r) /\ pc' = [pc EXCEPT ![r] = "reread"]
    <3>1. r \notin DOMAIN receipts /\ Target(r) = r /\ pc[r] = "insert"
      BY <1>2 DEF InsertReceipt, OnceInv, Early, AheadInv, Target
    <3>2. /\ DOMAIN receipts' = DOMAIN receipts \cup {r}
          /\ receipts'[r].task = req[r].task /\ receipts'[r].mut = req[r].mut
          /\ \A s \in DOMAIN receipts : receipts'[s] = receipts[s]
      BY <2>2, <3>1 DEF Prepared
    <3>3. \A s : Target(s)' = Target(s)
      BY <1>2 DEF InsertReceipt, Target
    <3>4. req' = req /\ \A s \in Requests \ {r} : pc'[s] = pc[s]
      BY <1>2, <2>2 DEF InsertReceipt, TypeInv, TypeOK
    <3>5. pc'[r] = "reread"
      BY <2>2 DEF TypeInv, TypeOK
    <3>6. \A s \in Requests : s # r => Target(s) # r \/ r \in DOMAIN receipts
      BY RequestsAssumption DEF TargetInv
    <3> QED
      BY <3>1, <3>2, <3>3, <3>4, <3>5, <3>6 DEF TargetInv, Settled, Busy
  <2> QED
    BY <1>2, <2>1, <2>2 DEF InsertReceipt
<1>3. ASSUME NEW r \in Requests, UpdateReceipt(r) PROVE TargetInv'
  <2>1. UNCHANGED req /\ DOMAIN receipts' = DOMAIN receipts /\ \A s : Target(s)' = Target(s)
    BY <1>3 DEF UpdateReceipt, Target
  <2>2. /\ pc[r] = "fin_write" /\ pc'[r] = "fin_reread"
        /\ \A s \in Requests \ {r} : pc'[s] = pc[s]
    BY <1>3 DEF UpdateReceipt, TypeInv, TypeOK
  <2>3. Target(r) \in DOMAIN receipts
    BY <2>2 DEF TargetInv, Busy
  <2>4. receipts'[Target(r)].finished
    <3>1. receipts[Target(r)] \in Row
      BY <2>3 DEF TypeInv, TypeOK
    <3>2. receipts'[Target(r)] =
            [receipts[Target(r)] EXCEPT !.delivery = Delivery(r), !.result = Result(r),
                                        !.ref = Ref(r), !.finished = TRUE, !.by = r]
      BY <1>3, <2>3 DEF UpdateReceipt
    <3> QED
      BY <3>1, <3>2 DEF Row
  <2> QED
    BY <2>1, <2>2, <2>3, <2>4, TableGrows DEF TargetInv, Settled, Busy
<1>4. ASSUME NEW r \in Requests, Refuse(r) \/ SelectReceipt(r) PROVE TargetInv'
  BY <1>4, FailsTarget, ReplyTarget, GotoTarget DEF Refuse, SelectReceipt, Busy, Settled, Entitled
<1>5. ASSUME NEW r \in Requests, RereadReceipt(r) \/ ReadTipBefore(r) \/ ReadTipAfter(r)
      PROVE  TargetInv'
  BY <1>5, GotoTarget, ProceedTarget
     DEF RereadReceipt, ReadTipBefore, ReadTipAfter, Busy, Settled, Entitled
<1>6. ASSUME NEW r \in Requests, InsertBefore(r) PROVE TargetInv'
  BY <1>6, FailsTarget, ProceedTarget DEF InsertBefore, Busy, Entitled
<1>7. ASSUME NEW r \in Requests,
             \/ ConnectFails(r) \/ SendCall(r) \/ CallReturns(r) \/ CallErrs(r) \/ ShapeResult(r)
      PROVE  TargetInv'
  BY <1>7, GotoTarget
     DEF ConnectFails, SendCall, CallReturns, CallErrs, ShapeResult, Busy, Settled, Entitled
<1>8. ASSUME NEW r \in Requests, StoreResult(r) PROVE TargetInv'
  BY <1>8, FailsTarget, GotoTarget DEF StoreResult, Busy, Settled, Entitled
<1>9. ASSUME NEW r \in Requests, SelectForFinalize(r) PROVE TargetInv'
  BY <1>9, GotoTarget, AfterFinalizeTarget, FailsTarget
     DEF SelectForFinalize, Busy, Settled
<1>10. ASSUME NEW r \in Requests, RereadFinalized(r) PROVE TargetInv'
  <2>1. receipts[Target(r)].finished
    BY <1>10 DEF RereadFinalized, TargetInv, Settled
  <2> QED
    BY <1>10, <2>1, AfterFinalizeTarget DEF RereadFinalized, Busy
<1>11. ASSUME NEW r \in Requests, InsertAfter(r) PROVE TargetInv'
  BY <1>11, FailsTarget, ReplyTarget DEF InsertAfter
<1>12. ASSUME NEW r \in Requests, StatementFails(r) PROVE TargetInv'
  BY <1>12, FailsTarget DEF StatementFails
<1>13. ASSUME NEW r \in Requests, UpstreamRuns(r) \/ UpstreamLoses(r) \/ ExternalRuns(r)
       PROVE  TargetInv'
  BY <1>13, QuietTarget DEF UpstreamRuns, UpstreamLoses, ExternalRuns
<1>14. ASSUME Crash PROVE TargetInv'
  BY <1>14, QuietTarget DEF Crash, Busy, Settled, Entitled
<1>15. ASSUME UNCHANGED vars PROVE TargetInv'
  BY <1>15, QuietTarget DEF vars
<1>16. ASSUME NEW r \in Requests, Step(r) PROVE TargetInv'
  BY <1>2, <1>3, <1>4, <1>5, <1>6, <1>7, <1>8, <1>9, <1>10, <1>11, <1>16 DEF Step
<1> QED
  BY <1>1, <1>4, <1>12, <1>13, <1>14, <1>15, <1>16 DEF Next, Environment, Terminated

\* A checkpoint that says what is so.
LEMMA CheckpointSays ==
  ASSUME TypeInv, OnceInv, TargetInv, NEW r \in Requests, NEW event, UNCHANGED receipts,
         Checkpoint(r, event), pc[r] \in Busy,
         event # "mutation.before" => pc[r] \in Settled
  PROVE  \A d \in log' : d \in log \/ Fact(d.task, d.body)'
<1> DEFINE new == Entry(req[r].task, tip[r], <<r, event>>, [event |-> event, receipt |-> Target(r)])
<1>1. log' = log \cup {new}
  BY DEF Checkpoint
<1>2. /\ new.task = req[r].task /\ new.body = [event |-> event, receipt |-> Target(r)]
  BY DEF Entry
<1>3. PICK t : t = req[r].task
  OBVIOUS
<1>4. PICK body : body = [event |-> event, receipt |-> Target(r)]
  OBVIOUS
<1>5. Target(r) \in DOMAIN receipts /\ receipts[Target(r)].task = t
  BY <1>3 DEF TargetInv
<1>6. event # "mutation.before" => receipts[Target(r)].finished
  BY DEF TargetInv
<1>7. Fact(t, body)'
  BY <1>4, <1>5, <1>6 DEF Fact
<1>8. \A d \in log' : d \in log \/ (d.task = t /\ d.body = body)
  BY <1>1, <1>2, <1>3, <1>4
<1> QED
  BY <1>7, <1>8

LEMMA RowsStep ==
  ASSUME TypeInv, OnceInv, AheadInv, RowsInv, [Next]_vars
  PROVE  RowsInv'
<1>1. TargetInv'
  BY TargetStep DEF RowsInv
<1>2. IsFiniteSet(DOMAIN receipts')
  <2>1. CASE DOMAIN receipts' = DOMAIN receipts
    BY <2>1 DEF RowsInv
  <2>2. ASSUME NEW r \in DOMAIN receipts' \ DOMAIN receipts PROVE IsFiniteSet(DOMAIN receipts')
    <3>1. DOMAIN receipts' = DOMAIN receipts \cup {r}
      BY TableGrows
    <3> QED
      BY <3>1, FS_AddElement DEF RowsInv
  <2>3. DOMAIN receipts \subseteq DOMAIN receipts'
    BY TableGrows
  <2> QED
    BY <2>1, <2>2, <2>3
<1>3. \A d \in log' : d \in log \/ Fact(d.task, d.body)'
  <2>1. CASE UNCHANGED log
    BY <2>1
  <2>2. ASSUME NEW r \in Requests, InsertBefore(r), UNCHANGED log
               \/ Checkpoint(r, "mutation.before")
        PROVE  \A d \in log' : d \in log \/ Fact(d.task, d.body)'
    <3>1. pc[r] \in Busy /\ UNCHANGED receipts
      BY <2>2 DEF InsertBefore, Busy, Entitled
    <3> QED
      BY <2>2, <3>1, CheckpointSays DEF RowsInv
  <2>3. ASSUME NEW r \in Requests, InsertAfter(r)
        PROVE  \A d \in log' : d \in log \/ Fact(d.task, d.body)'
    <3>1. pc[r] \in Busy \cap Settled /\ UNCHANGED receipts
      BY <2>3 DEF InsertAfter, Busy, Settled
    <3>2. UNCHANGED log \/ Checkpoint(r, Event(r))
      BY <2>3 DEF InsertAfter
    <3>3. PICK event : event = Event(r)
      OBVIOUS
    <3> QED
      BY <3>1, <3>2, <3>3, CheckpointSays DEF RowsInv
  <2>4. ASSUME NEW r \in Requests, Step(r) \/ Environment(r), log' # log
        PROVE  InsertBefore(r) \/ InsertAfter(r)
    BY <2>4 DEF Step, Environment, SelectReceipt, InsertReceipt, RereadReceipt, ReadTipBefore,
                ConnectFails, SendCall, CallReturns, CallErrs, ShapeResult, StoreResult,
                SelectForFinalize, UpdateReceipt, RereadFinalized, ReadTipAfter, Arrive, Refuse,
                ArriveFinalize, UpstreamRuns, UpstreamLoses, ExternalRuns, StatementFails
  <2>5. \A r \in Requests : InsertBefore(r) => UNCHANGED log \/ Checkpoint(r, "mutation.before")
    BY DEF InsertBefore
  <2> QED
    BY <2>1, <2>2, <2>3, <2>4, <2>5 DEF Next, Crash, Terminated, vars
<1>4. \A d \in log : Fact(d.task, d.body)'
  BY FactStays DEF RowsInv
<1> QED
  BY <1>1, <1>2, <1>3, <1>4 DEF RowsInv

----------------------------------------------------------------------------
(***************************************************************************)
(* The reader, and the order of the receipts.                              *)
(***************************************************************************)

\* What the checkpoint's SELECT returns.
LEMMA LatestIsFact ==
  ASSUME RowsInv, NEW t PROVE \A c \in Latest(t) : Fact(t, c)
BY DEF RowsInv, Latest, Rows

LEMMA StampStep ==
  ASSUME TypeInv, OnceInv, OrderInv, [Next]_vars, Stamp
  PROVE  OrderInv'
<1> USE DEF OrderInv
<1>1. DOMAIN receipts \subseteq DOMAIN receipts' /\ DOMAIN receipts' \subseteq Requests
  BY TableGrows, TypeStep DEF TypeInv, TypeOK
<1>2. \A r \in Requests : older'[r] = IF pc[r] = "select" /\ pc'[r] = "insert"
                                      THEN DOMAIN receipts ELSE older[r]
  BY DEF Stamp
<1>3. \A r \in DOMAIN receipts : older'[r] = older[r]
  BY <1>1, <1>2 DEF OnceInv, Early
<1>4. \A r \in Requests : older'[r] \subseteq DOMAIN receipts
  BY <1>2
<1>5. CASE DOMAIN receipts' = DOMAIN receipts
  BY <1>3, <1>4, <1>5 DEF Stamp
<1>6. CASE DOMAIN receipts' # DOMAIN receipts
  <2>1. PICK r \in DOMAIN receipts' \ DOMAIN receipts, before \in SUBSET DOMAIN receipts :
           /\ older[r] \subseteq before
           /\ newer' = [s \in DOMAIN receipts' |->
                          CASE s = r -> DOMAIN receipts \ before
                            [] s \in before -> newer[s] \cup {r}
                            [] OTHER -> newer[s]]
    BY <1>6 DEF Stamp
  <2>2. DOMAIN receipts' = DOMAIN receipts \cup {r} /\ older'[r] = older[r]
    BY <1>1, <1>2, TableGrows
  <2>3. newer'[r] = DOMAIN receipts \ before
    BY <2>1
  <2>4. ASSUME NEW s \in DOMAIN receipts
        PROVE  newer'[s] \subseteq newer[s] \cup {r}
    <3>1. s # r /\ s \in DOMAIN receipts'
      BY <2>2
    <3>2. CASE s \in before
      BY <2>1, <3>1, <3>2
    <3>3. CASE s \notin before
      BY <2>1, <3>1, <3>3
    <3> QED
      BY <3>2, <3>3
  <2>5. \A s \in DOMAIN receipts : r \notin older[s]
    BY <1>1
  <2>6. DOMAIN newer' = DOMAIN receipts'
    BY <2>1
  <2>7. newer'[r] \subseteq (DOMAIN receipts' \ {r}) \ older'[r]
    BY <2>1, <2>2, <2>3
  <2>8. ASSUME NEW s \in DOMAIN receipts
        PROVE  newer'[s] \subseteq (DOMAIN receipts' \ {s}) \ older'[s]
    BY <1>3, <2>2, <2>4, <2>5
  <2> QED
    BY <1>4, <2>2, <2>6, <2>7, <2>8
<1> QED
  BY <1>5, <1>6

LEMMA CapsuleInitial == CapsuleInit => CapsuleInv
<1> SUFFICES ASSUME CapsuleInit PROVE CapsuleInv
  OBVIOUS
<1>1. Init
  BY DEF CapsuleInit
<1>2. ReaderInv /\ OrderInv
  BY <1>1 DEF CapsuleInit, Init, ReaderInv, OrderInv
<1> QED
  BY <1>1, <1>2, TypeInit, OnceInit, AheadInit, RowsInit DEF CapsuleInv

LEMMA CapsuleKept == CapsuleInv /\ [CapsuleNext]_allVars => CapsuleInv'
<1> SUFFICES ASSUME CapsuleInv, [CapsuleNext]_allVars PROVE CapsuleInv'
  OBVIOUS
<1> [Next]_vars
  BY CapsuleStep
<1> USE DEF CapsuleInv
<1>1. TypeInv' /\ OnceInv' /\ AheadInv' /\ RowsInv'
  BY TypeStep, OnceStep, AheadStep, RowsStep
<1>2. ASSUME reader' = reader PROVE ReaderInv'
  <2> SUFFICES ASSUME reader # NoReader PROVE ReaderInv'
    BY <1>2 DEF ReaderInv
  <2>1. PICK t, latest : t = reader.task /\ latest = reader.latest
    OBVIOUS
  <2>2. \A c \in latest : Fact(t, c)
    BY <2>1 DEF ReaderInv
  <2>3. \A c \in latest : Fact(t, c)'
    BY <2>2, FactStays
  <2> QED
    BY <1>2, <2>1, <2>3 DEF ReaderInv, Fact
<1>3. CASE ReadCheckpoint
  <2>1. PICK t \in Tasks : reader' = [task |-> t, latest |-> Latest(t)]
    BY <1>3 DEF ReadCheckpoint
  <2>2. UNCHANGED <<receipts, newer, older>>
    BY <1>3 DEF ReadCheckpoint, accelerator, vars
  <2>3. \A c \in Latest(t) : Fact(t, c)
    BY LatestIsFact
  <2>4. ReaderInv'
    BY <2>1, <2>2, <2>3 DEF ReaderInv, Fact
  <2> QED
    BY <1>1, <2>2, <2>4 DEF OrderInv
<1>4. CASE ReadReceipts \/ CrashAll
  <2>1. UNCHANGED <<receipts, newer, older>> /\ reader' = NoReader
    BY <1>4 DEF ReadReceipts, CrashAll, Crash, accelerator, vars
  <2> QED
    BY <1>1, <2>1 DEF ReaderInv, OrderInv, NoReader
<1>5. ASSUME NEW r \in Requests, Advance(r) \/ Surroundings(r) PROVE CapsuleInv'
  BY <1>1, <1>2, <1>5, StampStep DEF Advance, Surroundings
<1>6. CASE UNCHANGED allVars
  <2>1. UNCHANGED <<receipts, newer, older, reader>>
    BY <1>6 DEF allVars, accelerator, vars
  <2> QED
    BY <1>1, <1>2, <2>1 DEF OrderInv
<1> QED
  BY <1>3, <1>4, <1>5, <1>6 DEF CapsuleNext

LEMMA Invariant == CapsuleSpec => []CapsuleInv
BY CapsuleInitial, CapsuleKept, PTL DEF CapsuleSpec

----------------------------------------------------------------------------
(***************************************************************************)
(* What the capsule shows.                                                 *)
(***************************************************************************)

\* The receipts of the task after r are Later(r), so if these do not fill the
\* window then r is in it.
LEMMA InWindow ==
  ASSUME CapsuleInv, reader # NoReader, NEW r \in Of(reader.task),
         ~(Cardinality(Later(r)) >= Window)
  PROVE  r \in Newest(reader.task) /\ newer[r] \cap Of(reader.task) \subseteq Later(r)
<1>1. Later(r) \subseteq DOMAIN receipts /\ IsFiniteSet(DOMAIN receipts)
  BY DEF Later, Capsule, Of, CapsuleInv, RowsInv
<1>2. newer[r] \cap Of(reader.task) \subseteq Later(r)
  BY DEF CapsuleInv, OrderInv, Later, Capsule, Of
<1>3. IsFiniteSet(Later(r))
  BY <1>1, FS_Subset
<1>4. /\ IsFiniteSet(newer[r] \cap Of(reader.task))
      /\ Cardinality(newer[r] \cap Of(reader.task)) <= Cardinality(Later(r))
  BY <1>2, <1>3, FS_Subset
<1>5. /\ Cardinality(newer[r] \cap Of(reader.task)) \in Nat
      /\ Cardinality(Later(r)) \in Nat /\ Window \in Nat
  BY <1>3, <1>4, FS_CardinalityType, WindowAssumption
<1>6. Cardinality(newer[r] \cap Of(reader.task)) < Window
  BY <1>4, <1>5
<1> QED
  BY <1>2, <1>6 DEF Newest

LEMMA InvLists == CapsuleInv => SentIsListed
<1> SUFFICES ASSUME CapsuleInv, reader # NoReader, NEW r \in Capsule.sent,
                    ~(Cardinality(Later(r)) >= Window),
                    ~(Cardinality({s \in Later(r) : req[s].mut}) >= MaxListed)
             PROVE  r \in Capsule.doNotReplay
  BY DEF SentIsListed
<1> DEFINE listed == {s \in Newest(reader.task) : Listed(receipts[s])}
           crowd == {s \in Later(r) : req[s].mut}
<1>1. r \in flight \cup ran /\ req[r].mut /\ req[r].task = reader.task
  BY DEF Capsule
<1>2. \A s \in DOMAIN receipts : receipts[s].task = req[s].task /\ receipts[s].mut = req[s].mut
  BY DEF CapsuleInv, RowsInv, TargetInv, TypeInv, TypeOK
<1>3. r \in Of(reader.task)
  BY <1>1, <1>2 DEF CapsuleInv, OnceInv, Of
<1>4. r \in Newest(reader.task) /\ newer[r] \cap Of(reader.task) \subseteq Later(r)
  BY <1>3, InWindow
<1>5. r \in listed
  BY <1>1, <1>2, <1>3, <1>4 DEF Listed, replayPolicy, Of
<1>6. newer[r] \cap listed \subseteq crowd
  BY <1>2, <1>4 DEF Listed, Newest, Of
<1>7. crowd \subseteq DOMAIN receipts /\ IsFiniteSet(DOMAIN receipts)
  BY DEF Later, Capsule, Of, CapsuleInv, RowsInv
<1> HIDE DEF crowd, listed
<1>8. IsFiniteSet(crowd)
  BY <1>7, FS_Subset
<1>9. /\ IsFiniteSet(newer[r] \cap listed)
      /\ Cardinality(newer[r] \cap listed) <= Cardinality(crowd)
  BY <1>6, <1>8, FS_Subset
<1>10. /\ Cardinality(newer[r] \cap listed) \in Nat /\ Cardinality(crowd) \in Nat
       /\ MaxListed \in Nat
  BY <1>8, <1>9, FS_CardinalityType, WindowAssumption
<1>11. Cardinality(newer[r] \cap listed) < MaxListed
  BY <1>9, <1>10 DEF crowd
<1>12. Capsule.doNotReplay = Cut(listed)
  BY DEF Capsule, listed
<1> QED
  BY <1>5, <1>11, <1>12 DEF Cut

LEMMA InvAgrees == CapsuleInv => CapsuleAgrees
<1> SUFFICES ASSUME CapsuleInv, reader # NoReader, NEW c \in Capsule.latest,
                    ~(Cardinality(Later(c.receipt)) >= Window)
             PROVE  /\ c.receipt \in DOMAIN Capsule.shown
                    /\ c.event # "mutation.before" => Capsule.shown[c.receipt].finished
  BY DEF CapsuleAgrees
<1>1. Fact(reader.task, c)
  BY DEF Capsule, CapsuleInv, ReaderInv
<1>2. c.receipt \in Of(reader.task)
  BY <1>1 DEF Fact, Of
<1>3. c.receipt \in Newest(reader.task)
  BY <1>2, InWindow
<1>4. Capsule.shown = [r \in Newest(reader.task) |-> receipts[r]]
  BY DEF Capsule
<1> QED
  BY <1>1, <1>3, <1>4 DEF Fact

\* ResumeCapsule: a mutation that was sent, or that an external executor carried
\* out, is in do_not_replay of every capsule of its task, unless receipts that are
\* not older fill the window, or mutations among them the list.
THEOREM SentMutationsAreListed == CapsuleSpec => []SentIsListed
BY Invariant, InvLists, PTL

\* ResumeCapsule: the receipt that the latest checkpoint names is shown with it,
\* unless later ones fill the window, and is finished if the checkpoint tells
\* how the call ended, although the two are read at different times.
THEOREM CapsulesAgree == CapsuleSpec => []CapsuleAgrees
BY Invariant, InvAgrees, PTL
=============================================================================
