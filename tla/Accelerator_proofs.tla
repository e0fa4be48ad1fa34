------------------------ MODULE Accelerator_proofs ------------------------
(***************************************************************************)
(* Proofs about Accelerator for any number of requests, operations, calls, *)
(* tasks and any mix of kinds and faults.                                  *)
(***************************************************************************)
EXTENDS Accelerator, CheckpointLog_proofs

----------------------------------------------------------------------------
(***************************************************************************)
(* Type correctness.                                                       *)
(***************************************************************************)

\* A request that is about to store a receipt names an operation and a call.
TypeInv ==
  /\ TypeOK
  /\ \A r \in Requests :
       pc[r] \in {"select", "insert"} => req[r].op \in Ops /\ req[r].call \in Calls

USE DEF Preparing, Finalizing, Journaling, Outcomes

LEMMA PolicyType == ASSUME NEW row PROVE replayPolicy(row) \in Policies
BY DEF replayPolicy, Policies

LEMMA StatusType ==
  ASSUME TypeOK, NEW r \in Requests PROVE Status(r) \in Statuses \ {"licensed"}
BY DEF TypeOK, Status, Statuses, Outcomes

LEMMA FinalType ==
  ASSUME TypeOK, NEW r \in Requests
  PROVE  /\ Delivery(r) \in DeliveryStates
         /\ Result(r) \in ResultStates
         /\ Ref(r) \in Requests \cup {None}
BY DEF TypeOK, Delivery, Result, Ref, DeliveryStates, ResultStates

LEMMA TypeInit == Init => TypeInv
BY DEF Init, TypeInv, TypeOK, NoRequest, NoAnswer, PCs, DeliveryStates, ResultStates, Statuses

\* A reply, whatever its text, keeps the control state typed.
LEMMA ReplyType ==
  ASSUME TypeInv, NEW r \in Requests, NEW status \in Statuses, NEW policy \in Policies \cup {"none"},
         Reply(r, status, policy)
  PROVE  /\ pc' \in [Requests -> PCs]
         /\ answer' \in [Requests -> [status : Statuses, policy : Policies \cup {"none"}]]
         /\ \A s \in Requests : pc'[s] \in {"select", "insert"} => pc'[s] = pc[s]
BY DEF TypeInv, TypeOK, Reply, PCs

LEMMA FailType ==
  ASSUME TypeInv, NEW r \in Requests, Fail(r)
  PROVE  /\ pc' \in [Requests -> PCs]
         /\ answer' \in [Requests -> [status : Statuses, policy : Policies \cup {"none"}]]
         /\ \A s \in Requests : pc'[s] \in {"select", "insert"} => pc'[s] = pc[s]
BY ReplyType DEF Fail, Statuses

LEMMA ProceedType ==
  ASSUME TypeInv, NEW r \in Requests, Proceed(r)
  PROVE  /\ pc' \in [Requests -> PCs]
         /\ answer' \in [Requests -> [status : Statuses, policy : Policies \cup {"none"}]]
         /\ \A s \in Requests : pc'[s] \in {"select", "insert"} => pc'[s] = pc[s]
<1>1. CASE req[r].kind = "call"
  BY <1>1 DEF Proceed, TypeInv, TypeOK, PCs
<1>2. CASE req[r].kind # "call"
  BY <1>2, ReplyType DEF Proceed, Statuses
<1> QED
  BY <1>1, <1>2

\* The steps that only move the control state.
Quiet == UNCHANGED <<receipts, req, flight, ran>>

LEMMA QuietType ==
  ASSUME TypeInv, Quiet,
         pc' \in [Requests -> PCs],
         answer' \in [Requests -> [status : Statuses, policy : Policies \cup {"none"}]],
         out' \in [Requests -> Outcomes],
         \A s \in Requests : pc'[s] \in {"select", "insert"} => pc[s] \in {"select", "insert"}
  PROVE  TypeInv'
BY DEF TypeInv, TypeOK, Quiet

LEMMA TypeStep == TypeInv /\ [Next]_vars => TypeInv'
<1> SUFFICES ASSUME TypeInv, [Next]_vars PROVE TypeInv'
  OBVIOUS
<1> USE DEF Goto
<1>1. ASSUME NEW r \in Requests, Arrive(r) PROVE TypeInv'
  <2>1. PICK kind \in Kinds \ {"finalize"}, op \in OpIds \cup {r}, call \in Calls,
             mut \in Hints, task \in Tasks \cup {None} :
          /\ op = r => ~mut
          /\ req' = [req EXCEPT ![r] =
                    [NoRequest EXCEPT !.kind = kind, !.op = op, !.call = call,
                                      !.mut = mut, !.task = task, !.target = r]]
    BY <1>1 DEF Arrive
  <2>2. kind \in {"call", "prepare", "finalize"} /\ mut \in BOOLEAN /\ op \in Ops
    BY KindsAssumption, HintsAssumption DEF Ops
  <2> QED
    BY <1>1, <2>1, <2>2
       DEF Arrive, TypeInv, TypeOK, PCs, NoRequest, DeliveryStates, ResultStates
<1>2. ASSUME NEW r \in Requests, Refuse(r) PROVE TypeInv'
  BY <1>2, FailType, QuietType DEF Refuse, Quiet, TypeInv, TypeOK
<1>3. ASSUME NEW r \in Requests, ArriveFinalize(r) PROVE TypeInv'
  <2>1. PICK s \in DOMAIN receipts, final \in Finals :
          req' = [req EXCEPT ![r] =
                 [kind |-> "finalize", op |-> receipts[s].op, call |-> receipts[s].call,
                  mut |-> receipts[s].mut, task |-> receipts[s].task,
                  target |-> s, delivery |-> final[1], result |-> final[2]]]
    BY <1>3 DEF ArriveFinalize
  <2>2. final[1] \in DeliveryStates /\ final[2] \in ResultStates
    BY FinalsAssumption DEF DeliveryStates, ResultStates
  <2>3. receipts[s] \in Row /\ s \in Requests
    BY DEF TypeInv, TypeOK
  <2> QED
    BY <1>3, <2>1, <2>2, <2>3 DEF ArriveFinalize, TypeInv, TypeOK, PCs, Row
<1>4. ASSUME NEW r \in Requests, SelectReceipt(r) PROVE TypeInv'
  <2>1. ASSUME NEW s \in DOMAIN receipts, Reply(r, "deduplicated", replayPolicy(receipts[s]))
        PROVE  TypeInv'
    BY <1>4, <2>1, ReplyType, PolicyType, QuietType
       DEF SelectReceipt, Quiet, TypeInv, TypeOK, Statuses
  <2>2. CASE Fail(r)
    BY <1>4, <2>2, FailType, QuietType DEF SelectReceipt, Quiet, TypeInv, TypeOK
  <2>3. CASE pc' = [pc EXCEPT ![r] = "insert"] /\ UNCHANGED answer
    BY <1>4, <2>3, QuietType DEF SelectReceipt, Quiet, TypeInv, TypeOK, PCs
  <2> QED
    BY <1>4, <2>1, <2>2, <2>3 DEF SelectReceipt
<1>5. ASSUME NEW r \in Requests, InsertReceipt(r) PROVE TypeInv'
  <2>1. CASE Fail(r) /\ UNCHANGED receipts
    BY <1>5, <2>1, FailType, QuietType DEF InsertReceipt, Quiet, TypeInv, TypeOK
  <2>2. CASE receipts' = Prepared(r) /\ pc' = [pc EXCEPT ![r] = "reread"] /\ UNCHANGED answer
    <3>1. DOMAIN receipts' = DOMAIN receipts \cup {r} /\ receipts' \in [DOMAIN receipts' -> Row]
      BY <1>5, <2>2
         DEF InsertReceipt, Prepared, TypeInv, TypeOK, Row, DeliveryStates, ResultStates
    <3> QED
      BY <1>5, <2>2, <3>1 DEF InsertReceipt, TypeInv, TypeOK, PCs
  <2> QED
    BY <1>5, <2>1, <2>2 DEF InsertReceipt
<1>6. ASSUME NEW r \in Requests, RereadReceipt(r) PROVE TypeInv'
  BY <1>6, ProceedType, QuietType DEF RereadReceipt, Quiet, TypeInv, TypeOK, PCs
<1>7. ASSUME NEW r \in Requests, ReadTipBefore(r) \/ ReadTipAfter(r) PROVE TypeInv'
  BY <1>7, QuietType DEF ReadTipBefore, ReadTipAfter, Quiet, TypeInv, TypeOK, PCs
<1>8. ASSUME NEW r \in Requests, InsertBefore(r) PROVE TypeInv'
  BY <1>8, FailType, ProceedType, QuietType DEF InsertBefore, Quiet, TypeInv, TypeOK
<1>9. ASSUME NEW r \in Requests, ConnectFails(r) \/ CallErrs(r) \/ CallReturns(r) PROVE TypeInv'
  BY <1>9, QuietType DEF ConnectFails, CallErrs, CallReturns, Quiet, TypeInv, TypeOK, PCs
<1>10. ASSUME NEW r \in Requests, SendCall(r) PROVE TypeInv'
  BY <1>10 DEF SendCall, TypeInv, TypeOK, PCs
<1>11. ASSUME NEW r \in Requests, UpstreamRuns(r) \/ UpstreamLoses(r) \/ ExternalRuns(r)
       PROVE TypeInv'
  BY <1>11 DEF UpstreamRuns, UpstreamLoses, ExternalRuns, TypeInv, TypeOK
<1>12. ASSUME NEW r \in Requests, ShapeResult(r) PROVE TypeInv'
  BY <1>12, QuietType DEF ShapeResult, Quiet, TypeInv, TypeOK, PCs
<1>13. ASSUME NEW r \in Requests, StoreResult(r) PROVE TypeInv'
  BY <1>13, FailType, QuietType DEF StoreResult, Quiet, TypeInv, TypeOK, PCs
<1>14. ASSUME NEW r \in Requests, NEW row, AfterFinalize(r, row), Quiet, UNCHANGED out
       PROVE  TypeInv'
  <2>1. CASE Reply(r, Status(r), replayPolicy(row))
    BY <1>14, <2>1, ReplyType, StatusType, PolicyType, QuietType DEF TypeInv, TypeOK
  <2>2. CASE /\ pc' = [pc EXCEPT ![r] = "after_read"]
             /\ answer' = [answer EXCEPT ![r].policy = replayPolicy(row)]
    BY <1>14, <2>2, PolicyType, QuietType DEF TypeInv, TypeOK, PCs
  <2> QED
    BY <1>14, <2>1, <2>2 DEF AfterFinalize
<1>15. ASSUME NEW r \in Requests, FinalizeFails(r) \/ AfterFails(r), Quiet, UNCHANGED out
       PROVE  TypeInv'
  <2>1. answer[r].policy \in Policies \cup {"none"} /\ Status(r) \in Statuses
    BY StatusType DEF TypeInv, TypeOK
  <2> QED
    BY <1>15, <2>1, FailType, ReplyType, QuietType DEF FinalizeFails, AfterFails, TypeInv, TypeOK
<1>16. ASSUME NEW r \in Requests, SelectForFinalize(r) PROVE TypeInv'
  <2>1. CASE pc' = [pc EXCEPT ![r] = "fin_write"] /\ UNCHANGED answer
    BY <1>16, <2>1, QuietType DEF SelectForFinalize, Quiet, TypeInv, TypeOK, PCs
  <2> QED
    BY <1>14, <1>15, <1>16, <2>1 DEF SelectForFinalize, Quiet
<1>17. ASSUME NEW r \in Requests, UpdateReceipt(r) PROVE TypeInv'
  <2>1. receipts' \in [DOMAIN receipts' -> Row] /\ DOMAIN receipts' = DOMAIN receipts
    <3>1. ASSUME NEW s \in DOMAIN receipts PROVE receipts'[s] \in Row
      <4>1. receipts[s] \in Row
        BY DEF TypeInv, TypeOK
      <4>2. CASE s # Target(r)
        BY <1>17, <4>1, <4>2 DEF UpdateReceipt, TypeInv, TypeOK
      <4>3. CASE s = Target(r)
        <5>1. receipts'[s] = [receipts[s] EXCEPT !.delivery = Delivery(r), !.result = Result(r),
                                !.ref = Ref(r), !.finished = TRUE, !.by = r]
          BY <1>17, <4>3 DEF UpdateReceipt, TypeInv, TypeOK
        <5> QED
          BY <4>1, <5>1, FinalType DEF Row, TypeInv
      <4> QED
        BY <4>2, <4>3
    <3> QED
      BY <1>17, <3>1 DEF UpdateReceipt, TypeInv, TypeOK
  <2> QED
    BY <1>17, <2>1 DEF UpdateReceipt, TypeInv, TypeOK, PCs
<1>18. ASSUME NEW r \in Requests, RereadFinalized(r) PROVE TypeInv'
  BY <1>14, <1>18 DEF RereadFinalized, Quiet
<1>19. ASSUME NEW r \in Requests, InsertAfter(r) PROVE TypeInv'
  <2>1. CASE Reply(r, Status(r), answer[r].policy)
    <3>1. answer[r].policy \in Policies \cup {"none"} /\ Status(r) \in Statuses
      BY StatusType DEF TypeInv, TypeOK
    <3> QED
      BY <1>19, <2>1, <3>1, ReplyType, QuietType DEF InsertAfter, Quiet, TypeInv, TypeOK
  <2> QED
    BY <1>15, <1>19, <2>1 DEF InsertAfter, Quiet
<1>20. ASSUME NEW r \in Requests, StatementFails(r) PROVE TypeInv'
  <2>1. CASE Fail(r)
    BY <1>20, <2>1, FailType, QuietType DEF StatementFails, Quiet, TypeInv, TypeOK
  <2> QED
    BY <1>15, <1>20, <2>1 DEF StatementFails, Quiet
<1>21. ASSUME Crash PROVE TypeInv'
  BY <1>21, QuietType DEF Crash, Quiet, TypeInv, TypeOK, PCs
<1>22. ASSUME UNCHANGED vars PROVE TypeInv'
  BY <1>22 DEF vars, TypeInv, TypeOK
<1> QED
  BY <1>1, <1>2, <1>3, <1>4, <1>5, <1>6, <1>7, <1>8, <1>9, <1>10, <1>11, <1>12, <1>13,
     <1>16, <1>17, <1>18, <1>19, <1>20, <1>21, <1>22
     DEF Next, Step, Environment, Terminated

\* Receipts, requests and answers stay typed.
THEOREM TypeCorrect == Spec => []TypeOK
<1>1. Spec => []TypeInv
  BY TypeInit, TypeStep, PTL DEF Spec
<1> QED
  BY <1>1, PTL DEF TypeInv

----------------------------------------------------------------------------
(***************************************************************************)
(* At most once, and never without a trace.                                *)
(***************************************************************************)

\* The control states of a request whose receipt is on disk and that may still
\* reach the upstream, or has just come back from it.
Entitled == {"reread", "before_read", "before_insert", "call", "sent", "shape", "store"}
Early == {"idle", "select", "insert"}

\* What UNIQUE(operation_id) makes inductive: receipts are one per operation,
\* belong to the request that stored them, and nothing is executed, on its way
\* or licensed without one.
OnceInv ==
  /\ \A r, s \in DOMAIN receipts : receipts[r].op = receipts[s].op => r = s
  /\ \A r \in DOMAIN receipts : receipts[r].op = req[r].op /\ pc[r] \notin Early
  /\ \A r \in flight \cup ran \cup Licensed : r \in DOMAIN receipts
  /\ \A r \in Requests : pc[r] \in Entitled => r \in DOMAIN receipts

LEMMA OnceInit == Init => OnceInv
BY DEF Init, OnceInv, Licensed, NoAnswer, Entitled

LEMMA OnceImplies == OnceInv => AtMostOnce
BY DEF OnceInv, AtMostOnce

\* A step that stores, sends and executes nothing keeps OnceInv when it leads
\* nobody backwards and licenses only a request that was entitled.
LEMMA QuietOnce ==
  ASSUME OnceInv, Quiet,
         \A s \in Requests : pc'[s] \in Entitled => pc[s] \in Entitled,
         \A s \in Requests : pc'[s] \in Early => pc[s] \in Early,
         Licensed' \subseteq Licensed \cup {s \in Requests : pc[s] \in Entitled},
         DOMAIN receipts \subseteq Requests
  PROVE  OnceInv'
BY DEF OnceInv, Quiet, Licensed

LEMMA ReplyOnce ==
  ASSUME TypeInv, OnceInv, Quiet, NEW r \in Requests, NEW status, NEW policy,
         Reply(r, status, policy), status # "licensed" \/ pc[r] \in Entitled
  PROVE  OnceInv'
<1>1. Licensed' \subseteq Licensed \cup {s \in Requests : pc[s] \in Entitled}
  BY DEF Reply, Licensed, TypeInv, TypeOK
<1> QED
  BY <1>1, QuietOnce DEF Reply, Entitled, Early, TypeInv, TypeOK

LEMMA FailOnce ==
  ASSUME TypeInv, OnceInv, Quiet, NEW r \in Requests, Fail(r)
  PROVE  OnceInv'
BY ReplyOnce DEF Fail

\* Moving one request forward within its class, with no new answer.
LEMMA GotoOnce ==
  ASSUME TypeInv, OnceInv, Quiet, NEW r \in Requests, NEW to,
         pc' = [pc EXCEPT ![r] = to],
         \A s \in Requests : answer'[s].status = answer[s].status,
         to \in Entitled => pc[r] \in Entitled,
         to \in Early => pc[r] \in Early
  PROVE  OnceInv'
<1>1. Licensed' \subseteq Licensed
  BY DEF Licensed
<1> QED
  BY <1>1, QuietOnce DEF TypeInv, TypeOK

LEMMA ProceedOnce ==
  ASSUME TypeInv, OnceInv, Quiet, NEW r \in Requests, Proceed(r), pc[r] \in Entitled
  PROVE  OnceInv'
<1>1. CASE req[r].kind = "call"
  BY <1>1, GotoOnce DEF Proceed, Entitled, Early
<1>2. CASE req[r].kind # "call"
  BY <1>2, ReplyOnce DEF Proceed
<1> QED
  BY <1>1, <1>2

LEMMA AfterFinalizeOnce ==
  ASSUME TypeInv, OnceInv, Quiet, NEW r \in Requests, NEW row, AfterFinalize(r, row)
  PROVE  OnceInv'
<1>1. CASE Reply(r, Status(r), replayPolicy(row))
  BY <1>1, ReplyOnce, StatusType DEF TypeInv
<1>2. CASE /\ pc' = [pc EXCEPT ![r] = "after_read"]
           /\ answer' = [answer EXCEPT ![r].policy = replayPolicy(row)]
  <2>1. \A s \in Requests : answer'[s].status = answer[s].status
    BY <1>2 DEF TypeInv, TypeOK
  <2> QED
    BY <1>2, <2>1, GotoOnce DEF Entitled, Early
<1> QED
  BY <1>1, <1>2 DEF AfterFinalize

LEMMA FailsOnce ==
  ASSUME TypeInv, OnceInv, Quiet, NEW r \in Requests, FinalizeFails(r) \/ AfterFails(r)
  PROVE  OnceInv'
BY ReplyOnce, FailOnce, StatusType DEF FinalizeFails, AfterFails, TypeInv

LEMMA OnceStep == TypeInv /\ OnceInv /\ [Next]_vars => OnceInv'
<1> SUFFICES ASSUME TypeInv, OnceInv, [Next]_vars PROVE OnceInv'
  OBVIOUS
<1> USE DEF Goto
<1>1. ASSUME NEW r \in Requests, Arrive(r) \/ ArriveFinalize(r) PROVE OnceInv'
  <2>1. r \notin DOMAIN receipts /\ pc[r] = "idle"
    BY <1>1 DEF Arrive, ArriveFinalize, OnceInv, Early
  <2>2. \A s \in Requests : s # r => req'[s] = req[s] /\ pc'[s] = pc[s]
    BY <1>1 DEF Arrive, ArriveFinalize, TypeInv, TypeOK
  <2>3. pc'[r] \notin Entitled
    BY <1>1 DEF Arrive, ArriveFinalize, Entitled, TypeInv, TypeOK
  <2>4. UNCHANGED <<receipts, answer, flight, ran>>
    BY <1>1 DEF Arrive, ArriveFinalize
  <2> QED
    BY <2>1, <2>2, <2>3, <2>4 DEF OnceInv, Licensed, TypeInv, TypeOK
<1>2. ASSUME NEW r \in Requests, Refuse(r) PROVE OnceInv'
  BY <1>2, FailOnce DEF Refuse, Quiet
<1>3. ASSUME NEW r \in Requests, SelectReceipt(r) PROVE OnceInv'
  BY <1>3, FailOnce, ReplyOnce, GotoOnce DEF SelectReceipt, Quiet, Entitled, Early
<1>4. ASSUME NEW r \in Requests, InsertReceipt(r) PROVE OnceInv'
  <2>1. CASE Fail(r) /\ UNCHANGED receipts
    BY <1>4, <2>1, FailOnce DEF InsertReceipt, Quiet
  <2>2. CASE /\ \A s \in DOMAIN receipts : receipts[s].op # req[r].op
             /\ receipts' = Prepared(r)
             /\ pc' = [pc EXCEPT ![r] = "reread"]
             /\ UNCHANGED answer
    <3>1. DOMAIN receipts' = DOMAIN receipts \cup {r}
      BY <2>2 DEF Prepared
    <3>2. receipts'[r].op = req[r].op /\ \A s \in DOMAIN receipts \ {r} : receipts'[s] = receipts[s]
      BY <2>2 DEF Prepared
    <3>3. \A s \in Requests \ {r} : pc'[s] = pc[s]
      BY <2>2 DEF TypeInv, TypeOK
    <3>4. UNCHANGED <<req, flight, ran, answer>> /\ pc'[r] = "reread"
      BY <1>4, <2>2 DEF InsertReceipt, TypeInv, TypeOK
    <3>5. r \notin DOMAIN receipts
      BY <1>4 DEF InsertReceipt, OnceInv, Early
    <3> QED
      BY <2>2, <3>1, <3>2, <3>3, <3>4, <3>5 DEF OnceInv, Licensed, Early, TypeInv, TypeOK
  <2> QED
    BY <1>4, <2>1, <2>2 DEF InsertReceipt
<1>5. ASSUME NEW r \in Requests, RereadReceipt(r) PROVE OnceInv'
  BY <1>5, GotoOnce, ProceedOnce DEF RereadReceipt, Quiet, Entitled, Early
<1>6. ASSUME NEW r \in Requests, ReadTipBefore(r) \/ ReadTipAfter(r) PROVE OnceInv'
  BY <1>6, GotoOnce DEF ReadTipBefore, ReadTipAfter, Quiet, Entitled, Early
<1>7. ASSUME NEW r \in Requests, InsertBefore(r) PROVE OnceInv'
  BY <1>7, FailOnce, ProceedOnce DEF InsertBefore, Quiet, Entitled
<1>8. ASSUME NEW r \in Requests, ConnectFails(r) \/ CallErrs(r) \/ CallReturns(r) \/ ShapeResult(r)
      PROVE  OnceInv'
  BY <1>8, GotoOnce
     DEF ConnectFails, CallErrs, CallReturns, ShapeResult, Quiet, Entitled, Early
<1>9. ASSUME NEW r \in Requests, SendCall(r) PROVE OnceInv'
  <2>1. r \in DOMAIN receipts
    BY <1>9 DEF SendCall, OnceInv, Entitled
  <2> QED
    BY <1>9, <2>1 DEF SendCall, OnceInv, Licensed, Entitled, Early, TypeInv, TypeOK
<1>10. ASSUME NEW r \in Requests, UpstreamRuns(r) \/ UpstreamLoses(r) \/ ExternalRuns(r)
       PROVE OnceInv'
  BY <1>10 DEF UpstreamRuns, UpstreamLoses, ExternalRuns, OnceInv, Licensed
<1>11. ASSUME NEW r \in Requests, StoreResult(r) PROVE OnceInv'
  BY <1>11, FailOnce, GotoOnce DEF StoreResult, Quiet, Entitled, Early
<1>12. ASSUME NEW r \in Requests, SelectForFinalize(r) PROVE OnceInv'
  BY <1>12, GotoOnce, AfterFinalizeOnce, FailsOnce DEF SelectForFinalize, Quiet, Entitled, Early
<1>13. ASSUME NEW r \in Requests, UpdateReceipt(r) PROVE OnceInv'
  <2>1. DOMAIN receipts' = DOMAIN receipts
    BY <1>13 DEF UpdateReceipt
  <2>2. ASSUME NEW s \in DOMAIN receipts PROVE receipts'[s].op = receipts[s].op
    <3>1. receipts[s] \in Row
      BY DEF TypeInv, TypeOK
    <3>2. CASE s # Target(r)
      BY <1>13, <3>2 DEF UpdateReceipt, TypeInv, TypeOK
    <3>3. CASE s = Target(r)
      <4>1. receipts'[s] = [receipts[s] EXCEPT !.delivery = Delivery(r), !.result = Result(r),
                              !.ref = Ref(r), !.finished = TRUE, !.by = r]
        BY <1>13, <3>3 DEF UpdateReceipt, TypeInv, TypeOK
      <4> QED
        BY <3>1, <4>1 DEF Row
    <3> QED
      BY <3>2, <3>3
  <2>3. UNCHANGED <<req, flight, ran, answer>>
    BY <1>13 DEF UpdateReceipt
  <2>4. \A s \in Requests : pc'[s] = pc[s] \/ (s = r /\ pc'[s] = "fin_reread")
    BY <1>13 DEF UpdateReceipt, TypeInv, TypeOK
  <2> QED
    BY <2>1, <2>2, <2>3, <2>4 DEF OnceInv, Licensed, Entitled, Early, TypeInv, TypeOK
<1>14. ASSUME NEW r \in Requests, RereadFinalized(r) PROVE OnceInv'
  BY <1>14, AfterFinalizeOnce DEF RereadFinalized, Quiet
<1>15. ASSUME NEW r \in Requests, InsertAfter(r) PROVE OnceInv'
  BY <1>15, ReplyOnce, FailsOnce, StatusType DEF InsertAfter, Quiet, TypeInv
<1>16. ASSUME NEW r \in Requests, StatementFails(r) PROVE OnceInv'
  BY <1>16, FailOnce, FailsOnce DEF StatementFails, Quiet
<1>17. ASSUME Crash PROVE OnceInv'
  <2>1. \A s \in Requests : pc'[s] = pc[s] \/ pc'[s] = "dead"
    BY <1>17 DEF Crash
  <2> QED
    BY <1>17, <2>1, QuietOnce DEF Crash, Quiet, Licensed, Entitled, Early, TypeInv, TypeOK
<1>18. ASSUME UNCHANGED vars PROVE OnceInv'
  BY <1>18 DEF vars, OnceInv, Licensed
<1> QED
  BY <1>1, <1>2, <1>3, <1>4, <1>5, <1>6, <1>7, <1>8, <1>9, <1>10, <1>11, <1>12, <1>13,
     <1>14, <1>15, <1>16, <1>17, <1>18
     DEF Next, Step, Environment, Terminated

\* However requests race, retry, fail or die, at most one of those that name an
\* operation id reaches the upstream or is licensed to execute elsewhere.
THEOREM OperationsRunAtMostOnce == Spec => []AtMostOnce
<1>1. Init => TypeInv /\ OnceInv
  BY TypeInit, OnceInit
<1>2. TypeInv /\ OnceInv /\ [Next]_vars => (TypeInv /\ OnceInv)'
  BY TypeStep, OnceStep
<1>3. TypeInv /\ OnceInv => AtMostOnce
  BY OnceImplies
<1> QED
  BY <1>1, <1>2, <1>3, PTL DEF Spec

----------------------------------------------------------------------------
(***************************************************************************)
(* The checkpoints: one chain per task, and a mutation.before first.       *)
(***************************************************************************)

Journal == {"before_read", "before_insert", "after_read", "after_insert"}
Inserting == {"before_insert", "after_insert"}

\* Why concurrent writers keep one chain: what each is about to insert after was
\* a tip once, and checkpoints are written for tasks only.
ChainInv ==
  /\ OneChain
  /\ DOMAIN tip = Requests
  /\ \A r \in Requests : pc[r] \in Journal => req[r].task \in Tasks
  /\ \A r \in Requests : pc[r] \in Inserting => OnceTip(log, req[r].task, tip[r])

LEMMA ChainInit == Init => ChainInv
BY DEF Init, ChainInv, OneChain, Chain, Rows, Seqs, Journal, Inserting

\* Steps that write no checkpoint and read no tip.
LEMMA QuietChain ==
  ASSUME ChainInv, UNCHANGED <<log, tip>>,
         \A s \in Requests : pc'[s] \in Journal =>
           req'[s].task = req[s].task /\ (pc[s] \in Journal \/ req[s].task \in Tasks),
         \A s \in Requests : pc'[s] \in Inserting => pc[s] \in Inserting
  PROVE  ChainInv'
BY DEF ChainInv, OneChain, Journal, Inserting

LEMMA ReplyChain ==
  ASSUME TypeInv, ChainInv, UNCHANGED <<log, tip, req>>, NEW r \in Requests,
         NEW status, NEW policy, Reply(r, status, policy)
  PROVE  ChainInv'
BY QuietChain DEF Reply, Journal, Inserting, TypeInv, TypeOK

LEMMA FailChain ==
  ASSUME TypeInv, ChainInv, UNCHANGED <<log, tip, req>>, NEW r \in Requests, Fail(r)
  PROVE  ChainInv'
BY ReplyChain DEF Fail

LEMMA GotoChain ==
  ASSUME TypeInv, ChainInv, UNCHANGED <<log, tip, req>>, NEW r \in Requests, NEW to,
         pc' = [pc EXCEPT ![r] = to],
         to \notin Inserting, to \in Journal => req[r].task \in Tasks
  PROVE  ChainInv'
BY QuietChain DEF Journal, Inserting, TypeInv, TypeOK

LEMMA AfterFinalizeChain ==
  ASSUME TypeInv, ChainInv, UNCHANGED <<log, tip, req>>, NEW r \in Requests,
         NEW row, AfterFinalize(r, row)
  PROVE  ChainInv'
<1>1. Journaled(r) => req[r].task \in Tasks
  BY DEF Journaled, TypeInv, TypeOK
<1> QED
  BY <1>1, ReplyChain, GotoChain DEF AfterFinalize, Inserting

LEMMA FailsChain ==
  ASSUME TypeInv, ChainInv, UNCHANGED <<log, tip, req>>, NEW r \in Requests,
         FinalizeFails(r) \/ AfterFails(r)
  PROVE  ChainInv'
BY ReplyChain, FailChain DEF FinalizeFails, AfterFails

\* The INSERT: it extends the chain of its own task and touches no other, and
\* what others once read stays on the chain.
LEMMA CheckpointChain ==
  ASSUME TypeInv, ChainInv, UNCHANGED <<tip, req>>, NEW r \in Requests, NEW event,
         pc[r] \in Inserting, Fits(log, req[r].task, tip[r]), Checkpoint(r, event),
         \A s \in Requests : pc'[s] \in Journal => pc'[s] = pc[s]
  PROVE  ChainInv'
<1>1. PICK body : log' = log \cup {Entry(req[r].task, tip[r], <<r, event>>, body)}
  BY DEF Checkpoint
<1>2. req[r].task \in Tasks /\ OnceTip(log, req[r].task, tip[r])
  BY DEF ChainInv, Journal, Inserting
<1>3. ASSUME NEW t \in Tasks PROVE Chain(log', t)
  <2>1. Chain(log, t)
    BY DEF ChainInv, OneChain
  <2>2. CASE t = req[r].task
    BY <1>1, <1>2, <2>1, <2>2, ChainExtends
  <2>3. CASE t # req[r].task
    BY <1>1, <2>1, <2>3, OtherChain
  <2> QED
    BY <2>2, <2>3
<1>4. ASSUME NEW s \in Requests, pc'[s] \in Inserting PROVE OnceTip(log', req[s].task, tip[s])
  <2>1. OnceTip(log, req[s].task, tip[s])
    BY <1>4 DEF ChainInv, Journal, Inserting
  <2> QED
    BY <1>1, <2>1, TipStays
<1>5. \A s \in Requests : pc'[s] \in Journal => req[s].task \in Tasks
  BY DEF ChainInv
<1>6. DOMAIN tip' = Requests
  BY DEF ChainInv
<1> QED
  BY <1>3, <1>4, <1>5, <1>6 DEF ChainInv, OneChain

LEMMA ReadTipChain ==
  ASSUME TypeInv, ChainInv, UNCHANGED <<log, req>>, NEW r \in Requests, NEW to,
         pc[r] \in Journal, pc' = [pc EXCEPT ![r] = to],
         tip' = [tip EXCEPT ![r] = Tip(log, req[r].task)]
  PROVE  ChainInv'
<1>1. req[r].task \in Tasks
  BY DEF ChainInv
<1>2. OnceTip(log, req[r].task, Tip(log, req[r].task))
  BY <1>1, TipOnChain DEF ChainInv, OneChain
<1>3. ASSUME NEW s \in Requests, pc'[s] \in Inserting
      PROVE  OnceTip(log', req'[s].task, tip'[s])
  <2>1. CASE s = r
    BY <1>2, <2>1 DEF ChainInv
  <2>2. CASE s # r
    BY <1>3, <2>2 DEF ChainInv, TypeInv, TypeOK
  <2> QED
    BY <2>1, <2>2
<1>4. \A s \in Requests : pc'[s] \in Journal => req'[s].task \in Tasks
  BY <1>1 DEF ChainInv, TypeInv, TypeOK
<1>5. DOMAIN tip' = Requests
  BY DEF ChainInv
<1> QED
  BY <1>3, <1>4, <1>5 DEF ChainInv, OneChain

LEMMA ProceedChain ==
  ASSUME TypeInv, ChainInv, UNCHANGED <<log, tip, req>>, NEW r \in Requests, Proceed(r)
  PROVE  ChainInv'
BY ReplyChain, GotoChain DEF Proceed, Journal, Inserting

\* Proceed and Reply put nobody at a journaling statement.
LEMMA LeaveJournal ==
  ASSUME TypeInv, NEW r \in Requests, NEW status, NEW policy,
         Proceed(r) \/ Reply(r, status, policy)
  PROVE  \A s \in Requests : pc'[s] \in Journal => pc'[s] = pc[s]
BY DEF Proceed, Reply, Journal, TypeInv, TypeOK

LEMMA ChainStep == TypeInv /\ OnceInv /\ ChainInv /\ [Next]_vars => ChainInv'
<1> SUFFICES ASSUME TypeInv, OnceInv, ChainInv, [Next]_vars PROVE ChainInv'
  OBVIOUS
<1> USE DEF Goto
<1>1. ASSUME NEW r \in Requests, Arrive(r) \/ ArriveFinalize(r) PROVE ChainInv'
  <2>1. \A s \in Requests : pc'[s] \in Journal => s # r /\ pc'[s] = pc[s] /\ req'[s] = req[s]
    BY <1>1 DEF Arrive, ArriveFinalize, Journal, TypeInv, TypeOK
  <2> QED
    BY <1>1, <2>1, QuietChain DEF Arrive, ArriveFinalize, Journal, Inserting
<1>2. ASSUME NEW r \in Requests, Refuse(r) PROVE ChainInv'
  BY <1>2, FailChain DEF Refuse
<1>3. ASSUME NEW r \in Requests, SelectReceipt(r) PROVE ChainInv'
  BY <1>3, FailChain, ReplyChain, GotoChain DEF SelectReceipt, Journal, Inserting
<1>4. ASSUME NEW r \in Requests, InsertReceipt(r) PROVE ChainInv'
  BY <1>4, FailChain, GotoChain DEF InsertReceipt, Journal, Inserting
<1>5. ASSUME NEW r \in Requests, RereadReceipt(r) PROVE ChainInv'
  <2>1. Journaled(r) => req[r].task \in Tasks
    BY DEF Journaled, TypeInv, TypeOK
  <2> QED
    BY <1>5, <2>1, GotoChain, ProceedChain DEF RereadReceipt, Journal, Inserting
<1>6. ASSUME NEW r \in Requests, ReadTipBefore(r) \/ ReadTipAfter(r) PROVE ChainInv'
  BY <1>6, ReadTipChain DEF ReadTipBefore, ReadTipAfter, Journal
<1>7. ASSUME NEW r \in Requests, InsertBefore(r) PROVE ChainInv'
  <2>1. CASE Fail(r) /\ UNCHANGED log
    BY <1>7, <2>1, FailChain DEF InsertBefore
  <2>2. CASE Fits(log, req[r].task, tip[r]) /\ Checkpoint(r, "mutation.before") /\ Proceed(r)
    BY <1>7, <2>2, CheckpointChain, LeaveJournal DEF InsertBefore, Inserting
  <2> QED
    BY <1>7, <2>1, <2>2 DEF InsertBefore
<1>8. ASSUME NEW r \in Requests,
             ConnectFails(r) \/ CallErrs(r) \/ CallReturns(r) \/ ShapeResult(r) \/ SendCall(r)
      PROVE  ChainInv'
  BY <1>8, GotoChain
     DEF ConnectFails, CallErrs, CallReturns, ShapeResult, SendCall, Journal, Inserting
<1>9. ASSUME NEW r \in Requests, UpstreamRuns(r) \/ UpstreamLoses(r) \/ ExternalRuns(r)
      PROVE ChainInv'
  BY <1>9, QuietChain DEF UpstreamRuns, UpstreamLoses, ExternalRuns
<1>10. ASSUME NEW r \in Requests, StoreResult(r) PROVE ChainInv'
  BY <1>10, FailChain, GotoChain DEF StoreResult, Journal, Inserting
<1>11. ASSUME NEW r \in Requests, SelectForFinalize(r) PROVE ChainInv'
  BY <1>11, GotoChain, AfterFinalizeChain, FailsChain
     DEF SelectForFinalize, Journal, Inserting
<1>12. ASSUME NEW r \in Requests, UpdateReceipt(r) PROVE ChainInv'
  BY <1>12, GotoChain DEF UpdateReceipt, Journal, Inserting
<1>13. ASSUME NEW r \in Requests, RereadFinalized(r) PROVE ChainInv'
  BY <1>13, AfterFinalizeChain DEF RereadFinalized
<1>14. ASSUME NEW r \in Requests, InsertAfter(r) PROVE ChainInv'
  <2>1. CASE AfterFails(r) /\ UNCHANGED log
    BY <1>14, <2>1, FailsChain DEF InsertAfter
  <2>2. CASE /\ Fits(log, req[r].task, tip[r])
             /\ Checkpoint(r, Event(r))
             /\ Reply(r, Status(r), answer[r].policy)
    BY <1>14, <2>2, CheckpointChain, LeaveJournal DEF InsertAfter, Inserting
  <2> QED
    BY <1>14, <2>1, <2>2 DEF InsertAfter
<1>15. ASSUME NEW r \in Requests, StatementFails(r) PROVE ChainInv'
  BY <1>15, FailChain, FailsChain DEF StatementFails
<1>16. ASSUME Crash PROVE ChainInv'
  <2>1. \A s \in Requests : pc'[s] = pc[s] \/ pc'[s] = "dead"
    BY <1>16 DEF Crash
  <2> QED
    BY <1>16, <2>1, QuietChain DEF Crash, Journal, Inserting
<1>17. ASSUME UNCHANGED vars PROVE ChainInv'
  BY <1>17, QuietChain DEF vars
<1> QED
  BY <1>1, <1>2, <1>3, <1>4, <1>5, <1>6, <1>7, <1>8, <1>9, <1>10, <1>11, <1>12, <1>13,
     <1>14, <1>15, <1>16, <1>17
     DEF Next, Step, Environment, Terminated

\* The checkpoints of each task form one gap-free chain, whoever races whom.
THEOREM CheckpointsFormOneChain == Spec => []OneChain
<1>1. Init => TypeInv /\ OnceInv /\ ChainInv
  BY TypeInit, OnceInit, ChainInit
<1>2. TypeInv /\ OnceInv /\ ChainInv /\ [Next]_vars => (TypeInv /\ OnceInv /\ ChainInv)'
  BY TypeStep, OnceStep, ChainStep
<1>3. ChainInv => OneChain
  BY DEF ChainInv
<1> QED
  BY <1>1, <1>2, <1>3, PTL DEF Spec

----------------------------------------------------------------------------
(***************************************************************************)
(* Write-ahead: the receipt and mutation.before come before the call.      *)
(***************************************************************************)

Before(r) == \E c \in Rows(log, req[r].task) :
               c.body = [event |-> "mutation.before", receipt |-> r]

\* Past the journaling of the call, or no longer under the Bridge's control.
Underway(r) ==
  pc[r] \in {"call", "sent", "shape", "store"} \/ r \in flight \cup ran \cup Licensed

AheadInv ==
  /\ \A r \in Requests : Underway(r) /\ Journaled(r) => Before(r)
  /\ \A r \in Requests :
       pc[r] \in {"select", "insert"} \cup Entitled => req[r].target = r

Pending == {"select", "insert"} \cup Entitled

LEMMA AheadInit == Init => AheadInv
BY DEF Init, AheadInv, Underway, Licensed, NoAnswer, Entitled

LEMMA AheadImplies == TypeInv /\ OnceInv /\ AheadInv => WriteAhead
<1> SUFFICES ASSUME TypeInv, OnceInv, AheadInv, NEW r \in flight \cup ran \cup Licensed
             PROVE  r \in DOMAIN receipts /\ (Journaled(r) => Before(r))
  BY DEF WriteAhead, Before
<1>1. r \in DOMAIN receipts
  BY DEF OnceInv
<1>2. r \in Requests
  BY <1>1 DEF TypeInv, TypeOK
<1> QED
  BY <1>1, <1>2 DEF AheadInv, Underway

\* Checkpoints are only added, so a step that changes no arguments keeps the
\* trace of everything that was underway; what gets underway must have its own.
LEMMA StillAhead ==
  ASSUME AheadInv, UNCHANGED req, log \subseteq log',
         \A s \in Requests : Underway(s)' => Underway(s) \/ (Journaled(s) => Before(s)'),
         \A s \in Requests : pc'[s] \in Pending => pc[s] \in Pending
  PROVE  AheadInv'
<1>1. ASSUME NEW s \in Requests, Underway(s)', Journaled(s)' PROVE Before(s)'
  <2>1. Journaled(s)
    BY <1>1 DEF Journaled
  <2>2. CASE Underway(s)
    BY <2>1, <2>2 DEF AheadInv, Before, Rows
  <2> QED
    BY <1>1, <2>1, <2>2
<1> QED
  BY <1>1 DEF AheadInv, Pending

LEMMA ReplyAhead ==
  ASSUME TypeInv, AheadInv, NEW r \in Requests, NEW status, NEW policy, Reply(r, status, policy),
         UNCHANGED <<req, flight, ran>>, log \subseteq log',
         status # "licensed" \/ (Journaled(r) => Before(r)')
  PROVE  AheadInv'
<1>1. \A s \in Requests : Underway(s)' => Underway(s) \/ (Journaled(s) => Before(s)')
  BY DEF Reply, Underway, Licensed, TypeInv, TypeOK
<1> QED
  BY <1>1, StillAhead DEF Reply, Pending, Entitled, TypeInv, TypeOK

LEMMA FailAhead ==
  ASSUME TypeInv, AheadInv, NEW r \in Requests, Fail(r),
         UNCHANGED <<req, flight, ran>>, log \subseteq log'
  PROVE  AheadInv'
BY ReplyAhead DEF Fail

LEMMA GotoAhead ==
  ASSUME TypeInv, AheadInv, NEW r \in Requests, NEW to, pc' = [pc EXCEPT ![r] = to],
         UNCHANGED <<req, flight, ran>>, log \subseteq log',
         \A s \in Requests : answer'[s].status = answer[s].status,
         \/ to \notin {"call", "sent", "shape", "store"}
         \/ Underway(r)
         \/ Journaled(r) => Before(r)',
         to \in Pending => pc[r] \in Pending
  PROVE  AheadInv'
<1>1. Licensed' = Licensed
  BY DEF Licensed
<1>2. \A s \in Requests : Underway(s)' => Underway(s) \/ (Journaled(s) => Before(s)')
  BY <1>1 DEF Underway, TypeInv, TypeOK
<1> QED
  BY <1>2, StillAhead DEF TypeInv, TypeOK

LEMMA ProceedAhead ==
  ASSUME TypeInv, AheadInv, NEW r \in Requests, Proceed(r), pc[r] \in Pending,
         UNCHANGED <<req, flight, ran>>, log \subseteq log', Journaled(r) => Before(r)'
  PROVE  AheadInv'
<1>1. CASE req[r].kind = "call"
  BY <1>1, GotoAhead DEF Proceed
<1>2. CASE req[r].kind # "call"
  BY <1>2, ReplyAhead DEF Proceed
<1> QED
  BY <1>1, <1>2

LEMMA AfterFinalizeAhead ==
  ASSUME TypeInv, AheadInv, NEW r \in Requests, NEW row, AfterFinalize(r, row),
         UNCHANGED <<req, flight, ran, log>>
  PROVE  AheadInv'
<1>1. CASE Reply(r, Status(r), replayPolicy(row))
  BY <1>1, ReplyAhead, StatusType DEF TypeInv
<1>2. CASE /\ pc' = [pc EXCEPT ![r] = "after_read"]
           /\ answer' = [answer EXCEPT ![r].policy = replayPolicy(row)]
  <2>1. \A s \in Requests : answer'[s].status = answer[s].status
    BY <1>2 DEF TypeInv, TypeOK
  <2> QED
    BY <1>2, <2>1, GotoAhead DEF Pending, Entitled
<1> QED
  BY <1>1, <1>2 DEF AfterFinalize

LEMMA FailsAhead ==
  ASSUME TypeInv, AheadInv, NEW r \in Requests, FinalizeFails(r) \/ AfterFails(r),
         UNCHANGED <<req, flight, ran, log>>
  PROVE  AheadInv'
BY ReplyAhead, FailAhead, StatusType DEF FinalizeFails, AfterFails, TypeInv

LEMMA AheadStep == TypeInv /\ OnceInv /\ AheadInv /\ [Next]_vars => AheadInv'
<1> SUFFICES ASSUME TypeInv, OnceInv, AheadInv, [Next]_vars PROVE AheadInv'
  OBVIOUS
<1> USE DEF Goto
<1>1. ASSUME NEW r \in Requests, Arrive(r) \/ ArriveFinalize(r) PROVE AheadInv'
  <2>1. pc[r] = "idle" /\ ~Underway(r)
    BY <1>1 DEF Arrive, ArriveFinalize, Underway, OnceInv, Early
  <2>2. \A s \in Requests : s # r => req'[s] = req[s] /\ pc'[s] = pc[s]
    BY <1>1 DEF Arrive, ArriveFinalize, TypeInv, TypeOK
  <2>3. UNCHANGED <<log, answer, flight, ran>> /\ pc'[r] \in {"select", "fin_read"}
    BY <1>1 DEF Arrive, ArriveFinalize, TypeInv, TypeOK
  <2>4. ~Underway(r)'
    BY <2>1, <2>3 DEF Underway, Licensed
  <2>5. ASSUME NEW s \in Requests, Underway(s)', Journaled(s)' PROVE Before(s)'
    <3>1. s # r /\ Underway(s) /\ Journaled(s)
      BY <2>2, <2>3, <2>4, <2>5 DEF Underway, Licensed, Journaled
    <3> QED
      BY <2>2, <2>3, <3>1 DEF AheadInv, Before
  <2>6. pc'[r] = "select" => req'[r].target = r
    <3>1. CASE Arrive(r)
      <4>1. PICK kind \in Kinds \ {"finalize"}, op \in OpIds \cup {r}, call \in Calls,
                 mut \in Hints, task \in Tasks \cup {None} :
              /\ op = r => ~mut
              /\ req' = [req EXCEPT ![r] =
                    [NoRequest EXCEPT !.kind = kind, !.op = op, !.call = call,
                                      !.mut = mut, !.task = task, !.target = r]]
        BY <3>1 DEF Arrive
      <4> QED
        BY <4>1 DEF NoRequest, TypeInv, TypeOK
    <3>2. CASE ArriveFinalize(r)
      BY <3>2 DEF ArriveFinalize, TypeInv, TypeOK
    <3> QED
      BY <1>1, <3>1, <3>2
  <2> QED
    BY <2>2, <2>3, <2>5, <2>6 DEF AheadInv, Entitled
<1>2. ASSUME NEW r \in Requests, Refuse(r) PROVE AheadInv'
  BY <1>2, FailAhead DEF Refuse
<1>3. ASSUME NEW r \in Requests, SelectReceipt(r) PROVE AheadInv'
  BY <1>3, FailAhead, ReplyAhead, GotoAhead DEF SelectReceipt, Pending
<1>4. ASSUME NEW r \in Requests, InsertReceipt(r) PROVE AheadInv'
  BY <1>4, FailAhead, GotoAhead DEF InsertReceipt, Pending, Entitled
<1>5. ASSUME NEW r \in Requests, RereadReceipt(r) PROVE AheadInv'
  BY <1>5, GotoAhead, ProceedAhead DEF RereadReceipt, Pending, Entitled
<1>6. ASSUME NEW r \in Requests, ReadTipBefore(r) \/ ReadTipAfter(r) PROVE AheadInv'
  BY <1>6, GotoAhead DEF ReadTipBefore, ReadTipAfter, Pending, Entitled
<1>7. ASSUME NEW r \in Requests, InsertBefore(r) PROVE AheadInv'
  <2>1. CASE Fail(r) /\ UNCHANGED log
    BY <1>7, <2>1, FailAhead DEF InsertBefore
  <2>2. CASE Checkpoint(r, "mutation.before") /\ Proceed(r)
    <3>1. Target(r) = r
      BY <1>7 DEF InsertBefore, AheadInv, Entitled, Target
    <3>2. log \subseteq log' /\ Before(r)'
      <4> DEFINE new == Entry(req[r].task, tip[r], <<r, "mutation.before">>,
                              [event |-> "mutation.before", receipt |-> r])
      <4>1. log' = log \cup {new}
        BY <2>2, <3>1 DEF Checkpoint
      <4>2. new.task = req[r].task /\ new.body = [event |-> "mutation.before", receipt |-> r]
        BY DEF Entry
      <4>3. req' = req
        BY <1>7 DEF InsertBefore
      <4> HIDE DEF new
      <4>4. new \in Rows(log', req'[r].task)
        BY <4>1, <4>2, <4>3 DEF Rows
      <4> QED
        BY <4>1, <4>2, <4>4 DEF Before
    <3> QED
      BY <1>7, <2>2, <3>2, ProceedAhead DEF InsertBefore, Pending, Entitled
  <2> QED
    BY <1>7, <2>1, <2>2 DEF InsertBefore
<1>8. ASSUME NEW r \in Requests, ConnectFails(r) \/ CallErrs(r) \/ CallReturns(r) \/ ShapeResult(r)
      PROVE  AheadInv'
  BY <1>8, GotoAhead
     DEF ConnectFails, CallErrs, CallReturns, ShapeResult, Pending, Entitled, Underway
<1>9. ASSUME NEW r \in Requests,
             SendCall(r) \/ UpstreamRuns(r) \/ UpstreamLoses(r) \/ ExternalRuns(r)
      PROVE  AheadInv'
  <2>1. \A s \in Requests : Underway(s)' => Underway(s)
    BY <1>9 DEF SendCall, UpstreamRuns, UpstreamLoses, ExternalRuns, Underway, Licensed,
                TypeInv, TypeOK
  <2>2. \A s \in Requests : pc'[s] \in Pending => pc[s] \in Pending
    BY <1>9 DEF SendCall, UpstreamRuns, UpstreamLoses, ExternalRuns, Pending, Entitled,
                TypeInv, TypeOK
  <2>3. UNCHANGED <<req, log>>
    BY <1>9 DEF SendCall, UpstreamRuns, UpstreamLoses, ExternalRuns
  <2> QED
    BY <2>1, <2>2, <2>3, StillAhead
<1>10. ASSUME NEW r \in Requests, StoreResult(r) PROVE AheadInv'
  BY <1>10, FailAhead, GotoAhead DEF StoreResult, Pending, Entitled
<1>11. ASSUME NEW r \in Requests, SelectForFinalize(r) PROVE AheadInv'
  BY <1>11, GotoAhead, AfterFinalizeAhead, FailsAhead DEF SelectForFinalize, Pending, Entitled
<1>12. ASSUME NEW r \in Requests, UpdateReceipt(r) PROVE AheadInv'
  BY <1>12, GotoAhead DEF UpdateReceipt, Pending, Entitled
<1>13. ASSUME NEW r \in Requests, RereadFinalized(r) PROVE AheadInv'
  BY <1>13, AfterFinalizeAhead DEF RereadFinalized
<1>14. ASSUME NEW r \in Requests, InsertAfter(r) PROVE AheadInv'
  <2>1. CASE AfterFails(r) /\ UNCHANGED log
    BY <1>14, <2>1, FailsAhead DEF InsertAfter
  <2>2. CASE Checkpoint(r, Event(r)) /\ Reply(r, Status(r), answer[r].policy)
    <3>1. log \subseteq log'
      BY <2>2 DEF Checkpoint
    <3> QED
      BY <1>14, <2>2, <3>1, ReplyAhead, StatusType DEF InsertAfter, TypeInv
  <2> QED
    BY <1>14, <2>1, <2>2 DEF InsertAfter
<1>15. ASSUME NEW r \in Requests, StatementFails(r) PROVE AheadInv'
  BY <1>15, FailAhead, FailsAhead DEF StatementFails
<1>16. ASSUME Crash PROVE AheadInv'
  <2>1. \A s \in Requests : pc'[s] = pc[s] \/ pc'[s] = "dead"
    BY <1>16 DEF Crash
  <2>2. \A s \in Requests : Underway(s)' => Underway(s)
    BY <1>16, <2>1 DEF Crash, Underway, Licensed
  <2> QED
    BY <1>16, <2>1, <2>2, StillAhead DEF Crash, Pending, Entitled
<1>17. ASSUME UNCHANGED vars PROVE AheadInv'
  BY <1>17, StillAhead DEF vars, Underway, Licensed
<1> QED
  BY <1>1, <1>2, <1>3, <1>4, <1>5, <1>6, <1>7, <1>8, <1>9, <1>10, <1>11, <1>12, <1>13,
     <1>14, <1>15, <1>16, <1>17
     DEF Next, Step, Environment, Terminated

\* Nothing is executed before its receipt, and for a mutation of a task the
\* mutation.before checkpoint that names it, are on disk.
THEOREM MutationsAreJournaledFirst == Spec => []WriteAhead
<1>1. Init => TypeInv /\ OnceInv /\ AheadInv
  BY TypeInit, OnceInit, AheadInit
<1>2. TypeInv /\ OnceInv /\ AheadInv /\ [Next]_vars => (TypeInv /\ OnceInv /\ AheadInv)'
  BY TypeStep, OnceStep, AheadStep
<1>3. TypeInv /\ OnceInv /\ AheadInv => WriteAhead
  BY AheadImplies
<1> QED
  BY <1>1, <1>2, <1>3, PTL DEF Spec
----------------------------------------------------------------------------
(***************************************************************************)
(* The refinement of OperationLedger.                                      *)
(***************************************************************************)

\* The values Ledger gives its variables.
BoundTo == [o \in Ops |-> {receipts[s].call : s \in {x \in DOMAIN receipts : receipts[x].op = o}}]
RunsOf == [o \in Ops |-> {r \in ran : req[r].op = o}]

LEMMA BoundStays ==
  ASSUME DOMAIN receipts' = DOMAIN receipts,
         \A s \in DOMAIN receipts :
           receipts'[s].op = receipts[s].op /\ receipts'[s].call = receipts[s].call
  PROVE  BoundTo' = BoundTo
<1>1. ASSUME NEW o \in Ops
      PROVE  {receipts'[s].call : s \in {x \in DOMAIN receipts' : receipts'[x].op = o}}
               = {receipts[s].call : s \in {x \in DOMAIN receipts : receipts[x].op = o}}
  <2>1. {x \in DOMAIN receipts' : receipts'[x].op = o} = {x \in DOMAIN receipts : receipts[x].op = o}
    OBVIOUS
  <2> QED
    BY <2>1
<1> QED
  BY <1>1 DEF BoundTo

LEMMA RunsStay ==
  ASSUME UNCHANGED ran, \A r \in ran : req'[r].op = req[r].op
  PROVE  RunsOf' = RunsOf
BY DEF RunsOf

LEMMA StutterStep ==
  ASSUME BoundTo' = BoundTo, RunsOf' = RunsOf
  PROVE  UNCHANGED Ledger!vars
BY DEF Ledger!vars, BoundTo, RunsOf

LEMMA LedgerInit == Init => Ledger!Init
<1> SUFFICES ASSUME Init PROVE BoundTo = [o \in Ops |-> {}] /\ RunsOf = [o \in Ops |-> {}]
  BY DEF Ledger!Init, BoundTo, RunsOf
<1>1. ran = {} /\ DOMAIN receipts = {}
  BY DEF Init
<1> QED
  BY <1>1 DEF BoundTo, RunsOf

\* The first receipt under an operation id binds it.
LEMMA BindStep ==
  ASSUME TypeInv, OnceInv, NEW r \in Requests, pc[r] = "insert", UNCHANGED <<req, ran>>,
         \A s \in DOMAIN receipts : receipts[s].op # req[r].op, receipts' = Prepared(r)
  PROVE  Ledger!Next
<1> DEFINE op == req[r].op
           call == req[r].call
<1>1. op \in Ops /\ call \in Calls
  BY DEF TypeInv
<1>2. r \notin DOMAIN receipts
  BY DEF OnceInv, Early
<1>3. /\ DOMAIN receipts' = DOMAIN receipts \cup {r}
      /\ receipts'[r].op = op /\ receipts'[r].call = call
      /\ \A s \in DOMAIN receipts : receipts'[s] = receipts[s]
  BY <1>2 DEF Prepared
<1> HIDE DEF op, call
<1>4. BoundTo[op] = {}
  BY <1>1 DEF BoundTo, op
<1>5. BoundTo' = [BoundTo EXCEPT ![op] = {call}]
  <2>1. ASSUME NEW o \in Ops
        PROVE  {receipts'[s].call : s \in {x \in DOMAIN receipts' : receipts'[x].op = o}}
                 = IF o = op THEN {call} ELSE BoundTo[o]
    <3>1. CASE o = op
      <4>1. {x \in DOMAIN receipts' : receipts'[x].op = o} = {r}
        BY <1>3, <3>1 DEF op
      <4> QED
        BY <1>3, <3>1, <4>1
    <3>2. CASE o # op
      <4>1. {x \in DOMAIN receipts' : receipts'[x].op = o} = {x \in DOMAIN receipts : receipts[x].op = o}
        BY <1>3, <3>2
      <4>2. \A s \in {x \in DOMAIN receipts : receipts[x].op = o} : receipts'[s].call = receipts[s].call
        BY <1>3
      <4>3. BoundTo[o] = {receipts[s].call : s \in {x \in DOMAIN receipts : receipts[x].op = o}}
        BY DEF BoundTo
      <4> QED
        BY <3>2, <4>1, <4>2, <4>3
    <3> QED
      BY <3>1, <3>2
  <2>2. BoundTo' = [o \in Ops |-> IF o = op THEN {call} ELSE BoundTo[o]]
    BY <2>1 DEF BoundTo
  <2>3. DOMAIN BoundTo = Ops
    BY DEF BoundTo
  <2>4. [BoundTo EXCEPT ![op] = {call}] = [o \in Ops |-> IF o = op THEN {call} ELSE BoundTo[o]]
    BY <2>3, <1>1
  <2> QED
    BY <2>2, <2>4
<1>6. RunsOf' = RunsOf
  BY RunsStay
<1> QED
  BY <1>1, <1>4, <1>5, <1>6 DEF Ledger!Next, Ledger!Bind, BoundTo, RunsOf

\* Only the owner of the receipt is ever executed, and it was not before.
LEMMA ExecuteStep ==
  ASSUME TypeInv, OnceInv, NEW r \in flight \cup Licensed, r \notin ran, ran' = ran \cup {r},
         UNCHANGED <<receipts, req>>
  PROVE  Ledger!Next
<1> DEFINE op == req[r].op
<1>1. r \in DOMAIN receipts /\ receipts[r].op = op /\ r \in Requests
  BY DEF OnceInv, TypeInv, TypeOK
<1>2. op \in Ops
  <2>1. receipts[r] \in Row
    BY <1>1 DEF TypeInv, TypeOK
  <2> QED
    BY <1>1, <2>1 DEF Row
<1>3. \A s \in ran : req[s].op # op
  BY DEF OnceInv, TypeInv, TypeOK
<1> HIDE DEF op
<1>4. BoundTo[op] # {}
  BY <1>1, <1>2 DEF BoundTo
<1>5. RunsOf[op] = {}
  BY <1>2, <1>3 DEF RunsOf
<1>6. RunsOf' = [RunsOf EXCEPT ![op] = {r}]
  <2>1. ASSUME NEW o \in Ops
        PROVE  {s \in ran' : req'[s].op = o} = IF o = op THEN {r} ELSE RunsOf[o]
    <3>1. CASE o = op
      BY <1>3, <3>1 DEF op
    <3>2. CASE o # op
      BY <3>2 DEF op, RunsOf
    <3> QED
      BY <3>1, <3>2
  <2>2. RunsOf' = [o \in Ops |-> IF o = op THEN {r} ELSE RunsOf[o]]
    BY <2>1 DEF RunsOf
  <2>3. DOMAIN RunsOf = Ops
    BY DEF RunsOf
  <2>4. [RunsOf EXCEPT ![op] = {r}] = [o \in Ops |-> IF o = op THEN {r} ELSE RunsOf[o]]
    BY <2>3, <1>2
  <2> QED
    BY <2>2, <2>4
<1>7. BoundTo' = BoundTo
  BY BoundStays
<1> QED
  BY <1>1, <1>2, <1>4, <1>5, <1>6, <1>7 DEF Ledger!Next, Ledger!Execute, BoundTo, RunsOf

LEMMA LedgerStep == TypeInv /\ OnceInv /\ [Next]_vars => [Ledger!Next]_Ledger!vars
<1> SUFFICES ASSUME TypeInv, OnceInv, [Next]_vars PROVE [Ledger!Next]_Ledger!vars
  OBVIOUS
<1> USE DEF Goto
<1>1. ASSUME UNCHANGED <<receipts, req, ran>> PROVE UNCHANGED Ledger!vars
  BY <1>1, BoundStays, RunsStay, StutterStep
<1>2. ASSUME NEW r \in Requests, Arrive(r) \/ ArriveFinalize(r) PROVE UNCHANGED Ledger!vars
  <2>1. r \notin ran
    BY <1>2 DEF Arrive, ArriveFinalize, OnceInv, Early
  <2>2. \A s \in ran : req'[s] = req[s]
    BY <1>2, <2>1 DEF Arrive, ArriveFinalize, TypeInv, TypeOK
  <2>3. UNCHANGED <<receipts, ran>>
    BY <1>2 DEF Arrive, ArriveFinalize
  <2> QED
    BY <2>2, <2>3, BoundStays, RunsStay, StutterStep
<1>3. ASSUME NEW r \in Requests, InsertReceipt(r) PROVE [Ledger!Next]_Ledger!vars
  <2>1. UNCHANGED <<req, ran>> /\ pc[r] = "insert"
    BY <1>3 DEF InsertReceipt
  <2>2. CASE UNCHANGED receipts
    BY <1>1, <2>1, <2>2
  <2>3. CASE (\A s \in DOMAIN receipts : receipts[s].op # req[r].op) /\ receipts' = Prepared(r)
    BY <2>1, <2>3, BindStep
  <2> QED
    BY <1>3, <2>2, <2>3 DEF InsertReceipt
<1>4. ASSUME NEW r \in Requests, UpstreamRuns(r) \/ ExternalRuns(r)
      PROVE  [Ledger!Next]_Ledger!vars
  <2>1. r \in flight \cup Licensed /\ ran' = ran \cup {r} /\ UNCHANGED <<receipts, req>>
    BY <1>4 DEF UpstreamRuns, ExternalRuns, Licensed
  <2>2. CASE r \in ran
    BY <1>1, <2>1, <2>2
  <2>3. CASE r \notin ran
    BY <2>1, <2>3, ExecuteStep
  <2> QED
    BY <2>2, <2>3
<1>5. ASSUME NEW r \in Requests, UpdateReceipt(r) PROVE UNCHANGED Ledger!vars
  <2>1. DOMAIN receipts' = DOMAIN receipts /\ UNCHANGED <<req, ran>>
    BY <1>5 DEF UpdateReceipt
  <2>2. ASSUME NEW s \in DOMAIN receipts
        PROVE  receipts'[s].op = receipts[s].op /\ receipts'[s].call = receipts[s].call
    <3>1. receipts[s] \in Row
      BY DEF TypeInv, TypeOK
    <3>2. CASE s # Target(r)
      BY <1>5, <3>2 DEF UpdateReceipt, TypeInv, TypeOK
    <3>3. CASE s = Target(r)
      <4>1. receipts'[s] = [receipts[s] EXCEPT !.delivery = Delivery(r), !.result = Result(r),
                              !.ref = Ref(r), !.finished = TRUE, !.by = r]
        BY <1>5, <3>3 DEF UpdateReceipt, TypeInv, TypeOK
      <4> QED
        BY <3>1, <4>1 DEF Row
    <3> QED
      BY <3>2, <3>3
  <2> QED
    BY <2>1, <2>2, BoundStays, RunsStay, StutterStep
<1>6. ASSUME NEW r \in Requests,
             \/ Refuse(r) \/ SelectReceipt(r) \/ RereadReceipt(r) \/ ReadTipBefore(r)
             \/ InsertBefore(r) \/ ConnectFails(r) \/ SendCall(r) \/ UpstreamLoses(r)
             \/ CallReturns(r) \/ CallErrs(r) \/ ShapeResult(r) \/ StoreResult(r)
      PROVE  UNCHANGED Ledger!vars
  BY <1>1, <1>6
     DEF Refuse, SelectReceipt, RereadReceipt, ReadTipBefore, InsertBefore, ConnectFails,
         SendCall, UpstreamLoses, CallReturns, CallErrs, ShapeResult, StoreResult
<1>7. ASSUME NEW r \in Requests,
             \/ SelectForFinalize(r) \/ RereadFinalized(r) \/ ReadTipAfter(r) \/ InsertAfter(r)
             \/ StatementFails(r)
      PROVE  UNCHANGED Ledger!vars
  BY <1>1, <1>7 DEF SelectForFinalize, RereadFinalized, ReadTipAfter, InsertAfter, StatementFails
<1>8. ASSUME Crash \/ UNCHANGED vars PROVE UNCHANGED Ledger!vars
  BY <1>1, <1>8 DEF Crash, vars
<1> QED
  BY <1>2, <1>3, <1>4, <1>5, <1>6, <1>7, <1>8 DEF Next, Step, Environment, Terminated

\* Whatever races, fails, dies or is sent again, the receipts implement the
\* abstract ledger: an operation id is bound to one call for good, and executed
\* at most once after that.
THEOREM ImplementsLedger == Spec => LedgerSpec
<1>1. Init => TypeInv /\ OnceInv
  BY TypeInit, OnceInit
<1>2. TypeInv /\ OnceInv /\ [Next]_vars => (TypeInv /\ OnceInv)'
  BY TypeStep, OnceStep
<1> QED
  BY <1>1, <1>2, LedgerInit, LedgerStep, PTL DEF Spec, LedgerSpec, Ledger!Spec
----------------------------------------------------------------------------
(***************************************************************************)
(* What is recorded and answered is true.                                  *)
(***************************************************************************)

\* A request that has sent nothing yet, and one that has written its receipt.
Outset == {"idle", "select", "insert", "reread", "before_read", "before_insert", "call"}
Written == {"fin_reread", "after_read", "after_insert", "done", "dead"}

\* out[r] says what became of the call.
OutcomeTrue(r) ==
  /\ pc[r] \in Outset => out[r] = "none" /\ r \notin flight \cup ran
  /\ pc[r] \in {"shape", "store"} => r \in ran
  /\ out[r] \in {"shape_error", "returned", "stored"} => r \in ran
  /\ out[r] = "failed" => r \notin flight \cup ran

\* What a request does fits its kind.
KindFits(r) ==
  /\ pc[r] = "idle" => req[r].kind = "none"
  /\ pc[r] \in {"select", "insert", "reread", "before_read", "before_insert"} =>
       req[r].kind \in {"call", "prepare"}
  /\ pc[r] \in {"call", "sent", "shape", "store"} => req[r].kind = "call"
  /\ pc[r] \in {"fin_read", "fin_write"} =>
       req[r].kind = "finalize" \/ (req[r].kind = "call" /\ out[r] # "none")
  /\ req[r].kind \in {"call", "prepare"} => Target(r) = r
  /\ req[r].kind = "finalize" =>
       Target(r) \in DOMAIN receipts \ {r} /\ req[r].op = receipts[Target(r)].op

Replayed(r) == answer[r] = [status |-> "deduplicated", policy |-> "DO_NOT_REPLAY"]
Carried(r) == \E s \in ran : req[s].op = req[r].op /\ req[s].call = req[r].call

\* What the client was told is true, and the last thing the request does.
AnswerTrue(r) ==
  /\ answer[r].status # "none" => pc[r] = "done"
  /\ answer[r].status = "ok" => r \in ran
  /\ answer[r].status = "failed" => out[r] = "failed"
  /\ answer[r].status = "licensed" => out[r] = "none"
  /\ Replayed(r) => Carried(r) \/ ClientFinalized(req[r].op)

\* A receipt says what its call, or the client that finalized it, said.
RowTrue(s) ==
  /\ receipts[s].call = req[s].call
  /\ receipts[s].by = None => receipts[s].delivery = "prepared" /\ receipts[s].result = "pending"
  /\ receipts[s].by = s =>
       /\ pc[s] \in Written /\ req[s].kind = "call" /\ out[s] # "none"
       /\ receipts[s].delivery = Delivery(s) /\ receipts[s].result = Result(s)
  /\ receipts[s].by \notin {None, s} => ClientFinalized(receipts[s].op)

Sound(r) == OutcomeTrue(r) /\ KindFits(r) /\ AnswerTrue(r)

HonestInv == (\A r \in Requests : Sound(r)) /\ (\A s \in DOMAIN receipts : RowTrue(s))

LEMMA HonestInit == Init => HonestInv
BY DEF Init, HonestInv, Sound, OutcomeTrue, KindFits, AnswerTrue, Replayed, NoRequest, NoAnswer

\* A row that is confirmed was executed, one that failed never will be.
LEMMA RowTells ==
  ASSUME TypeInv, HonestInv, NEW s \in Requests, s \in DOMAIN receipts, receipts[s].by = s
  PROVE  /\ receipts[s].delivery = "confirmed" => s \in ran
         /\ receipts[s].result = "failed" => s \notin flight \cup ran
         /\ receipts[s].result = "failed" <=> out[s] = "failed"
         /\ \/ receipts[s].delivery = "confirmed" /\ receipts[s].result = "returned"
            \/ receipts[s].delivery = "unknown" /\ receipts[s].result = "unknown"
            \/ receipts[s].delivery = "prepared" /\ receipts[s].result = "failed"
<1>1. RowTrue(s) /\ OutcomeTrue(s)
  BY DEF HonestInv, Sound
<1>2. out[s] \in Outcomes
  BY DEF TypeInv, TypeOK
<1> QED
  BY <1>1, <1>2 DEF RowTrue, OutcomeTrue, Delivery, Result, Outcomes

LEMMA HonestImplies ==
  ASSUME TypeInv, OnceInv, HonestInv PROVE HonestReceipt /\ NoBlindRetry /\ HonestAnswer
<1>1. DOMAIN receipts \subseteq Requests /\ \A r \in flight \cup ran : r \in DOMAIN receipts
  BY DEF TypeInv, TypeOK, OnceInv
<1>2. HonestReceipt
  BY <1>1, RowTells DEF HonestReceipt
<1>3. NoBlindRetry
  <2> SUFFICES ASSUME NEW r \in flight \cup ran, receipts[r].mut, receipts[r].by \in {None, r}
               PROVE  replayPolicy(receipts[r]) \in {"DO_NOT_REPLAY", "VERIFY_BEFORE_ANY_RETRY"}
    BY DEF NoBlindRetry
  <2>1. CASE receipts[r].by = None
    BY <1>1, <2>1 DEF HonestInv, RowTrue, replayPolicy
  <2>2. CASE receipts[r].by = r
    BY <1>1, <2>2, RowTells DEF replayPolicy
  <2> QED
    BY <2>1, <2>2
<1>4. HonestAnswer
  BY DEF HonestInv, Sound, AnswerTrue, OutcomeTrue, Replayed, Carried, HonestAnswer
<1> QED
  BY <1>2, <1>3, <1>4

\* A step of one request that stores, sends and executes nothing.
LEMMA LocalHonest ==
  ASSUME HonestInv, NEW r \in Requests, DOMAIN receipts \subseteq Requests,
         UNCHANGED <<receipts, req, flight, ran>>,
         \A s \in Requests \ {r} : pc'[s] = pc[s] /\ out'[s] = out[s] /\ answer'[s] = answer[s],
         Sound(r)', pc[r] \in Written => pc'[r] \in Written /\ out'[r] = out[r]
  PROVE  HonestInv'
<1>1. \A op : ClientFinalized(op)' = ClientFinalized(op)
  BY DEF ClientFinalized
<1>2. ASSUME NEW s \in Requests \ {r} PROVE Sound(s)'
  <2>1. Sound(s) /\ pc'[s] = pc[s] /\ out'[s] = out[s] /\ answer'[s] = answer[s]
    BY DEF HonestInv
  <2> QED
    BY <1>1, <2>1 DEF Sound, OutcomeTrue, KindFits, AnswerTrue, Replayed, Carried, Target
<1>3. ASSUME NEW s \in DOMAIN receipts PROVE RowTrue(s)'
  <2>1. RowTrue(s)
    BY DEF HonestInv
  <2>2. pc[s] \in Written => pc'[s] \in Written /\ out'[s] = out[s]
    OBVIOUS
  <2>3. out'[s] = out[s] => Delivery(s)' = Delivery(s) /\ Result(s)' = Result(s)
    BY DEF Delivery, Result
  <2> QED
    BY <1>1, <2>1, <2>2, <2>3 DEF RowTrue
<1> QED
  BY <1>2, <1>3 DEF HonestInv

LEMMA ReplyHonest ==
  ASSUME TypeInv, HonestInv, NEW r \in Requests, NEW status, NEW policy, Reply(r, status, policy),
         UNCHANGED <<receipts, req, out, flight, ran>>,
         status = "ok" => r \in ran,
         status = "failed" => out[r] = "failed",
         status = "licensed" => out[r] = "none",
         status = "deduplicated" /\ policy = "DO_NOT_REPLAY" =>
           Carried(r) \/ ClientFinalized(req[r].op)
  PROVE  HonestInv'
<1>1. /\ pc'[r] = "done" /\ answer'[r] = [status |-> status, policy |-> policy]
      /\ \A s \in Requests \ {r} : pc'[s] = pc[s] /\ answer'[s] = answer[s]
  BY DEF Reply, TypeInv, TypeOK
<1>2. OutcomeTrue(r)' /\ KindFits(r)'
  BY <1>1 DEF HonestInv, Sound, OutcomeTrue, KindFits, Outset, Target
<1>3. AnswerTrue(r)'
  BY <1>1 DEF AnswerTrue, Replayed, Carried, ClientFinalized
<1>4. DOMAIN receipts \subseteq Requests
  BY DEF TypeInv, TypeOK
<1> QED
  BY <1>1, <1>2, <1>3, <1>4, LocalHonest DEF Sound, Written

LEMMA FailHonest ==
  ASSUME TypeInv, HonestInv, NEW r \in Requests, Fail(r),
         UNCHANGED <<receipts, req, out, flight, ran>>
  PROVE  HonestInv'
BY ReplyHonest DEF Fail

\* A request that goes on; its outcome may be new.
LEMMA GotoHonest ==
  ASSUME TypeInv, HonestInv, NEW r \in Requests, NEW to, pc' = [pc EXCEPT ![r] = to],
         UNCHANGED <<receipts, req, flight, ran>>,
         \A s \in Requests \ {r} : out'[s] = out[s] /\ answer'[s] = answer[s],
         answer'[r].status = answer[r].status, pc[r] # "done",
         pc[r] \in Written => to \in Written /\ out'[r] = out[r],
         OutcomeTrue(r)', KindFits(r)'
  PROVE  HonestInv'
<1>1. pc'[r] = to /\ \A s \in Requests \ {r} : pc'[s] = pc[s]
  BY DEF TypeInv, TypeOK
<1>2. answer[r].status = "none"
  BY DEF HonestInv, Sound, AnswerTrue
<1>3. AnswerTrue(r)'
  BY <1>2 DEF AnswerTrue, Replayed
<1>4. DOMAIN receipts \subseteq Requests
  BY DEF TypeInv, TypeOK
<1> QED
  BY <1>1, <1>3, <1>4, LocalHonest DEF Sound

LEMMA ProceedHonest ==
  ASSUME TypeInv, HonestInv, NEW r \in Requests, Proceed(r), pc[r] \in {"reread", "before_insert"},
         UNCHANGED <<receipts, req, out, flight, ran>>
  PROVE  HonestInv'
<1>1. OutcomeTrue(r) /\ KindFits(r)
  BY DEF HonestInv, Sound
<1>2. CASE req[r].kind = "call"
  <2>1. pc' = [pc EXCEPT ![r] = "call"] /\ UNCHANGED answer
    BY <1>2 DEF Proceed
  <2>2. OutcomeTrue(r)' /\ KindFits(r)'
    BY <1>1, <1>2, <2>1 DEF OutcomeTrue, KindFits, Outset, Target, TypeInv, TypeOK
  <2> QED
    BY <2>1, <2>2, GotoHonest DEF Written
<1>3. CASE req[r].kind # "call"
  BY <1>1, <1>3, ReplyHonest DEF Proceed, OutcomeTrue, Outset
<1> QED
  BY <1>2, <1>3

LEMMA StatusTrue ==
  ASSUME TypeInv, HonestInv, NEW r \in Requests
  PROVE  /\ Status(r) = "ok" => r \in ran
         /\ Status(r) = "failed" => out[r] = "failed"
         /\ Status(r) \notin {"licensed", "deduplicated"}
<1>1. OutcomeTrue(r) /\ out[r] \in Outcomes
  BY DEF HonestInv, Sound, TypeInv, TypeOK
<1> QED
  BY <1>1 DEF OutcomeTrue, Status, Outcomes

LEMMA AfterFinalizeHonest ==
  ASSUME TypeInv, HonestInv, NEW r \in Requests, NEW row, AfterFinalize(r, row),
         pc[r] \in {"fin_read", "fin_reread"}, UNCHANGED <<receipts, req, out, flight, ran>>
  PROVE  HonestInv'
<1>1. CASE Reply(r, Status(r), replayPolicy(row))
  BY <1>1, ReplyHonest, StatusTrue
<1>2. CASE /\ pc' = [pc EXCEPT ![r] = "after_read"]
           /\ answer' = [answer EXCEPT ![r].policy = replayPolicy(row)]
  <2>1. /\ answer'[r].status = answer[r].status
        /\ \A s \in Requests \ {r} : answer'[s] = answer[s]
    BY <1>2 DEF TypeInv, TypeOK
  <2>2. OutcomeTrue(r)' /\ KindFits(r)'
    BY <1>2 DEF HonestInv, Sound, OutcomeTrue, KindFits, Outset, Target, TypeInv, TypeOK
  <2> QED
    BY <1>2, <2>1, <2>2, GotoHonest DEF Written
<1> QED
  BY <1>1, <1>2 DEF AfterFinalize

LEMMA FailsHonest ==
  ASSUME TypeInv, HonestInv, NEW r \in Requests, FinalizeFails(r) \/ AfterFails(r),
         UNCHANGED <<receipts, req, out, flight, ran>>
  PROVE  HonestInv'
BY ReplyHonest, FailHonest, StatusTrue DEF FinalizeFails, AfterFails

\* A known operation is answered with what its receipt says.
LEMMA DedupHonest ==
  ASSUME TypeInv, OnceInv, HonestInv, NEW r \in Requests, NEW s \in DOMAIN receipts,
         receipts[s].op = req[r].op, receipts[s].call = req[r].call,
         Reply(r, "deduplicated", replayPolicy(receipts[s])),
         UNCHANGED <<receipts, req, out, flight, ran>>
  PROVE  HonestInv'
<1>1. s \in Requests /\ RowTrue(s) /\ receipts[s].op = req[s].op
  BY DEF HonestInv, TypeInv, TypeOK, OnceInv
<1>2. ASSUME replayPolicy(receipts[s]) = "DO_NOT_REPLAY"
      PROVE  Carried(r) \/ ClientFinalized(req[r].op)
  <2>1. receipts[s].delivery = "confirmed"
    BY <1>2 DEF replayPolicy
  <2>2. CASE receipts[s].by = None
    BY <1>1, <2>1, <2>2 DEF RowTrue
  <2>3. CASE receipts[s].by = s
    BY <1>1, <2>1, <2>3, RowTells DEF Carried, RowTrue
  <2>4. CASE receipts[s].by \notin {None, s}
    BY <1>1, <2>4 DEF RowTrue
  <2> QED
    BY <2>2, <2>3, <2>4
<1> QED
  BY <1>2, ReplyHonest
\* A request arrives: it has no receipt, and what clients finalized stays so.
LEMMA ArrivalHonest ==
  ASSUME TypeInv, OnceInv, HonestInv, NEW r \in Requests, pc[r] = "idle",
         NEW to \in {"select", "fin_read"}, pc' = [pc EXCEPT ![r] = to],
         \A s \in Requests \ {r} : req'[s] = req[s],
         UNCHANGED <<receipts, out, answer, flight, ran>>, KindFits(r)'
  PROVE  HonestInv'
<1>1. pc'[r] = to /\ \A s \in Requests \ {r} : pc'[s] = pc[s]
  BY DEF TypeInv, TypeOK
<1>2. r \notin DOMAIN receipts /\ DOMAIN receipts \subseteq Requests /\ ran \subseteq Requests
  BY DEF OnceInv, Early, TypeInv, TypeOK
<1>3. req[r].kind = "none" /\ answer[r].status = "none" /\ r \notin flight \cup ran /\ out[r] = "none"
  BY DEF HonestInv, Sound, KindFits, AnswerTrue, OutcomeTrue, Outset
<1>4. \A op : ClientFinalized(op) => ClientFinalized(op)'
  BY <1>3 DEF ClientFinalized
<1>5. Sound(r)'
  BY <1>1, <1>3 DEF Sound, OutcomeTrue, AnswerTrue, Replayed
<1>6. ASSUME NEW s \in Requests \ {r} PROVE Sound(s)'
  <2>1. Sound(s) /\ pc'[s] = pc[s] /\ req'[s] = req[s]
    BY <1>1 DEF HonestInv
  <2>2. Carried(s) => Carried(s)'
    BY <1>2, <1>3, <2>1 DEF Carried
  <2> QED
    BY <1>4, <2>1, <2>2 DEF Sound, OutcomeTrue, KindFits, AnswerTrue, Replayed, Target
<1>7. ASSUME NEW s \in DOMAIN receipts PROVE RowTrue(s)'
  <2>1. RowTrue(s) /\ pc'[s] = pc[s] /\ req'[s] = req[s]
    BY <1>1, <1>2 DEF HonestInv
  <2>2. Delivery(s)' = Delivery(s) /\ Result(s)' = Result(s)
    BY <2>1 DEF Delivery, Result
  <2> QED
    BY <1>4, <2>1, <2>2 DEF RowTrue
<1> QED
  BY <1>5, <1>6, <1>7 DEF HonestInv

\* A call is sent, carried out or lost.
LEMMA WireHonest ==
  ASSUME HonestInv, NEW r \in Requests, DOMAIN receipts \subseteq Requests,
         UNCHANGED <<receipts, req, out, answer>>, ran \subseteq ran',
         \A s \in Requests \ {r} : pc'[s] = pc[s],
         \/ pc'[r] = pc[r]
         \/ pc[r] = "call" /\ pc'[r] = "sent",
         \A s \in Requests : s \in (flight \cup ran)' =>
           s \in flight \cup ran \/ (pc'[s] \notin Outset /\ out[s] # "failed")
  PROVE  HonestInv'
<1>1. \A op : ClientFinalized(op)' = ClientFinalized(op)
  BY DEF ClientFinalized
<1>2. ASSUME NEW s \in Requests PROVE Sound(s)'
  <2>1. Sound(s)
    BY DEF HonestInv
  <2>2. pc'[s] = pc[s] \/ (pc[s] = "call" /\ pc'[s] = "sent")
    OBVIOUS
  <2>3. OutcomeTrue(s)'
    BY <2>1, <2>2 DEF Sound, OutcomeTrue, Outset
  <2>4. KindFits(s)'
    BY <2>1, <2>2 DEF Sound, KindFits, Target
  <2>5. AnswerTrue(s)'
    <3>1. Carried(s) => Carried(s)'
      BY DEF Carried
    <3> QED
      BY <1>1, <2>1, <2>2, <3>1 DEF Sound, AnswerTrue, Replayed
  <2> QED
    BY <2>3, <2>4, <2>5 DEF Sound
<1>3. ASSUME NEW s \in DOMAIN receipts PROVE RowTrue(s)'
  <2>1. RowTrue(s)
    BY DEF HonestInv
  <2>2. pc[s] \in Written => pc'[s] = pc[s]
    BY DEF Written
  <2>3. Delivery(s)' = Delivery(s) /\ Result(s)' = Result(s)
    BY DEF Delivery, Result
  <2> QED
    BY <1>1, <2>1, <2>2, <2>3 DEF RowTrue
<1> QED
  BY <1>2, <1>3 DEF HonestInv

LEMMA InsertHonest ==
  ASSUME TypeInv, OnceInv, HonestInv, NEW r \in Requests, pc[r] = "insert",
         receipts' = Prepared(r), pc' = [pc EXCEPT ![r] = "reread"],
         UNCHANGED <<req, out, answer, flight, ran>>
  PROVE  HonestInv'
<1>1. r \notin DOMAIN receipts
  BY DEF OnceInv, Early
<1>2. /\ DOMAIN receipts' = DOMAIN receipts \cup {r}
      /\ \A s \in DOMAIN receipts : receipts'[s] = receipts[s]
      /\ receipts'[r].call = req[r].call /\ receipts'[r].by = None
      /\ receipts'[r].delivery = "prepared" /\ receipts'[r].result = "pending"
  BY <1>1 DEF Prepared
<1>3. pc'[r] = "reread" /\ \A s \in Requests \ {r} : pc'[s] = pc[s]
  BY DEF TypeInv, TypeOK
<1>4. \A op : ClientFinalized(op)' = ClientFinalized(op)
  BY DEF ClientFinalized
<1>5. ASSUME NEW s \in Requests PROVE Sound(s)'
  <2>1. Sound(s)
    BY DEF HonestInv
  <2>2. OutcomeTrue(s)'
    BY <1>3, <2>1 DEF Sound, OutcomeTrue, Outset
  <2>3. KindFits(s)'
    BY <1>2, <1>3, <2>1 DEF Sound, KindFits, Target
  <2>4. AnswerTrue(s)'
    BY <1>3, <1>4, <2>1 DEF Sound, AnswerTrue, Replayed, Carried
  <2> QED
    BY <2>2, <2>3, <2>4 DEF Sound
<1>6. ASSUME NEW s \in DOMAIN receipts PROVE RowTrue(s)'
  <2>1. RowTrue(s) /\ receipts'[s] = receipts[s] /\ s # r /\ s \in Requests
    BY <1>1, <1>2 DEF HonestInv, TypeInv, TypeOK
  <2>2. Delivery(s)' = Delivery(s) /\ Result(s)' = Result(s) /\ pc'[s] = pc[s]
    BY <1>3, <2>1 DEF Delivery, Result
  <2> QED
    BY <1>4, <2>1, <2>2 DEF RowTrue
<1>7. RowTrue(r)'
  <2>1. None # r
    BY RequestsAssumption
  <2> QED
    BY <1>2, <2>1 DEF RowTrue
<1> QED
  BY <1>2, <1>5, <1>6, <1>7 DEF HonestInv

LEMMA UpdateHonest ==
  ASSUME TypeInv, OnceInv, HonestInv, NEW r \in Requests, UpdateReceipt(r)
  PROVE  HonestInv'
<1>1. /\ pc[r] = "fin_write" /\ pc'[r] = "fin_reread"
      /\ \A s \in Requests \ {r} : pc'[s] = pc[s]
      /\ UNCHANGED <<req, out, answer, flight, ran>>
  BY DEF UpdateReceipt, Goto, TypeInv, TypeOK
<1>2. DOMAIN receipts' = DOMAIN receipts /\ DOMAIN receipts \subseteq Requests
  BY DEF UpdateReceipt, TypeInv, TypeOK
<1>3. \A s \in DOMAIN receipts \ {Target(r)} : receipts'[s] = receipts[s]
  BY DEF UpdateReceipt, TypeInv, TypeOK
<1>4. ASSUME Target(r) \in DOMAIN receipts
      PROVE  LET row == receipts'[Target(r)]
             IN  /\ row.op = receipts[Target(r)].op /\ row.call = receipts[Target(r)].call
                 /\ row.by = r /\ row.delivery = Delivery(r) /\ row.result = Result(r)
  <2>1. receipts'[Target(r)] = [receipts[Target(r)] EXCEPT !.delivery = Delivery(r),
                                  !.result = Result(r), !.ref = Ref(r), !.finished = TRUE, !.by = r]
    BY <1>4 DEF UpdateReceipt, TypeInv, TypeOK
  <2>2. receipts[Target(r)] \in Row
    BY <1>4 DEF TypeInv, TypeOK
  <2> QED
    BY <2>1, <2>2 DEF Row
<1>5. \A s \in DOMAIN receipts : receipts'[s].op = receipts[s].op /\ receipts'[s].call = receipts[s].call
  BY <1>3, <1>4
<1>6. \A op : ClientFinalized(op)' = ClientFinalized(op)
  BY <1>1 DEF ClientFinalized
<1>7. \A s : Delivery(s)' = Delivery(s) /\ Result(s)' = Result(s)
  BY <1>1 DEF Delivery, Result
<1>8. ASSUME NEW s \in Requests PROVE Sound(s)'
  <2>1. Sound(s)
    BY DEF HonestInv
  <2>2. OutcomeTrue(s)'
    BY <1>1, <2>1 DEF Sound, OutcomeTrue, Outset
  <2>3. KindFits(s)'
    BY <1>1, <1>2, <1>5, <2>1 DEF Sound, KindFits, Target
  <2>4. AnswerTrue(s)'
    BY <1>1, <1>6, <2>1 DEF Sound, AnswerTrue, Replayed, Carried
  <2> QED
    BY <2>2, <2>3, <2>4 DEF Sound
<1>9. ASSUME NEW s \in DOMAIN receipts PROVE RowTrue(s)'
  <2>1. RowTrue(s) /\ s \in Requests
    BY <1>2 DEF HonestInv
  <2>2. CASE s # Target(r)
    BY <1>1, <1>3, <1>6, <1>7, <2>1, <2>2 DEF RowTrue, Written
  <2>3. CASE s = Target(r)
    <3>1. KindFits(r) /\ r # None
      BY RequestsAssumption DEF HonestInv, Sound
    <3>2. CASE req[r].kind = "call" /\ out[r] # "none"
      <4>1. s = r
        BY <2>3, <3>1, <3>2 DEF KindFits
      <4> QED
        BY <1>1, <1>4, <1>7, <2>1, <2>3, <3>1, <3>2, <4>1 DEF RowTrue, Written
    <3>3. CASE req[r].kind = "finalize"
      <4>1. s # r /\ req[r].op = receipts[s].op
        BY <2>3, <3>1, <3>3 DEF KindFits
      <4>2. ClientFinalized(receipts[s].op)
        BY <3>3, <4>1 DEF ClientFinalized
      <4> QED
        BY <1>1, <1>4, <1>5, <1>6, <2>1, <2>3, <3>1, <4>1, <4>2 DEF RowTrue
    <3> QED
      BY <1>1, <3>1, <3>2, <3>3 DEF KindFits
  <2> QED
    BY <2>2, <2>3
<1> QED
  BY <1>2, <1>8, <1>9 DEF HonestInv

LEMMA CrashHonest ==
  ASSUME TypeInv, HonestInv, Crash
  PROVE  HonestInv'
<1>1. /\ UNCHANGED <<receipts, req, out, answer, flight, ran>>
      /\ \A s \in Requests : \/ pc'[s] = pc[s]
                             \/ pc[s] # "done" /\ pc'[s] = "dead"
  BY DEF Crash
<1>2. \A op : ClientFinalized(op)' = ClientFinalized(op)
  BY <1>1 DEF ClientFinalized
<1>3. ASSUME NEW s \in Requests PROVE Sound(s)'
  <2>1. Sound(s)
    BY DEF HonestInv
  <2> QED
    BY <1>1, <1>2, <2>1
       DEF Sound, OutcomeTrue, KindFits, AnswerTrue, Outset, Replayed, Carried, Target
<1>4. ASSUME NEW s \in DOMAIN receipts PROVE RowTrue(s)'
  <2>1. RowTrue(s) /\ s \in Requests
    BY DEF HonestInv, TypeInv, TypeOK
  <2>2. Delivery(s)' = Delivery(s) /\ Result(s)' = Result(s)
    BY <1>1 DEF Delivery, Result
  <2> QED
    BY <1>1, <1>2, <2>1, <2>2 DEF RowTrue, Written
<1> QED
  BY <1>1, <1>3, <1>4 DEF HonestInv

LEMMA HonestStep == TypeInv /\ OnceInv /\ HonestInv /\ [Next]_vars => HonestInv'
<1> SUFFICES ASSUME TypeInv, OnceInv, HonestInv, [Next]_vars PROVE HonestInv'
  OBVIOUS
<1> USE DEF Goto
<1>0. DOMAIN receipts \subseteq Requests /\ \A r \in Requests : OutcomeTrue(r) /\ KindFits(r)
  BY DEF TypeInv, TypeOK, HonestInv, Sound
<1>1. ASSUME NEW r \in Requests, Arrive(r) PROVE HonestInv'
  <2>1. PICK kind \in Kinds \ {"finalize"}, op \in OpIds \cup {r}, call \in Calls,
             mut \in Hints, task \in Tasks \cup {None} :
          /\ op = r => ~mut
          /\ req' = [req EXCEPT ![r] =
                       [NoRequest EXCEPT !.kind = kind, !.op = op, !.call = call,
                                         !.mut = mut, !.task = task, !.target = r]]
    BY <1>1, Zenon DEF Arrive
  <2>2. /\ req'[r].kind = kind /\ req'[r].target = r /\ kind \in {"call", "prepare"}
        /\ \A s \in Requests \ {r} : req'[s] = req[s]
    BY <2>1, KindsAssumption DEF NoRequest, TypeInv, TypeOK
  <2>3. /\ pc[r] = "idle" /\ pc' = [pc EXCEPT ![r] = "select"] /\ pc'[r] = "select"
        /\ UNCHANGED <<receipts, out, answer, flight, ran>>
    BY <1>1 DEF Arrive, TypeInv, TypeOK
  <2>4. KindFits(r)'
    BY <2>2, <2>3 DEF KindFits, Target
  <2> QED
    BY <2>2, <2>3, <2>4, ArrivalHonest
<1>2. ASSUME NEW r \in Requests, ArriveFinalize(r) PROVE HonestInv'
  <2>1. PICK s \in DOMAIN receipts, final \in Finals :
          req' = [req EXCEPT ![r] =
                 [kind |-> "finalize", op |-> receipts[s].op, call |-> receipts[s].call,
                  mut |-> receipts[s].mut, task |-> receipts[s].task,
                  target |-> s, delivery |-> final[1], result |-> final[2]]]
    BY <1>2 DEF ArriveFinalize
  <2>2. /\ req'[r].kind = "finalize" /\ req'[r].target = s /\ req'[r].op = receipts[s].op
        /\ \A x \in Requests \ {r} : req'[x] = req[x]
    BY <2>1 DEF TypeInv, TypeOK
  <2>3. /\ pc[r] = "idle" /\ pc' = [pc EXCEPT ![r] = "fin_read"] /\ pc'[r] = "fin_read"
        /\ UNCHANGED <<receipts, out, answer, flight, ran>>
    BY <1>2 DEF ArriveFinalize, TypeInv, TypeOK
  <2>4. s # r
    BY <2>3 DEF OnceInv, Early
  <2>5. KindFits(r)'
    BY <2>2, <2>3, <2>4 DEF KindFits, Target
  <2> QED
    BY <2>2, <2>3, <2>5, ArrivalHonest
<1>3. ASSUME NEW r \in Requests, Refuse(r) PROVE HonestInv'
  BY <1>3, FailHonest DEF Refuse
<1>4. ASSUME NEW r \in Requests, NEW to, pc' = [pc EXCEPT ![r] = to], pc'[r] = to,
             UNCHANGED <<receipts, req, out, answer, flight, ran>>,
             pc[r] \notin Written, OutcomeTrue(r)', KindFits(r)'
      PROVE  HonestInv'
  BY <1>4, GotoHonest DEF Written
<1>5. ASSUME NEW r \in Requests, SelectReceipt(r) PROVE HonestInv'
  <2>1. UNCHANGED <<receipts, req, out, flight, ran>> /\ pc[r] = "select"
    BY <1>5 DEF SelectReceipt
  <2>2. CASE Fail(r)
    BY <2>1, <2>2, FailHonest
  <2>3. CASE \E s \in DOMAIN receipts :
               /\ receipts[s].op = req[r].op /\ receipts[s].call = req[r].call
               /\ Reply(r, "deduplicated", replayPolicy(receipts[s]))
    BY <2>1, <2>3, DedupHonest
  <2>4. CASE pc' = [pc EXCEPT ![r] = "insert"] /\ UNCHANGED answer
    <3>1. pc'[r] = "insert"
      BY <2>4 DEF TypeInv, TypeOK
    <3>2. OutcomeTrue(r)' /\ KindFits(r)'
      BY <1>0, <2>1, <2>4, <3>1 DEF OutcomeTrue, KindFits, Outset, Target
    <3> QED
      BY <1>4, <2>1, <2>4, <3>1, <3>2 DEF Written
  <2> QED
    BY <1>5, <2>2, <2>3, <2>4 DEF SelectReceipt
<1>6. ASSUME NEW r \in Requests, InsertReceipt(r) PROVE HonestInv'
  <2>1. CASE Fail(r) /\ UNCHANGED receipts
    BY <1>6, <2>1, FailHonest DEF InsertReceipt
  <2>2. CASE receipts' = Prepared(r) /\ pc' = [pc EXCEPT ![r] = "reread"] /\ UNCHANGED answer
    BY <1>6, <2>2, InsertHonest DEF InsertReceipt
  <2> QED
    BY <1>6, <2>1, <2>2 DEF InsertReceipt
<1>7. ASSUME NEW r \in Requests, RereadReceipt(r) PROVE HonestInv'
  <2>1. UNCHANGED <<receipts, req, out, flight, ran>> /\ pc[r] = "reread"
    BY <1>7 DEF RereadReceipt
  <2>2. CASE Proceed(r)
    BY <2>1, <2>2, ProceedHonest
  <2>3. CASE pc' = [pc EXCEPT ![r] = "before_read"] /\ UNCHANGED answer
    <3>1. pc'[r] = "before_read"
      BY <2>3 DEF TypeInv, TypeOK
    <3>2. OutcomeTrue(r)' /\ KindFits(r)'
      BY <1>0, <2>1, <2>3, <3>1 DEF OutcomeTrue, KindFits, Outset, Target
    <3> QED
      BY <1>4, <2>1, <2>3, <3>1, <3>2 DEF Written
  <2> QED
    BY <1>7, <2>2, <2>3 DEF RereadReceipt
<1>8. ASSUME NEW r \in Requests, ReadTipBefore(r) PROVE HonestInv'
  <2>1. /\ pc[r] = "before_read" /\ pc' = [pc EXCEPT ![r] = "before_insert"]
        /\ pc'[r] = "before_insert" /\ UNCHANGED <<receipts, req, out, answer, flight, ran>>
    BY <1>8 DEF ReadTipBefore, TypeInv, TypeOK
  <2>2. OutcomeTrue(r)' /\ KindFits(r)'
    BY <1>0, <2>1 DEF OutcomeTrue, KindFits, Outset, Target
  <2> QED
    BY <1>4, <2>1, <2>2 DEF Written
<1>9. ASSUME NEW r \in Requests, InsertBefore(r) PROVE HonestInv'
  BY <1>9, FailHonest, ProceedHonest DEF InsertBefore
<1>10. ASSUME NEW r \in Requests, ConnectFails(r) \/ CallErrs(r) PROVE HonestInv'
  <2>1. /\ pc[r] \in {"call", "sent"} /\ pc' = [pc EXCEPT ![r] = "fin_read"] /\ pc'[r] = "fin_read"
        /\ UNCHANGED <<receipts, req, answer, flight, ran>>
        /\ \A s \in Requests \ {r} : out'[s] = out[s]
        /\ out'[r] = "unknown" \/ (pc[r] = "call" /\ out'[r] = "failed")
    BY <1>10 DEF ConnectFails, CallErrs, TypeInv, TypeOK
  <2>2. OutcomeTrue(r)' /\ KindFits(r)'
    BY <1>0, <2>1 DEF OutcomeTrue, KindFits, Outset, Target
  <2> QED
    BY <2>1, <2>2, GotoHonest DEF Written
<1>11. ASSUME NEW r \in Requests, SendCall(r) PROVE HonestInv'
  <2>1. /\ pc[r] = "call" /\ pc'[r] = "sent" /\ flight' = flight \cup {r}
        /\ \A s \in Requests \ {r} : pc'[s] = pc[s]
        /\ UNCHANGED <<receipts, req, out, answer, ran>>
    BY <1>11 DEF SendCall, TypeInv, TypeOK
  <2>2. out[r] = "none" /\ "sent" \notin Outset
    BY <1>0, <2>1 DEF OutcomeTrue, Outset
  <2> QED
    BY <1>0, <2>1, <2>2, WireHonest
<1>12. ASSUME NEW r \in Requests, UpstreamRuns(r) \/ UpstreamLoses(r) \/ ExternalRuns(r)
       PROVE  HonestInv'
  <2>1. /\ UNCHANGED <<receipts, req, out, answer, pc>> /\ ran \subseteq ran'
        /\ \A s \in Requests : s \in (flight \cup ran)' =>
             s \in flight \cup ran \/ (s = r /\ answer[r].status = "licensed")
    BY <1>12 DEF UpstreamRuns, UpstreamLoses, ExternalRuns
  <2>2. answer[r].status = "licensed" => out[r] = "none" /\ pc[r] = "done" /\ pc[r] \notin Outset
    BY DEF HonestInv, Sound, AnswerTrue, Outset
  <2> QED
    BY <1>0, <2>1, <2>2, WireHonest
<1>13. ASSUME NEW r \in Requests, CallReturns(r) PROVE HonestInv'
  <2>1. /\ r \in ran /\ pc[r] = "sent" /\ pc' = [pc EXCEPT ![r] = "shape"] /\ pc'[r] = "shape"
        /\ UNCHANGED <<receipts, req, out, answer, flight, ran>>
    BY <1>13 DEF CallReturns, TypeInv, TypeOK
  <2>2. OutcomeTrue(r)' /\ KindFits(r)'
    BY <1>0, <2>1 DEF OutcomeTrue, KindFits, Outset, Target
  <2> QED
    BY <1>4, <2>1, <2>2 DEF Written
<1>14. ASSUME NEW r \in Requests, ShapeResult(r) \/ (StoreResult(r) /\ ~Fail(r)) PROVE HonestInv'
  <2>1. PICK to \in {"fin_read", "store"} : pc' = [pc EXCEPT ![r] = to]
    BY <1>14 DEF ShapeResult, StoreResult
  <2>2. /\ pc[r] \in {"shape", "store"} /\ pc'[r] = to
        /\ UNCHANGED <<receipts, req, answer, flight, ran>>
        /\ \A s \in Requests \ {r} : out'[s] = out[s]
        /\ out'[r] \in {"shape_error", "returned", "stored"}
    BY <1>14, <2>1 DEF ShapeResult, StoreResult, TypeInv, TypeOK
  <2>3. OutcomeTrue(r)' /\ KindFits(r)'
    BY <1>0, <2>1, <2>2 DEF OutcomeTrue, KindFits, Outset, Target
  <2> QED
    BY <2>1, <2>2, <2>3, GotoHonest DEF Written
<1>15. ASSUME NEW r \in Requests, StoreResult(r), Fail(r) PROVE HonestInv'
  <2>1. UNCHANGED out
    BY <1>15 DEF StoreResult, Fail, Reply, TypeInv, TypeOK
  <2> QED
    BY <1>15, <2>1, FailHonest DEF StoreResult
<1>16. ASSUME NEW r \in Requests, SelectForFinalize(r) PROVE HonestInv'
  <2>1. UNCHANGED <<receipts, req, out, flight, ran>> /\ pc[r] = "fin_read"
    BY <1>16 DEF SelectForFinalize
  <2>2. CASE pc' = [pc EXCEPT ![r] = "fin_write"] /\ UNCHANGED answer
    <3>1. pc'[r] = "fin_write"
      BY <2>2 DEF TypeInv, TypeOK
    <3>2. OutcomeTrue(r)' /\ KindFits(r)'
      BY <1>0, <2>1, <2>2, <3>1 DEF OutcomeTrue, KindFits, Outset, Target
    <3> QED
      BY <1>4, <2>1, <2>2, <3>1, <3>2 DEF Written
  <2>3. CASE AfterFinalize(r, receipts[Target(r)])
    BY <2>1, <2>3, AfterFinalizeHonest
  <2>4. CASE FinalizeFails(r)
    BY <2>1, <2>4, FailsHonest
  <2> QED
    BY <1>16, <2>2, <2>3, <2>4 DEF SelectForFinalize
<1>17. ASSUME NEW r \in Requests, UpdateReceipt(r) PROVE HonestInv'
  BY <1>17, UpdateHonest
<1>18. ASSUME NEW r \in Requests, RereadFinalized(r) PROVE HonestInv'
  BY <1>18, AfterFinalizeHonest DEF RereadFinalized
<1>19. ASSUME NEW r \in Requests, ReadTipAfter(r) PROVE HonestInv'
  <2>1. /\ pc[r] = "after_read" /\ pc' = [pc EXCEPT ![r] = "after_insert"]
        /\ pc'[r] = "after_insert" /\ UNCHANGED <<receipts, req, out, answer, flight, ran>>
    BY <1>19 DEF ReadTipAfter, TypeInv, TypeOK
  <2>2. OutcomeTrue(r)' /\ KindFits(r)'
    BY <1>0, <2>1 DEF OutcomeTrue, KindFits, Outset, Target
  <2> QED
    BY <2>1, <2>2, GotoHonest DEF Written
<1>20. ASSUME NEW r \in Requests, InsertAfter(r) PROVE HonestInv'
  BY <1>20, ReplyHonest, StatusTrue, FailsHonest DEF InsertAfter
<1>21. ASSUME NEW r \in Requests, StatementFails(r) PROVE HonestInv'
  BY <1>21, FailHonest, FailsHonest DEF StatementFails
<1>22. ASSUME UNCHANGED vars PROVE HonestInv'
  BY <1>22
     DEF vars, HonestInv, Sound, OutcomeTrue, KindFits, AnswerTrue, RowTrue, Replayed, Carried,
         ClientFinalized, Delivery, Result, Target
<1>23. ASSUME NEW r \in Requests, Step(r) PROVE HonestInv'
  <2>1. CASE StoreResult(r)
    BY <2>1, <1>14, <1>15
  <2> QED
    BY <1>23, <2>1, <1>5, <1>6, <1>7, <1>8, <1>9, <1>10, <1>11, <1>12, <1>13, <1>14, <1>16, <1>17,
       <1>18, <1>19, <1>20, Zenon DEF Step
<1>24. ASSUME NEW r \in Requests, Environment(r) PROVE HonestInv'
  BY <1>24, <1>1, <1>2, <1>3, <1>12, <1>21, Zenon DEF Environment
<1> QED
  BY <1>22, <1>23, <1>24, CrashHonest, Zenon DEF Next, Terminated

LEMMA HonestAlways == Spec => [](TypeInv /\ OnceInv /\ HonestInv)
<1>1. Init => TypeInv /\ OnceInv /\ HonestInv
  BY TypeInit, OnceInit, HonestInit
<1>2. TypeInv /\ OnceInv /\ HonestInv /\ [Next]_vars => (TypeInv /\ OnceInv /\ HonestInv)'
  BY TypeStep, OnceStep, HonestStep
<1> QED
  BY <1>1, <1>2, PTL DEF Spec

\* A receipt that Execute finalized with the outcome of its own call says what
\* became of that call: confirmed only if it ran, failed only if it did not run
\* and no longer can.
THEOREM ReceiptsAreHonest == Spec => []HonestReceipt
<1>1. TypeInv /\ OnceInv /\ HonestInv => HonestReceipt
  BY HonestImplies
<1> QED
  BY <1>1, HonestAlways, PTL

\* The client is told what happened: ok only for a call that ran, failed only
\* for one that did not, DO_NOT_REPLAY only when the call ran or a client
\* finalized its operation.
THEOREM AnswersAreHonest == Spec => []HonestAnswer
<1>1. TypeInv /\ OnceInv /\ HonestInv => HonestAnswer
  BY HonestImplies
<1> QED
  BY <1>1, HonestAlways, PTL

\* While a mutation is under way or after it ran, unless a client finalized its
\* receipt itself, replayPolicy never tells anyone that a blind retry is safe.
THEOREM NoBlindRetries == Spec => []NoBlindRetry
<1>1. TypeInv /\ OnceInv /\ HonestInv => NoBlindRetry
  BY HonestImplies
<1> QED
  BY <1>1, HonestAlways, PTL
=============================================================================
