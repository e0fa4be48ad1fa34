---------------------------- MODULE Accelerator ----------------------------
(***************************************************************************)
(* Receipt-protected execution: accelerator/runtime.go (mcpCall,           *)
(* executeResolved, receiptPrepare, receiptFinalize) over the              *)
(* operation_receipts table (work/receipts.go), the checkpoints table      *)
(* (work/checkpoints.go) and one upstream MCP server reached through       *)
(* shared_mcp/runtime.go (CallTool, CallResolved).                         *)
(*                                                                         *)
(* A request is one tool call of the Bridge's client.  Each request runs   *)
(* in a goroutine of its own and every SQL statement is autocommitted on a *)
(* connection of its own, so one action is one statement, or one exchange  *)
(* with the upstream, of one request.  Any statement can fail (busy, I/O)  *)
(* and the process can die between any two of them; the tables, and the    *)
(* messages already sent, survive.  A client that retries is another       *)
(* request with the same operation_id.                                     *)
(***************************************************************************)
EXTENDS CheckpointLog, FiniteSets

CONSTANTS
  Requests,    \* one-shot tool calls
  OpIds,       \* operation ids the clients choose
  Calls,       \* (tool name, arguments hash) pairs an operation id is bound to
  Tasks,       \* tasks of the Work store
  Hints,       \* the values "is a mutation" takes: a subset of BOOLEAN
  Kinds,       \* which requests the clients make: "call", "prepare", "finalize"
  Finals,      \* the <<delivery_state, result_state>> clients finalize with
  Faults,      \* which faults happen: "crash", "statement"
  None

ASSUME RequestsAssumption == None \notin Requests \cup OpIds \cup Tasks
ASSUME FreshAssumption == OpIds \cap Requests = {}
ASSUME HintsAssumption == Hints \subseteq BOOLEAN
ASSUME KindsAssumption == Kinds \subseteq {"call", "prepare", "finalize"}
ASSUME FinalsAssumption ==
  Finals \subseteq {"prepared", "confirmed", "unknown"}
                    \X {"pending", "returned", "failed", "unknown"}
ASSUME FaultsAssumption == Faults \subseteq {"crash", "statement"}

VARIABLES
  receipts,    \* operation_receipts: receipt_id -> row
  log,         \* checkpoints
  pc,          \* where each request stands
  req,         \* its arguments
  out,         \* executeResolved: how CallResolved and Shape went
  tip,         \* checkpointCreateDB: the row its SELECT returned
  answer,      \* what the client was told
  flight,      \* requests whose tools/call message is on its way
  ran          \* requests the upstream (or an external executor) carried out

vars == <<receipts, log, pc, req, out, tip, answer, flight, ran>>

DeliveryStates == {"prepared", "confirmed", "unknown"}
ResultStates == {"pending", "returned", "failed", "unknown"}

\* A read-only call without operation_id gets newID("op"): an id of its own,
\* for which the request itself stands.  newID("rcp") is fresh as well, and a
\* request inserts at most one receipt, so a receipt_id is the request too.
Ops == OpIds \cup Requests

NoRequest == [kind |-> "none", op |-> None, call |-> None, mut |-> FALSE,
              task |-> None, target |-> None, delivery |-> "prepared", result |-> "pending"]
NoAnswer == [status |-> "none", policy |-> "none"]

\* Mutant of replayPolicy: a receipt that was only prepared counts as not run.
replayPolicyPreparedRetries(row) ==
  CASE ~row.mut -> "SAFE_TO_REPEAT_READ_ONLY_IF_NEEDED"
    [] row.mut /\ row.delivery = "confirmed" /\ row.result = "returned" -> "DO_NOT_REPLAY"
    [] row.mut /\ row.delivery = "prepared" -> "RETRY_ONLY_BY_EXPLICIT_DECISION"
    [] OTHER -> "VERIFY_BEFORE_ANY_RETRY"

replayPolicy(row) ==
  CASE ~row.mut -> "SAFE_TO_REPEAT_READ_ONLY_IF_NEEDED"
    [] row.mut /\ row.delivery = "confirmed" /\ row.result = "returned" -> "DO_NOT_REPLAY"
    [] row.mut /\ row.delivery = "confirmed" /\ row.result = "failed"
         -> "RETRY_ONLY_BY_EXPLICIT_DECISION"
    [] OTHER -> "VERIFY_BEFORE_ANY_RETRY"

Target(r) == req[r].target
Journaled(r) == req[r].mut /\ req[r].task # None

\* The values ReceiptFinalize is called with: by receiptFinalize the client's,
\* by executeResolved those of the outcome it saw.
Delivery(r) ==
  CASE req[r].kind = "finalize" -> req[r].delivery
    [] out[r] = "failed" -> "prepared"
    [] out[r] = "unknown" -> "unknown"
    [] OTHER -> "confirmed"
Result(r) ==
  CASE req[r].kind = "finalize" -> req[r].result
    [] out[r] = "failed" -> "failed"
    [] out[r] = "unknown" -> "unknown"
    [] OTHER -> "returned"

\* The event of the checkpoint that follows it.
Event(r) ==
  CASE Delivery(r) = "unknown" -> "mutation.delivery_unknown"
    [] req[r].kind = "call" /\ out[r] = "failed" -> "mutation.failed_before_delivery"
    [] OTHER -> "mutation.after"

Init ==
  /\ receipts = [s \in {} |-> NoRequest]
  /\ log = {}
  /\ pc = [r \in Requests |-> "idle"]
  /\ req = [r \in Requests |-> NoRequest]
  /\ out = [r \in Requests |-> "none"]
  /\ tip = [r \in Requests |-> Root]
  /\ answer = [r \in Requests |-> NoAnswer]
  /\ flight = {}
  /\ ran = {}

Goto(r, from, to) ==
  /\ pc[r] = from
  /\ pc' = [pc EXCEPT ![r] = to]

\* The request ends and its client is told status, and a receipt's policy.
Reply(r, status, policy) ==
  /\ pc' = [pc EXCEPT ![r] = "done"]
  /\ answer' = [answer EXCEPT ![r] = [status |-> status, policy |-> policy]]

Fail(r) == Reply(r, "error", "none")

----------------------------------------------------------------------------
(***************************************************************************)
(* Arrival.                                                                *)
(***************************************************************************)

\* mcp_call or receipt_prepare.  A mutation must name its operation.
Arrive(r) ==
  /\ Goto(r, "idle", "select")
  /\ \E kind \in Kinds \ {"finalize"}, op \in OpIds \cup {r}, call \in Calls,
        mut \in Hints, task \in Tasks \cup {None} :
       /\ op = r => ~mut
       /\ req' = [req EXCEPT ![r] =
                    [NoRequest EXCEPT !.kind = kind, !.op = op, !.call = call,
                                      !.mut = mut, !.task = task, !.target = r]]
  /\ UNCHANGED <<receipts, log, out, tip, answer, flight, ran>>

\* Turned away before anything is stored: operation_id_required, or the tool is
\* not in the catalog ResolveTools reads (mcp_denied, mcp_unavailable).
Refuse(r) ==
  /\ pc[r] = "idle"
  /\ Fail(r)
  /\ UNCHANGED <<receipts, log, req, out, tip, flight, ran>>

\* receipt_finalize of a receipt its client knows of.  ReceiptGet reads only
\* the columns that no statement changes.
ArriveFinalize(r) ==
  /\ pc[r] = "idle"
  /\ "finalize" \in Kinds
  /\ \E s \in DOMAIN receipts, final \in Finals :
       req' = [req EXCEPT ![r] =
                 [kind |-> "finalize", op |-> receipts[s].op, call |-> receipts[s].call,
                  mut |-> receipts[s].mut, task |-> receipts[s].task,
                  target |-> s, delivery |-> final[1], result |-> final[2]]]
  /\ pc' = [pc EXCEPT ![r] = "fin_read"]
  /\ UNCHANGED <<receipts, log, out, tip, answer, flight, ran>>

----------------------------------------------------------------------------
(***************************************************************************)
(* ReceiptPrepare.                                                         *)
(***************************************************************************)

\* Mutant of SelectReceipt: the arguments hash and the tool are not compared.
SelectReceiptAnyCall(r) ==
  /\ pc[r] = "select"
  /\ \/ \E s \in DOMAIN receipts :
          /\ receipts[s].op = req[r].op
          /\ Reply(r, "deduplicated", replayPolicy(receipts[s]))
     \/ /\ \A s \in DOMAIN receipts : receipts[s].op # req[r].op
        /\ pc' = [pc EXCEPT ![r] = "insert"]
        /\ UNCHANGED answer
  /\ UNCHANGED <<receipts, log, req, out, tip, flight, ran>>

\* SELECT ... WHERE operation_id = ?: a known operation is not executed again.
SelectReceipt(r) ==
  /\ pc[r] = "select"
  /\ \/ \E s \in DOMAIN receipts :
          /\ receipts[s].op = req[r].op
          /\ IF receipts[s].call # req[r].call
             THEN Fail(r)                                     \* idempotency_conflict
             ELSE Reply(r, "deduplicated", replayPolicy(receipts[s]))
     \/ /\ \A s \in DOMAIN receipts : receipts[s].op # req[r].op
        /\ pc' = [pc EXCEPT ![r] = "insert"]
        /\ UNCHANGED answer
  /\ UNCHANGED <<receipts, log, req, out, tip, flight, ran>>

\* The table with the receipt of r in it.
Prepared(r) ==
  [s \in DOMAIN receipts \cup {r} |->
     IF s = r
     THEN [op |-> req[r].op, call |-> req[r].call, mut |-> req[r].mut, task |-> req[r].task,
           delivery |-> "prepared", result |-> "pending", ref |-> None,
           finished |-> FALSE, by |-> None]
     ELSE receipts[s]]

\* Mutant of InsertReceipt: the table without UNIQUE(operation_id).
InsertReceiptAnyway(r) ==
  /\ Goto(r, "insert", "reread")
  /\ receipts' = Prepared(r)
  /\ UNCHANGED <<log, req, out, tip, answer, flight, ran>>

\* INSERT under UNIQUE(operation_id): the second of two requests that both saw
\* no receipt gets a constraint error.
InsertReceipt(r) ==
  /\ pc[r] = "insert"
  /\ IF \E s \in DOMAIN receipts : receipts[s].op = req[r].op
     THEN /\ Fail(r)
          /\ UNCHANGED receipts
     ELSE /\ receipts' = Prepared(r)
          /\ pc' = [pc EXCEPT ![r] = "reread"]
          /\ UNCHANGED answer
  /\ UNCHANGED <<log, req, out, tip, flight, ran>>

\* The receipt is on disk: what executeResolved does next, or the licence
\* receiptPrepare gives the external executor.
Proceed(r) ==
  IF req[r].kind = "call"
  THEN pc' = [pc EXCEPT ![r] = "call"] /\ UNCHANGED answer
  ELSE Reply(r, "licensed", "none")

\* Mutant of RereadReceipt: mutations are not journaled before the call.
RereadReceiptProceeds(r) ==
  /\ pc[r] = "reread"
  /\ Proceed(r)
  /\ UNCHANGED <<receipts, log, req, out, tip, flight, ran>>

RereadReceipt(r) ==
  /\ pc[r] = "reread"
  /\ IF Journaled(r)
     THEN pc' = [pc EXCEPT ![r] = "before_read"] /\ UNCHANGED answer
     ELSE Proceed(r)
  /\ UNCHANGED <<receipts, log, req, out, tip, flight, ran>>

\* CheckpointCreateEvent(mutation.before).
ReadTipBefore(r) ==
  /\ Goto(r, "before_read", "before_insert")
  /\ tip' = [tip EXCEPT ![r] = Tip(log, req[r].task)]
  /\ UNCHANGED <<receipts, log, req, out, answer, flight, ran>>

Checkpoint(r, event) ==
  log' = log \cup {Entry(req[r].task, tip[r], <<r, event>>,
                         [event |-> event, receipt |-> Target(r)])}

InsertBefore(r) ==
  /\ pc[r] = "before_insert"
  /\ IF Fits(log, req[r].task, tip[r])
     THEN Checkpoint(r, "mutation.before") /\ Proceed(r)
     ELSE Fail(r) /\ UNCHANGED log
  /\ UNCHANGED <<receipts, req, out, tip, flight, ran>>

----------------------------------------------------------------------------
(***************************************************************************)
(* CallResolved and the upstream.                                          *)
(***************************************************************************)

\* No session (connect, initialize) or no owner: nothing was sent.
ConnectFails(r) ==
  /\ Goto(r, "call", "fin_read")
  /\ out' = [out EXCEPT ![r] = "failed"]
  /\ UNCHANGED <<receipts, log, req, tip, answer, flight, ran>>

\* The session is up and the tools/call message leaves, once: MaxRetries is -1.
SendCall(r) ==
  /\ Goto(r, "call", "sent")
  /\ flight' = flight \cup {r}
  /\ UNCHANGED <<receipts, log, req, out, tip, answer, ran>>

\* The upstream executes the call: before its answer, after the Bridge gave up
\* on it, or after the Bridge died.
UpstreamRuns(r) ==
  /\ r \in flight
  /\ flight' = flight \ {r}
  /\ ran' = ran \cup {r}
  /\ UNCHANGED <<receipts, log, pc, req, out, tip, answer>>

UpstreamLoses(r) ==
  /\ r \in flight
  /\ flight' = flight \ {r}
  /\ UNCHANGED <<receipts, log, pc, req, out, tip, answer, ran>>

\* A licensed external executor carries out the operation.
ExternalRuns(r) ==
  /\ answer[r].status = "licensed"
  /\ r \notin ran
  /\ ran' = ran \cup {r}
  /\ UNCHANGED <<receipts, log, pc, req, out, tip, answer, flight>>

CallReturns(r) ==
  /\ r \in ran
  /\ Goto(r, "sent", "shape")
  /\ UNCHANGED <<receipts, log, req, out, tip, answer, flight, ran>>

\* Mutant of CallErrs: an error after the session is up counts as undelivered.
CallErrsFailed(r) ==
  /\ Goto(r, "sent", "fin_read")
  /\ out' = [out EXCEPT ![r] = "failed"]
  /\ UNCHANGED <<receipts, log, req, tip, answer, flight, ran>>

\* Mutant of CallErrs: no timeout, so a lost call is waited for.
CallErrsAnswered(r) ==
  /\ r \in ran
  /\ Goto(r, "sent", "fin_read")
  /\ out' = [out EXCEPT ![r] = "unknown"]
  /\ UNCHANGED <<receipts, log, req, tip, answer, flight, ran>>

\* Timeout, broken response, protocol error: delivery_unknown.
CallErrs(r) ==
  /\ Goto(r, "sent", "fin_read")
  /\ out' = [out EXCEPT ![r] = "unknown"]
  /\ UNCHANGED <<receipts, log, req, tip, answer, flight, ran>>

\* Shape rejects the client's options, or the whole result has to be stored
\* first (ResultStore), or the receipt is finalized at once.
ShapeResult(r) ==
  /\ \/ /\ Goto(r, "shape", "fin_read")
        /\ \E o \in {"shape_error", "returned"} : out' = [out EXCEPT ![r] = o]
     \/ /\ Goto(r, "shape", "store")
        /\ out' = [out EXCEPT ![r] = "returned"]
  /\ UNCHANGED <<receipts, log, req, tip, answer, flight, ran>>

\* result_too_large, or stored: result_ref is the result of this request.
StoreResult(r) ==
  /\ \/ /\ pc[r] = "store"
        /\ Fail(r)
        /\ UNCHANGED out
     \/ /\ Goto(r, "store", "fin_read")
        /\ out' = [out EXCEPT ![r] = "stored"]
        /\ UNCHANGED answer
  /\ UNCHANGED <<receipts, log, req, tip, flight, ran>>

----------------------------------------------------------------------------
(***************************************************************************)
(* ReceiptFinalize and the checkpoint after it.                            *)
(***************************************************************************)

Ref(r) == IF out[r] = "stored" THEN r ELSE None

\* What the client is told when executeResolved or receiptFinalize gets to its
\* end; row is the receipt as it was last read.
Status(r) ==
  CASE req[r].kind = "finalize" -> "finalized"
    [] out[r] \in {"returned", "stored"} -> "ok"
    [] OTHER -> out[r]

\* The receipt has this request's values; row is what ReceiptFinalize returns.
AfterFinalize(r, row) ==
  IF Journaled(r) /\ out[r] # "shape_error"
  THEN /\ pc' = [pc EXCEPT ![r] = "after_read"]
       /\ answer' = [answer EXCEPT ![r].policy = replayPolicy(row)]
  ELSE Reply(r, Status(r), replayPolicy(row))

\* An error of ReceiptFinalize is ignored after a Shape error only.
FinalizeFails(r) ==
  IF out[r] = "shape_error" THEN Reply(r, Status(r), "none") ELSE Fail(r)

\* An error of the last checkpoint is ignored unless the call succeeded.
AfterFails(r) ==
  IF Status(r) = "ok" THEN Fail(r) ELSE Reply(r, Status(r), answer[r].policy)

SelectForFinalize(r) ==
  /\ pc[r] = "fin_read"
  /\ LET row == receipts[Target(r)]
     IN  IF ~row.finished
         THEN pc' = [pc EXCEPT ![r] = "fin_write"] /\ UNCHANGED answer
         ELSE IF row.delivery = Delivery(r) /\ row.result = Result(r) /\ row.ref = Ref(r)
              THEN AfterFinalize(r, row)
              ELSE FinalizeFails(r)                            \* receipt_finalized
  /\ UNCHANGED <<receipts, log, req, out, tip, flight, ran>>

\* Mutant of UpdateReceipt: delivery and result states swapped.
UpdateReceiptSwapped(r) ==
  /\ Goto(r, "fin_write", "fin_reread")
  /\ receipts' = [receipts EXCEPT ![Target(r)] =
                    [@ EXCEPT !.delivery = Result(r), !.result = Delivery(r),
                              !.ref = Ref(r), !.finished = TRUE, !.by = r]]
  /\ UNCHANGED <<log, req, out, tip, answer, flight, ran>>

\* Mutant of UpdateReceipt: finished_at is left out of the UPDATE.
UpdateReceiptUnfinished(r) ==
  /\ Goto(r, "fin_write", "fin_reread")
  /\ receipts' = [receipts EXCEPT ![Target(r)] =
                    [@ EXCEPT !.delivery = Delivery(r), !.result = Result(r),
                              !.ref = Ref(r), !.by = r]]
  /\ UNCHANGED <<log, req, out, tip, answer, flight, ran>>

\* UPDATE ... WHERE receipt_id = ?: it does not look at finished_at again.
UpdateReceipt(r) ==
  /\ Goto(r, "fin_write", "fin_reread")
  /\ receipts' = [receipts EXCEPT ![Target(r)] =
                    [@ EXCEPT !.delivery = Delivery(r), !.result = Result(r),
                              !.ref = Ref(r), !.finished = TRUE, !.by = r]]
  /\ UNCHANGED <<log, req, out, tip, answer, flight, ran>>

RereadFinalized(r) ==
  /\ pc[r] = "fin_reread"
  /\ AfterFinalize(r, receipts[Target(r)])
  /\ UNCHANGED <<receipts, log, req, out, tip, flight, ran>>

ReadTipAfter(r) ==
  /\ Goto(r, "after_read", "after_insert")
  /\ tip' = [tip EXCEPT ![r] = Tip(log, req[r].task)]
  /\ UNCHANGED <<receipts, log, req, out, answer, flight, ran>>

InsertAfter(r) ==
  /\ pc[r] = "after_insert"
  /\ IF Fits(log, req[r].task, tip[r])
     THEN /\ Checkpoint(r, Event(r))
          /\ Reply(r, Status(r), answer[r].policy)
     ELSE /\ AfterFails(r)
          /\ UNCHANGED log
  /\ UNCHANGED <<receipts, req, out, tip, flight, ran>>

----------------------------------------------------------------------------
(***************************************************************************)
(* Faults.                                                                 *)
(***************************************************************************)

Preparing == {"select", "insert", "reread", "before_read", "before_insert", "store"}
Finalizing == {"fin_read", "fin_write", "fin_reread"}
Journaling == {"after_read", "after_insert"}

\* The statement the request is at fails: the database is busy or unavailable,
\* or the task or step the receipt names is not there.
StatementFails(r) ==
  /\ "statement" \in Faults
  /\ \/ pc[r] \in Preparing /\ Fail(r)
     \/ pc[r] \in Finalizing /\ FinalizeFails(r)
     \/ pc[r] \in Journaling /\ AfterFails(r)
  /\ UNCHANGED <<receipts, log, req, out, tip, flight, ran>>

\* The Bridge dies with every request in it and is restarted; their clients
\* are told nothing.
Crash ==
  /\ "crash" \in Faults
  /\ \E r \in Requests : pc[r] \notin {"idle", "done", "dead"}
  /\ pc' = [r \in Requests |-> IF pc[r] \in {"idle", "done"} THEN pc[r] ELSE "dead"]
  /\ UNCHANGED <<receipts, log, req, out, tip, answer, flight, ran>>

\* Every request was answered or died with the process.
Terminated ==
  /\ \A r \in Requests : pc[r] \in {"idle", "done", "dead"}
  /\ UNCHANGED vars

\* The Bridge's own steps for request r.
Step(r) ==
  \/ SelectReceipt(r) \/ InsertReceipt(r) \/ RereadReceipt(r)
  \/ ReadTipBefore(r) \/ InsertBefore(r)
  \/ ConnectFails(r) \/ SendCall(r) \/ CallReturns(r) \/ CallErrs(r)
  \/ ShapeResult(r) \/ StoreResult(r)
  \/ SelectForFinalize(r) \/ UpdateReceipt(r) \/ RereadFinalized(r)
  \/ ReadTipAfter(r) \/ InsertAfter(r)

Environment(r) ==
  \/ Arrive(r) \/ Refuse(r) \/ ArriveFinalize(r)
  \/ UpstreamRuns(r) \/ UpstreamLoses(r) \/ ExternalRuns(r)
  \/ StatementFails(r)

Next == (\E r \in Requests : Step(r) \/ Environment(r)) \/ Crash \/ Terminated

Spec == Init /\ [][Next]_vars

\* A goroutine that can go on does: statements are bounded by busy_timeout and
\* the upstream call by withTimeout, so CallErrs is always possible at "sent".
FairSpec == Spec /\ \A r \in Requests : WF_vars(Step(r))

----------------------------------------------------------------------------
(***************************************************************************)
(* What the table promises: OperationLedger.                               *)
(***************************************************************************)

Ledger == INSTANCE OperationLedger WITH
  Executors <- Requests,
  bound <- [o \in Ops |-> {receipts[s].call : s \in {x \in DOMAIN receipts : receipts[x].op = o}}],
  runs <- [o \in Ops |-> {r \in ran : req[r].op = o}]

----------------------------------------------------------------------------
(***************************************************************************)
(* Properties.                                                             *)
(***************************************************************************)

Row == [op : Ops, call : Calls, mut : BOOLEAN, task : Tasks \cup {None},
        delivery : DeliveryStates, result : ResultStates, ref : Requests \cup {None},
        finished : BOOLEAN, by : Requests \cup {None}]

Policies == {"SAFE_TO_REPEAT_READ_ONLY_IF_NEEDED", "DO_NOT_REPLAY",
             "RETRY_ONLY_BY_EXPLICIT_DECISION", "VERIFY_BEFORE_ANY_RETRY"}
Statuses == {"none", "error", "deduplicated", "licensed", "finalized", "ok",
             "failed", "unknown", "shape_error"}
Outcomes == {"none", "failed", "unknown", "shape_error", "returned", "stored"}

PCs == {"idle", "call", "sent", "shape", "done", "dead"}
         \cup Preparing \cup Finalizing \cup Journaling

\* Type correctness of receipts, of each request's control state and its answer.
TypeOK ==
  /\ DOMAIN receipts \subseteq Requests
  /\ receipts \in [DOMAIN receipts -> Row]
  /\ pc \in [Requests -> PCs]
  /\ req \in [Requests -> [kind : {"none", "call", "prepare", "finalize"},
                          op : Ops \cup {None}, call : Calls \cup {None}, mut : BOOLEAN,
                          task : Tasks \cup {None}, target : Requests \cup {None},
                          delivery : DeliveryStates, result : ResultStates]]
  /\ out \in [Requests -> Outcomes]
  /\ answer \in [Requests -> [status : Statuses, policy : Policies \cup {"none"}]]
  /\ flight \subseteq Requests
  /\ ran \subseteq Requests

Licensed == {r \in Requests : answer[r].status = "licensed"}

\* At most one of the requests that name an operation id ever reaches the
\* upstream or is licensed to execute elsewhere, however they interleave, retry
\* or die (executeResolved and receiptPrepare under UNIQUE(operation_id)).
AtMostOnce ==
  \A r, s \in flight \cup ran \cup Licensed : req[r].op = req[s].op => r = s

\* No mutation of a task leaves the Bridge before its receipt and a
\* mutation.before checkpoint naming that receipt are on disk.
WriteAhead ==
  \A r \in flight \cup ran \cup Licensed :
    /\ r \in DOMAIN receipts
    /\ Journaled(r) => \E c \in Rows(log, req[r].task) :
                         c.body = [event |-> "mutation.before", receipt |-> r]

\* What the Bridge itself records of a call is what happened: a receipt it
\* confirms was executed, and one it marks failed never will be, not even by a
\* message still on its way (executeResolved, CallTool's error classes).
HonestReceipt ==
  \A r \in DOMAIN receipts : receipts[r].by = r =>
    /\ receipts[r].delivery = "confirmed" => r \in ran
    /\ receipts[r].result = "failed" => r \notin flight \cup ran

\* A mutation that was or may yet be executed is never reported as one that may
\* be retried, whatever died or failed on the way, unless a client finalized its
\* receipt itself (replayPolicy).
NoBlindRetry ==
  \A r \in flight \cup ran :
    receipts[r].mut /\ receipts[r].by \in {None, r} =>
      replayPolicy(receipts[r]) \in {"DO_NOT_REPLAY", "VERIFY_BEFORE_ANY_RETRY"}

ClientFinalized(op) == \E f \in Requests : req[f].kind = "finalize" /\ req[f].op = op

\* What a client is told holds: "ok" only of an executed call, "failed" only of
\* one that is never executed, and a deduplicated DO_NOT_REPLAY only if the very
\* same call was executed under that operation id.
HonestAnswer ==
  \A r \in Requests :
    /\ answer[r].status = "ok" => r \in ran
    /\ answer[r].status = "failed" => r \notin flight \cup ran
    /\ /\ answer[r] = [status |-> "deduplicated", policy |-> "DO_NOT_REPLAY"]
       /\ ~ClientFinalized(req[r].op)
       => \E s \in ran : req[s].op = req[r].op /\ req[s].call = req[r].call

\* The checkpoints of every task stay one gap-free chain although concurrent
\* writers pick the same sequence (checkpointCreateDB).
OneChain == \A t \in Tasks : Chain(log, t)

\* Every request is answered unless the Bridge dies.
Answered == \A r \in Requests : pc[r] # "idle" ~> pc[r] \in {"done", "dead"}

\* Receipts, retries and crashes implement a ledger in which an operation id is
\* bound to one call for good and executed at most once after that.
LedgerSpec == Ledger!Spec

\* docs/testing-and-evals.md: "finalized receipt immutability".
FinalizedImmutable ==
  [][\A r \in DOMAIN receipts : receipts[r].finished => receipts'[r] = receipts[r]]_receipts
=============================================================================
