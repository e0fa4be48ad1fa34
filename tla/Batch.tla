------------------------------- MODULE Batch -------------------------------
(***************************************************************************)
(* mcp_batch (accelerator/runtime.go: mcpBatch): one request that executes *)
(* several calls, one after the other, or side by side under a semaphore   *)
(* of `concurrency` slots, and answers when all of them are over.          *)
(*                                                                         *)
(* What a single call does is the subject of Accelerator.  Here it does    *)
(* local work (ReceiptPrepare, checkpoints), is sent to its upstream with  *)
(* the timeout withTimeout derives from the request's deadline             *)
(* (shared_mcp/runtime.go), does local work again and ends with an answer  *)
(* that is ok or not, or with an error.  Time is a clock that does not     *)
(* pass the moment an upstream call times out.                             *)
(***************************************************************************)
EXTENDS Integers, FiniteSets

CONSTANTS
  Size,         \* how many calls the request has
  MaxParallel,  \* the largest concurrency
  Hints,        \* what readOnlyHint may be: a subset of BOOLEAN
  Timeout,      \* Runtime.Timeout
  Deadlines,    \* deadlines the request may carry; Never is none
  MaxClock,     \* bound of the clock
  Never

ASSUME SizeAssumption == Size \in Nat \ {0} /\ MaxParallel \in Nat \ {0}
ASSUME TimesAssumption ==
  Timeout \in Nat \ {0} /\ MaxClock \in Nat /\ Deadlines \subseteq Nat \cup {Never} /\ Never \notin Nat

Calls == 1 .. Size

VARIABLES
  req,       \* mode, stop_on_error, concurrency, deadline, whether every tool is in
             \* the catalog, and the tools' readOnlyHint
  st,        \* where each call (its goroutine, in a parallel batch) stands
  due,       \* when its upstream call is timed out; 0 before it is sent
  results,   \* the answers collected
  fatal,     \* a call ended with an error, or was given up
  sem,       \* slots taken
  now,
  gone,      \* the client cancelled the request
  answer     \* "none", or what the client gets: "error", "results"

vars == <<req, st, due, results, fatal, sem, now, gone, answer>>

Active == {"local", "sent", "closing"}

Init ==
  /\ req \in [mode : {"parallel", "sequential"}, stop : BOOLEAN, width : 0 .. MaxParallel + 1,
              deadline : Deadlines, resolved : BOOLEAN, readOnly : [Calls -> Hints]]
  /\ st = [i \in Calls |-> "new"]
  /\ due = [i \in Calls |-> 0]
  /\ results = [i \in Calls |-> "none"]
  /\ fatal = FALSE
  /\ sem = 0
  /\ now = 0
  /\ gone = FALSE
  /\ answer = "none"

\* Mutant of Valid: the tools' readOnlyHint is not looked at.
ValidAnyHint ==
  /\ req.resolved
  /\ req.mode = "parallel" => ~req.stop /\ req.width \in 1 .. MaxParallel

\* What mcpBatch checks before it starts anything: in either mode ResolveTools
\* must have found every tool (else mcp_unavailable or mcp_denied).
Valid ==
  /\ req.resolved
  /\ req.mode = "parallel" => /\ ~req.stop
                              /\ \A i \in Calls : req.readOnly[i]
                              /\ req.width \in 1 .. MaxParallel

Accept ==
  /\ answer = "none"
  /\ \A i \in Calls : st[i] = "new"
  /\ IF Valid
     THEN /\ st' = [i \in Calls |-> "waiting"]
          /\ UNCHANGED answer
     ELSE /\ answer' = "error"
          /\ UNCHANGED st
  /\ UNCHANGED <<req, due, results, fatal, sem, now, gone>>

ContextDone == gone \/ (req.deadline # Never /\ now >= req.deadline)

\* The next call of a sequential batch; nobody looks at the context.
StartNext(i) ==
  /\ req.mode = "sequential"
  /\ answer = "none"
  /\ st[i] = "waiting"
  /\ \A j \in Calls : j < i => st[j] = "over"
  /\ st' = [st EXCEPT ![i] = "local"]
  /\ UNCHANGED <<req, due, results, fatal, sem, now, gone, answer>>

\* case sem <- struct{}{}: chosen at random if the context is done as well.
Acquire(i) ==
  /\ req.mode = "parallel"
  /\ st[i] = "waiting"
  /\ sem < req.width
  /\ sem' = sem + 1
  /\ st' = [st EXCEPT ![i] = "local"]
  /\ UNCHANGED <<req, due, results, fatal, now, gone, answer>>

\* case <-ctx.Done().
GiveUp(i) ==
  /\ req.mode = "parallel"
  /\ st[i] = "waiting"
  /\ ContextDone
  /\ fatal' = TRUE
  /\ st' = [st EXCEPT ![i] = "over"]
  /\ UNCHANGED <<req, due, results, sem, now, gone, answer>>

\* A deadline that has passed leaves the full timeout.
withTimeout ==
  IF req.deadline # Never /\ req.deadline > now /\ req.deadline - now < Timeout
  THEN req.deadline
  ELSE now + Timeout

\* CallResolved.
Send(i) ==
  /\ st[i] = "local"
  /\ st' = [st EXCEPT ![i] = "sent"]
  /\ due' = [due EXCEPT ![i] = withTimeout]
  /\ UNCHANGED <<req, results, fatal, sem, now, gone, answer>>

\* The upstream answers, or the call times out.
Return(i) ==
  /\ st[i] = "sent"
  /\ st' = [st EXCEPT ![i] = "closing"]
  /\ UNCHANGED <<req, due, results, fatal, sem, now, gone, answer>>

\* Mutant of Record: stop_on_error is not looked at.
RecordGoesOn(i, outcome) ==
  /\ st[i] \in {"local", "closing"}
  /\ IF outcome = "error"
     THEN fatal' = TRUE /\ UNCHANGED results
     ELSE results' = [results EXCEPT ![i] = outcome] /\ UNCHANGED fatal
  /\ IF req.mode = "parallel"
     THEN st' = [st EXCEPT ![i] = "release"] /\ UNCHANGED answer
     ELSE /\ st' = [st EXCEPT ![i] = "over"]
          /\ answer' = IF outcome = "error" THEN "error"
                       ELSE IF i = Size THEN "results" ELSE "none"
  /\ UNCHANGED <<req, due, sem, now, gone>>

\* What executeResolved ended with is recorded; in a sequential batch it also
\* decides whether there is a next call.  A deduplicated call is not sent.
Record(i, outcome) ==
  /\ st[i] \in {"local", "closing"}
  /\ IF outcome = "error"
     THEN fatal' = TRUE /\ UNCHANGED results
     ELSE results' = [results EXCEPT ![i] = outcome] /\ UNCHANGED fatal
  /\ IF req.mode = "parallel"
     THEN st' = [st EXCEPT ![i] = "release"] /\ UNCHANGED answer
     ELSE /\ st' = [st EXCEPT ![i] = "over"]
          /\ answer' = IF outcome = "error" THEN "error"
                       ELSE IF i = Size \/ (outcome = "failed" /\ req.stop)
                            THEN "results" ELSE "none"
  /\ UNCHANGED <<req, due, sem, now, gone>>

\* Mutant of Release: a goroutine that records an error keeps its slot.
ReleaseUnlessFatal(i) ==
  /\ st[i] = "release"
  /\ sem' = IF fatal THEN sem ELSE sem - 1
  /\ st' = [st EXCEPT ![i] = "over"]
  /\ UNCHANGED <<req, due, results, fatal, now, gone, answer>>

\* The deferred <-sem and wg.Done().
Release(i) ==
  /\ st[i] = "release"
  /\ sem' = sem - 1
  /\ st' = [st EXCEPT ![i] = "over"]
  /\ UNCHANGED <<req, due, results, fatal, now, gone, answer>>

\* Mutant of Join: the request is answered at the first error.
JoinEarly ==
  /\ req.mode = "parallel"
  /\ answer = "none"
  /\ fatal \/ \A i \in Calls : st[i] = "over"
  /\ answer' = IF fatal THEN "error" ELSE "results"
  /\ UNCHANGED <<req, st, due, results, fatal, sem, now, gone>>

\* wg.Wait() returns.
Join ==
  /\ req.mode = "parallel"
  /\ answer = "none"
  /\ \A i \in Calls : st[i] = "over"
  /\ answer' = IF fatal THEN "error" ELSE "results"
  /\ UNCHANGED <<req, st, due, results, fatal, sem, now, gone>>

Cancel ==
  /\ ~gone /\ answer = "none"
  /\ gone' = TRUE
  /\ UNCHANGED <<req, st, due, results, fatal, sem, now, answer>>

\* Time passes up to the timeouts of the calls under way.
Tick ==
  /\ now < MaxClock
  /\ \A i \in Calls : st[i] = "sent" => now < due[i]
  /\ now' = now + 1
  /\ UNCHANGED <<req, st, due, results, fatal, sem, gone, answer>>

Answered == answer # "none" /\ UNCHANGED vars

Step(i) ==
  \/ StartNext(i) \/ Acquire(i) \/ Send(i) \/ Return(i)
  \/ \E outcome \in {"ok", "failed", "error"} : Record(i, outcome)
  \/ Release(i)

Next ==
  \/ Accept \/ Join \/ Cancel \/ Tick \/ Answered
  \/ \E i \in Calls : Step(i) \/ GiveUp(i)

Spec == Init /\ [][Next]_vars

\* Every goroutine that can go on does; an upstream call ends at its timeout.
\* Neither the client nor the clock has to do anything.
FairSpec == Spec /\ WF_vars(Accept) /\ WF_vars(Join) /\ \A i \in Calls : WF_vars(Step(i))

----------------------------------------------------------------------------
(***************************************************************************)
(* Properties.                                                             *)
(***************************************************************************)

InFlight == {i \in Calls : st[i] \in Active}

\* Type correctness; the semaphore counts the goroutines between <- and <-.
TypeOK ==
  /\ st \in [Calls -> {"new", "waiting", "release", "over"} \cup Active]
  /\ due \in [Calls -> 0 .. MaxClock + Timeout]
  /\ results \in [Calls -> {"none", "ok", "failed"}]
  /\ sem = IF req.mode = "parallel"
           THEN Cardinality({i \in Calls : st[i] \in Active \cup {"release"}})
           ELSE 0

\* At most `concurrency` calls are under way, and one that is not read-only is
\* never under way beside another.
BoundedFanOut ==
  /\ req.mode = "parallel" => Cardinality(InFlight) <= req.width
  /\ \A i, j \in InFlight : i # j => req.readOnly[i] /\ req.readOnly[j]

\* From the moment the client has its answer no call of the batch is under way.
NothingLeftBehind == answer # "none" => InFlight = {} /\ sem = 0

\* A batch that answers with results has one for every call it started, and
\* after a failure that was to stop it nothing was started.
ResultsAccount ==
  answer = "results" =>
    /\ \A i \in Calls : results[i] # "none" <=> st[i] = "over"
    /\ req.stop => \A i, j \in Calls : i < j /\ results[i] = "failed" => st[j] = "waiting"
    /\ \A i \in Calls : st[i] # "over" => req.stop

\* Every batch is answered: neither the semaphore nor the wait group is left
\* hanging by a call that fails or a client that goes away.
BatchAnswered == <>(answer # "none")

\* docs/testing-and-evals.md: "outbound MCP starts from a clean value context
\* while respecting the tighter inbound deadline".
InboundDeadlineRespected ==
  [][\A i \in Calls :
       st[i] = "local" /\ st'[i] = "sent" /\ req.deadline # Never
         => due'[i] <= req.deadline]_<<st, due>>
=============================================================================
