---------------------------- MODULE Batch_proofs ----------------------------
(***************************************************************************)
(* Proofs about Batch, for any number of calls, any concurrency and any    *)
(* timeouts and deadlines.                                                 *)
(***************************************************************************)
EXTENDS Batch, FiniteSetTheorems, TLAPS

\* What the request says, and what the batch is in but for its slots.
Requests == [mode : {"parallel", "sequential"}, stop : BOOLEAN, width : 0 .. MaxParallel + 1,
             deadline : Deadlines, resolved : BOOLEAN, readOnly : [Calls -> Hints]]

Shape ==
  /\ req \in Requests
  /\ st \in [Calls -> {"new", "waiting", "release", "over"} \cup Active]
  /\ due \in [Calls -> 0 .. MaxClock + Timeout]
  /\ results \in [Calls -> {"none", "ok", "failed"}]
  /\ fatal \in BOOLEAN
  /\ now \in 0 .. MaxClock
  /\ answer \in {"none", "error", "results"}

\* Calls are started together, and only those of a valid request.
Started == (\E i \in Calls : st[i] # "new") => Valid /\ \A i \in Calls : st[i] # "new"

Slots == {i \in Calls : st[i] \in Active \cup {"release"}}

\* A slot is taken for each goroutine between its two semaphore operations.
SlotsInv ==
  /\ req.mode = "parallel" => sem = Cardinality(Slots) /\ (sem > 0 => sem <= req.width)
  /\ req.mode = "sequential" => sem = 0

\* A parallel batch is answered when nothing was started or all is over; a
\* goroutine that is done has left a result or an error.
ParallelInv ==
  req.mode = "parallel" =>
    /\ answer # "none" => \/ answer = "error" /\ \A i \in Calls : st[i] = "new"
                          \/ (answer = "results" => ~fatal) /\ \A i \in Calls : st[i] = "over"
    /\ \A i \in Calls : results[i] # "none" => st[i] \in {"release", "over"}
    /\ ~fatal => \A i \in Calls : st[i] \in {"release", "over"} => results[i] # "none"

\* A sequential batch is a row of calls that are over, at most one that is under
\* way, and calls that wait; it is answered at an error, at a failure that is to
\* stop it, or at the end of the row, if it was accepted.
SequentialInv ==
  req.mode = "sequential" =>
    /\ \A i \in Calls : st[i] # "release" /\ (results[i] # "none" => st[i] = "over")
    /\ \A i, j \in Calls : j < i /\ st[i] \in Active \cup {"over"} =>
         st[j] = "over" /\ ~(req.stop /\ results[j] = "failed")
    /\ answer = "none" => \A i \in Calls : st[i] = "over" =>
         results[i] # "none" /\ ~(req.stop /\ results[i] = "failed")
    /\ answer # "none" => \A i \in Calls : st[i] \in {"new", "waiting", "over"}
    /\ answer = "results" => /\ \A i \in Calls : st[i] = "over" => results[i] # "none"
                             /\ \A i \in Calls : st[i] # "over" => req.stop

BatchInv == Shape /\ Started /\ SlotsInv /\ ParallelInv /\ SequentialInv

LEMMA CallsAreFinite ==
  ASSUME NEW S \in SUBSET Calls
  PROVE  IsFiniteSet(S) /\ Cardinality(S) \in Nat
<1>1. IsFiniteSet(Calls)
  BY FS_Interval, SizeAssumption DEF Calls
<1> QED
  BY <1>1, FS_Subset, FS_CardinalityType

\* Taking and releasing a slot.
LEMMA OneMore ==
  ASSUME NEW S \in SUBSET Calls, NEW T \in SUBSET Calls, NEW i \in Calls \ S, T = S \cup {i}
  PROVE  Cardinality(T) = Cardinality(S) + 1
BY CallsAreFinite, FS_AddElement

LEMMA OneLess ==
  ASSUME NEW S \in SUBSET Calls, NEW T \in SUBSET Calls, NEW i \in S, T = S \ {i}
  PROVE  Cardinality(T) = Cardinality(S) - 1
BY CallsAreFinite, FS_RemoveElement

\* withTimeout: the upstream call is timed out within the bound of the clock.
LEMMA Deadline ==
  ASSUME req \in Requests, now \in 0 .. MaxClock
  PROVE  withTimeout \in 0 .. MaxClock + Timeout
<1>1. req.deadline \in Nat \cup {Never}
  BY TimesAssumption DEF Requests
<1> QED
  BY <1>1, TimesAssumption DEF withTimeout

LEMMA BatchInit == Init => BatchInv
<1> SUFFICES ASSUME Init PROVE BatchInv
  OBVIOUS
<1>1. /\ req \in Requests /\ sem = 0 /\ answer = "none" /\ fatal = FALSE /\ now = 0
      /\ \A i \in Calls : st[i] = "new" /\ results[i] = "none" /\ due[i] = 0
  BY DEF Init, Requests
<1>2. Shape
  <2>1. 0 \in 0 .. MaxClock + Timeout /\ 0 \in 0 .. MaxClock
    BY TimesAssumption
  <2> QED
    BY <1>1, <2>1 DEF Init, Shape
<1>3. Started /\ ParallelInv /\ SequentialInv
  BY <1>1 DEF Started, ParallelInv, SequentialInv, Active
<1>4. SlotsInv
  <2>1. Slots = {}
    BY <1>1 DEF Slots, Active
  <2> QED
    BY <1>1, <2>1, FS_EmptySet DEF SlotsInv
<1> QED
  BY <1>2, <1>3, <1>4 DEF BatchInv

\* The number of slots is a count.
LEMMA SlotsAreCounted ==
  ASSUME BatchInv
  PROVE  /\ sem \in Nat /\ req.width \in Nat /\ Slots \in SUBSET Calls
         /\ req.mode \in {"parallel", "sequential"}
<1>1. Slots \in SUBSET Calls /\ req.width \in Nat /\ req.mode \in {"parallel", "sequential"}
  BY SizeAssumption DEF Slots, BatchInv, Shape, Requests
<1> QED
  BY <1>1, CallsAreFinite DEF BatchInv, SlotsInv

\* A step that moves one call on without a slot being taken or released.
LEMMA SlotsStay ==
  ASSUME BatchInv, NEW i \in Calls, NEW place, st' = [st EXCEPT ![i] = place],
         st[i] \in Active \cup {"release"} <=> place \in Active \cup {"release"},
         sem' = sem, req' = req
  PROVE  SlotsInv'
<1>1. Slots' = Slots
  BY DEF BatchInv, Shape, Slots
<1> QED
  BY <1>1 DEF BatchInv, SlotsInv

LEMMA AcceptKeepsInv == BatchInv /\ Accept => BatchInv'
<1> SUFFICES ASSUME BatchInv, Accept PROVE BatchInv'
  OBVIOUS
<1>1. CASE Valid
  <2>1. /\ st' = [j \in Calls |-> "waiting"] /\ answer = "none"
        /\ \A j \in Calls : st[j] = "new"
        /\ UNCHANGED <<req, due, results, fatal, sem, now, answer>>
    BY <1>1 DEF Accept
  <2>2. Shape' /\ Started'
    BY <1>1, <2>1 DEF BatchInv, Shape, Started, Valid
  <2>3. SlotsInv'
    <3>1. Slots' = Slots
      BY <2>1 DEF Slots, Active
    <3> QED
      BY <2>1, <3>1 DEF BatchInv, SlotsInv
  <2>4. ParallelInv'
    BY <2>1 DEF BatchInv, ParallelInv
  <2>5. SequentialInv'
    BY <2>1 DEF BatchInv, SequentialInv, Active
  <2> QED
    BY <2>2, <2>3, <2>4, <2>5 DEF BatchInv
<1>2. CASE ~Valid
  <2>1. /\ answer' = "error"
        /\ \A j \in Calls : st[j] = "new"
        /\ UNCHANGED <<req, st, due, results, fatal, sem, now>>
    BY <1>2 DEF Accept, Valid
  <2>2. Slots' = Slots
    BY <2>1 DEF Slots
  <2>3. Shape' /\ Started'
    BY <2>1 DEF BatchInv, Shape, Started
  <2>4. SlotsInv'
    BY <2>1, <2>2 DEF BatchInv, SlotsInv
  <2>5. ParallelInv'
    BY <2>1 DEF BatchInv, ParallelInv
  <2>6. SequentialInv'
    BY <2>1 DEF BatchInv, SequentialInv, Active
  <2> QED
    BY <2>3, <2>4, <2>5, <2>6 DEF BatchInv
<1> QED
  BY <1>1, <1>2

LEMMA StartsKeepInv ==
  ASSUME BatchInv, NEW i \in Calls, StartNext(i)
  PROVE  BatchInv'
<1>1. /\ st' = [st EXCEPT ![i] = "local"] /\ st[i] = "waiting"
      /\ req.mode = "sequential" /\ answer = "none"
      /\ \A j \in Calls : j < i => st[j] = "over"
      /\ UNCHANGED <<req, due, results, fatal, sem, now, answer>>
  BY DEF StartNext
<1>2. st'[i] = "local" /\ \A j \in Calls \ {i} : st'[j] = st[j]
  BY <1>1 DEF BatchInv, Shape
<1>3. Shape' /\ Started'
  BY <1>1, <1>2 DEF BatchInv, Shape, Started, Valid, Active
<1>4. SlotsInv'
  BY <1>1 DEF BatchInv, SlotsInv
<1>5. SequentialInv'
  <2>1. \A k, j \in Calls : j < k /\ st'[k] \in Active \cup {"over"} =>
          st'[j] = "over" /\ ~(req.stop /\ results[j] = "failed")
    <3> SUFFICES ASSUME NEW k \in Calls, NEW j \in Calls, j < k, st'[k] \in Active \cup {"over"}
                 PROVE  st'[j] = "over" /\ ~(req.stop /\ results[j] = "failed")
      OBVIOUS
    <3>1. CASE k = i
      BY <1>1, <1>2, <3>1 DEF BatchInv, SequentialInv, Calls
    <3>2. CASE k # i
      <4>1. st[j] = "over" /\ ~(req.stop /\ results[j] = "failed")
        BY <1>1, <1>2, <3>2 DEF BatchInv, SequentialInv
      <4> QED
        BY <1>1, <1>2, <4>1
    <3> QED
      BY <3>1, <3>2
  <2> QED
    BY <1>1, <1>2, <2>1 DEF BatchInv, SequentialInv
<1>6. ParallelInv'
  BY <1>1 DEF ParallelInv
<1> QED
  BY <1>3, <1>4, <1>5, <1>6 DEF BatchInv

LEMMA AcquiresKeepInv ==
  ASSUME BatchInv, NEW i \in Calls, Acquire(i)
  PROVE  BatchInv'
<1>1. /\ st' = [st EXCEPT ![i] = "local"] /\ st[i] = "waiting" /\ sem' = sem + 1
      /\ req.mode = "parallel" /\ sem < req.width
      /\ UNCHANGED <<req, due, results, fatal, now, answer>>
  BY DEF Acquire
<1>2. st'[i] = "local" /\ \A j \in Calls \ {i} : st'[j] = st[j]
  BY <1>1 DEF BatchInv, Shape
<1>3. Shape' /\ Started'
  BY <1>1, <1>2 DEF BatchInv, Shape, Started, Valid, Active
<1>4. SlotsInv'
  <2>1. Slots' = Slots \cup {i} /\ i \notin Slots
    BY <1>1, <1>2 DEF Slots, Active
  <2>2. Cardinality(Slots') = Cardinality(Slots) + 1
    <3>1. Slots \in SUBSET Calls /\ Slots' \in SUBSET Calls
      BY DEF Slots
    <3> QED
      BY <2>1, <3>1, OneMore
  <2> QED
    BY <1>1, <2>2, SlotsAreCounted DEF BatchInv, SlotsInv
<1>5. ParallelInv'
  BY <1>1, <1>2 DEF BatchInv, ParallelInv
<1>6. SequentialInv'
  BY <1>1 DEF SequentialInv
<1> QED
  BY <1>3, <1>4, <1>5, <1>6 DEF BatchInv

LEMMA GiveUpsKeepInv ==
  ASSUME BatchInv, NEW i \in Calls, GiveUp(i)
  PROVE  BatchInv'
<1>1. /\ st' = [st EXCEPT ![i] = "over"] /\ st[i] = "waiting" /\ fatal' = TRUE
      /\ req.mode = "parallel"
      /\ UNCHANGED <<req, due, results, sem, now, answer>>
  BY DEF GiveUp
<1>2. st'[i] = "over" /\ \A j \in Calls \ {i} : st'[j] = st[j]
  BY <1>1 DEF BatchInv, Shape
<1>3. Shape' /\ Started'
  BY <1>1, <1>2 DEF BatchInv, Shape, Started, Valid
<1>4. SlotsInv'
  BY <1>1, SlotsStay DEF Active
<1>5. ParallelInv'
  BY <1>1, <1>2 DEF BatchInv, ParallelInv
<1>6. SequentialInv'
  BY <1>1 DEF SequentialInv
<1> QED
  BY <1>3, <1>4, <1>5, <1>6 DEF BatchInv

\* A call goes to its upstream or comes back from it.
LEMMA UpstreamKeepsInv ==
  ASSUME BatchInv, NEW i \in Calls, Send(i) \/ Return(i)
  PROVE  BatchInv'
<1>1. PICK place \in {"sent", "closing"} : st' = [st EXCEPT ![i] = place]
  BY DEF Send, Return
<1>2. /\ st[i] \in Active
      /\ UNCHANGED <<req, results, fatal, sem, now, answer>>
  BY DEF Send, Return, Active
<1>3. place \in Active /\ st'[i] = place /\ \A j \in Calls \ {i} : st'[j] = st[j]
  BY <1>1 DEF BatchInv, Shape, Active
<1>4. due' \in [Calls -> 0 .. MaxClock + Timeout]
  BY Deadline DEF BatchInv, Shape, Send, Return
<1>5. Shape' /\ Started'
  BY <1>1, <1>2, <1>3, <1>4 DEF BatchInv, Shape, Started, Valid, Active
<1>6. SlotsInv'
  BY <1>1, <1>2, <1>3, SlotsStay
<1>7. ParallelInv'
  BY <1>1, <1>2, <1>3 DEF BatchInv, ParallelInv, Active
<1>8. SequentialInv'
  BY <1>1, <1>2, <1>3 DEF BatchInv, SequentialInv, Active
<1> QED
  BY <1>5, <1>6, <1>7, <1>8 DEF BatchInv

LEMMA ParallelRecordsKeepInv ==
  ASSUME BatchInv, NEW i \in Calls, NEW outcome \in {"ok", "failed", "error"}, Record(i, outcome),
         req.mode = "parallel"
  PROVE  BatchInv'
<1>1. /\ st' = [st EXCEPT ![i] = "release"] /\ st[i] \in Active
      /\ \/ results' = results /\ fatal' = TRUE
         \/ results' = [results EXCEPT ![i] = outcome] /\ fatal' = fatal /\ outcome # "error"
      /\ UNCHANGED <<req, due, sem, now, answer>>
  BY DEF Record, Active
<1>2. st'[i] = "release" /\ \A j \in Calls \ {i} : st'[j] = st[j]
  BY <1>1 DEF BatchInv, Shape
<1>3. \/ results' = results /\ fatal' = TRUE
      \/ /\ results'[i] = outcome /\ fatal' = fatal /\ outcome \in {"ok", "failed"}
         /\ \A j \in Calls \ {i} : results'[j] = results[j]
  BY <1>1 DEF BatchInv, Shape
<1>4. Shape' /\ Started'
  BY <1>1, <1>2, <1>3 DEF BatchInv, Shape, Started, Valid, Active
<1>5. SlotsInv'
  BY <1>1, SlotsStay DEF Active
<1>6. ParallelInv'
  <2>1. answer = "none"
    BY <1>1 DEF BatchInv, ParallelInv, Shape, Active
  <2> QED
    BY <1>1, <1>2, <1>3, <2>1 DEF BatchInv, ParallelInv, Active
<1>7. SequentialInv'
  BY <1>1 DEF SequentialInv
<1> QED
  BY <1>4, <1>5, <1>6, <1>7 DEF BatchInv

LEMMA SequentialRecordsKeepInv ==
  ASSUME BatchInv, NEW i \in Calls, NEW outcome \in {"ok", "failed", "error"}, Record(i, outcome),
         req.mode = "sequential"
  PROVE  BatchInv'
<1> DEFINE stops == outcome = "failed" /\ req.stop
<1>1. /\ st' = [st EXCEPT ![i] = "over"] /\ st[i] \in Active
      /\ answer' = IF outcome = "error" THEN "error"
                   ELSE IF i = Size \/ stops THEN "results" ELSE "none"
      /\ \/ results' = results /\ fatal' = TRUE /\ outcome = "error"
         \/ results' = [results EXCEPT ![i] = outcome] /\ fatal' = fatal /\ outcome # "error"
      /\ UNCHANGED <<req, due, sem, now>>
  BY DEF Record, Active
<1> HIDE DEF stops
<1>2. st'[i] = "over" /\ \A j \in Calls \ {i} : st'[j] = st[j]
  BY <1>1 DEF BatchInv, Shape
<1>3. \/ results' = results /\ outcome = "error"
      \/ /\ results'[i] = outcome /\ outcome \in {"ok", "failed"}
         /\ \A j \in Calls \ {i} : results'[j] = results[j]
  BY <1>1 DEF BatchInv, Shape
<1>4. \/ answer' = "error" /\ outcome = "error"
      \/ answer' = "results" /\ outcome # "error" /\ (i = Size \/ stops)
      \/ answer' = "none" /\ outcome # "error" /\ i # Size /\ ~stops
  BY <1>1
<1>5. answer = "none" /\ results[i] = "none"
  BY <1>1 DEF BatchInv, SequentialInv, Shape, Active
<1>6. /\ \A j \in Calls : j < i => st[j] = "over" /\ ~(req.stop /\ results[j] = "failed")
      /\ \A j \in Calls : j > i => st[j] = "waiting"
  <2>1. \A j \in Calls : j > i => st[j] \notin Active \cup {"over"}
    BY <1>1 DEF BatchInv, SequentialInv, Active, Calls
  <2>2. \A j \in Calls : st[j] \notin {"new", "release"}
    BY <1>1 DEF BatchInv, Started, SequentialInv, Active
  <2> QED
    BY <1>1, <2>1, <2>2 DEF BatchInv, SequentialInv, Shape
<1>7. Shape' /\ Started'
  BY <1>1, <1>2, <1>3, <1>4 DEF BatchInv, Shape, Started, Valid, Active
<1>8. SlotsInv'
  BY <1>1 DEF BatchInv, SlotsInv
<1>9. ParallelInv'
  BY <1>1 DEF ParallelInv
<1>10. \A j \in Calls : j # i => j < i \/ j > i
  BY DEF Calls
<1>11. SequentialInv'
  <2>1. \A j \in Calls : st'[j] # "release" /\ (results'[j] # "none" => st'[j] = "over")
    BY <1>2, <1>3 DEF BatchInv, SequentialInv
  <2>2. ASSUME NEW k \in Calls, NEW j \in Calls, j < k, st'[k] \in Active \cup {"over"}
        PROVE  st'[j] = "over" /\ ~(req.stop /\ results'[j] = "failed")
    <3>1. k = i \/ k < i
      BY <1>2, <1>6, <1>10, <2>2 DEF Active
    <3>2. j < i /\ j # i
      BY <2>2, <3>1 DEF Calls
    <3> QED
      BY <1>2, <1>3, <1>6, <3>2
  <2>3. \A j \in Calls : st'[j] \in {"waiting", "over"}
    BY <1>2, <1>6, <1>10
  <2>4. ASSUME answer' = "none"
        PROVE  \A j \in Calls : st'[j] = "over" =>
                 results'[j] # "none" /\ ~(req.stop /\ results'[j] = "failed")
    BY <1>2, <1>3, <1>4, <1>5, <2>4 DEF BatchInv, SequentialInv, stops
  <2>5. ASSUME answer' = "results"
        PROVE  /\ \A j \in Calls : st'[j] = "over" => results'[j] # "none"
               /\ \A j \in Calls : st'[j] # "over" => req.stop
    <3>1. \A j \in Calls : st'[j] = "over" => results'[j] # "none"
      BY <1>2, <1>3, <1>4, <1>5, <2>5 DEF BatchInv, SequentialInv
    <3>2. i = Size => \A j \in Calls : j = i \/ j < i
      BY SizeAssumption DEF Calls
    <3>3. \A j \in Calls : st'[j] # "over" => req.stop
      BY <1>2, <1>4, <1>6, <2>5, <3>2 DEF stops
    <3> QED
      BY <3>1, <3>3
  <2> QED
    BY <1>1, <2>1, <2>2, <2>3, <2>4, <2>5 DEF SequentialInv
<1> QED
  BY <1>7, <1>8, <1>9, <1>11 DEF BatchInv

LEMMA ReleasesKeepInv ==
  ASSUME BatchInv, NEW i \in Calls, Release(i)
  PROVE  BatchInv'
<1>1. /\ st' = [st EXCEPT ![i] = "over"] /\ st[i] = "release" /\ sem' = sem - 1
      /\ UNCHANGED <<req, due, results, fatal, now, answer>>
  BY DEF Release
<1>2. st'[i] = "over" /\ \A j \in Calls \ {i} : st'[j] = st[j]
  BY <1>1 DEF BatchInv, Shape
<1>3. req.mode = "parallel" /\ answer = "none"
  BY <1>1, SlotsAreCounted DEF BatchInv, Shape, ParallelInv, SequentialInv
<1>4. Shape' /\ Started'
  BY <1>1, <1>2 DEF BatchInv, Shape, Started, Valid
<1>5. SlotsInv'
  <2>1. Slots' = Slots \ {i} /\ i \in Slots
    BY <1>1, <1>2 DEF Slots, Active
  <2>2. Cardinality(Slots') = Cardinality(Slots) - 1
    <3>1. Slots \in SUBSET Calls /\ Slots' \in SUBSET Calls
      BY DEF Slots
    <3> QED
      BY <2>1, <3>1, OneLess
  <2> QED
    BY <1>1, <1>3, <2>2, SlotsAreCounted DEF BatchInv, SlotsInv
<1>6. ParallelInv'
  BY <1>1, <1>2, <1>3 DEF BatchInv, ParallelInv
<1>7. SequentialInv'
  BY <1>1, <1>3 DEF SequentialInv
<1> QED
  BY <1>4, <1>5, <1>6, <1>7 DEF BatchInv

LEMMA JoinKeepsInv == BatchInv /\ Join => BatchInv'
<1> SUFFICES ASSUME BatchInv, Join PROVE BatchInv'
  OBVIOUS
<1>1. /\ req.mode = "parallel" /\ \A i \in Calls : st[i] = "over"
      /\ answer' \in {"error", "results"} /\ (answer' = "results" => ~fatal)
      /\ UNCHANGED <<req, st, due, results, fatal, sem, now>>
  BY DEF Join
<1>2. Slots' = Slots
  BY <1>1 DEF Slots
<1> QED
  BY <1>1, <1>2 DEF BatchInv, Shape, Started, Valid, SlotsInv, ParallelInv, SequentialInv

LEMMA StillKeepsInv ==
  ASSUME BatchInv, now' \in 0 .. MaxClock, UNCHANGED <<req, st, due, results, fatal, sem, answer>>
  PROVE  BatchInv'
<1>1. Slots' = Slots
  BY DEF Slots
<1> QED
  BY <1>1 DEF BatchInv, Shape, Started, Valid, SlotsInv, ParallelInv, SequentialInv

LEMMA BatchNext == BatchInv /\ [Next]_vars => BatchInv'
<1> SUFFICES ASSUME BatchInv, [Next]_vars PROVE BatchInv'
  OBVIOUS
<1>1. ASSUME NEW i \in Calls, Step(i) PROVE BatchInv'
  <2>1. ASSUME NEW outcome \in {"ok", "failed", "error"}, Record(i, outcome) PROVE BatchInv'
    BY <2>1, SlotsAreCounted, ParallelRecordsKeepInv, SequentialRecordsKeepInv
  <2> QED
    BY <1>1, <2>1, StartsKeepInv, AcquiresKeepInv, UpstreamKeepsInv, ReleasesKeepInv DEF Step
<1>2. now \in 0 .. MaxClock
  BY DEF BatchInv, Shape
<1>3. CASE Cancel \/ Tick \/ Answered \/ UNCHANGED vars
  <2>1. now' \in 0 .. MaxClock
    BY <1>2, <1>3, TimesAssumption DEF Cancel, Tick, Answered, vars
  <2> QED
    BY <1>3, <2>1, StillKeepsInv DEF Cancel, Tick, Answered, vars
<1> QED
  BY <1>1, <1>3, AcceptKeepsInv, JoinKeepsInv, GiveUpsKeepInv DEF Next

LEMMA Invariant == Spec => []BatchInv
BY BatchInit, BatchNext, PTL DEF Spec

----------------------------------------------------------------------------
(***************************************************************************)
(* Theorems.                                                               *)
(***************************************************************************)

\* Type correctness of mcpBatch; the semaphore counts the goroutines that are
\* between its two operations.
THEOREM BatchTypeCorrect == Spec => []TypeOK
<1>1. BatchInv => TypeOK
  BY SlotsAreCounted DEF BatchInv, Shape, SlotsInv, Slots, TypeOK
<1> QED
  BY <1>1, Invariant, PTL

\* mcpBatch: at most `concurrency` calls are under way, and side by side only
\* calls of read-only tools.
THEOREM FanOutIsBounded == Spec => []BoundedFanOut
<1>1. ASSUME BatchInv PROVE BoundedFanOut
  <2>1. ASSUME req.mode = "parallel" PROVE Cardinality(InFlight) <= req.width
    <3>1. InFlight \in SUBSET Slots /\ Slots \in SUBSET Calls
      BY DEF InFlight, Slots
    <3>2. /\ Cardinality(InFlight) \in Nat /\ Cardinality(Slots) \in Nat
          /\ Cardinality(InFlight) <= Cardinality(Slots)
      BY <3>1, CallsAreFinite, FS_Subset
    <3> QED
      BY <1>1, <2>1, <3>2, SlotsAreCounted DEF BatchInv, SlotsInv
  <2>2. ASSUME NEW i \in InFlight, NEW j \in InFlight, i # j
        PROVE  req.readOnly[i] /\ req.readOnly[j]
    <3>1. /\ i \in Calls /\ j \in Calls /\ st[i] \in Active /\ st[j] \in Active
          /\ (i < j \/ j < i)
      BY <2>2 DEF InFlight, Calls
    <3>2. req.mode # "sequential"
      BY <1>1, <3>1 DEF BatchInv, SequentialInv, Active
    <3>3. Valid
      BY <1>1, <3>1 DEF BatchInv, Started, Active
    <3> QED
      BY <1>1, <3>1, <3>2, <3>3, SlotsAreCounted DEF Valid
  <2> QED
    BY <2>1, <2>2 DEF BoundedFanOut
<1> QED
  BY <1>1, Invariant, PTL

\* mcpBatch answers only when its last call is over and its semaphore is empty.
THEOREM NothingIsLeftBehind == Spec => []NothingLeftBehind
<1>1. ASSUME BatchInv, answer # "none" PROVE InFlight = {} /\ sem = 0
  <2>1. \A i \in Calls : st[i] \in {"new", "waiting", "over"}
    BY <1>1, SlotsAreCounted DEF BatchInv, ParallelInv, SequentialInv
  <2>2. InFlight = {} /\ Slots = {}
    BY <2>1 DEF InFlight, Slots, Active
  <2> QED
    BY <1>1, <2>2, SlotsAreCounted, FS_EmptySet DEF BatchInv, SlotsInv
<1>2. BatchInv => NothingLeftBehind
  BY <1>1 DEF NothingLeftBehind
<1> QED
  BY <1>2, Invariant, PTL

\* mcpBatch with stop_on_error: results are those of the calls that were started,
\* and none was started after a failure that was to stop the batch.
THEOREM ResultsAreComplete == Spec => []ResultsAccount
<1>1. ASSUME BatchInv, answer = "results"
      PROVE  /\ \A i \in Calls : results[i] # "none" <=> st[i] = "over"
             /\ req.stop => \A i, j \in Calls : i < j /\ results[i] = "failed" => st[j] = "waiting"
             /\ \A i \in Calls : st[i] # "over" => req.stop
  <2>1. CASE req.mode = "parallel"
    <3>1. ~fatal /\ \A i \in Calls : st[i] = "over" /\ results[i] # "none"
      BY <1>1, <2>1 DEF BatchInv, ParallelInv
    <3>2. ~req.stop
      BY <3>1, <2>1, <1>1, SizeAssumption DEF BatchInv, Started, Valid, Calls
    <3> QED
      BY <3>1, <3>2
  <2>2. CASE req.mode = "sequential"
    <3>1. \A i \in Calls : results[i] # "none" <=> st[i] = "over"
      BY <1>1, <2>2 DEF BatchInv, SequentialInv
    <3>2. ASSUME NEW i \in Calls, NEW j \in Calls, i < j, req.stop, results[i] = "failed"
          PROVE  st[j] = "waiting"
      <4>1. st[i] = "over"
        BY <3>1, <3>2
      <4>2. st[j] # "over" /\ st[j] \in {"new", "waiting", "over"}
        BY <1>1, <2>2, <3>2 DEF BatchInv, SequentialInv
      <4>3. st[j] # "new"
        BY <1>1, <4>1 DEF BatchInv, Started
      <4> QED
        BY <4>2, <4>3
    <3>3. \A i \in Calls : st[i] # "over" => req.stop
      BY <1>1, <2>2 DEF BatchInv, SequentialInv
    <3> QED
      BY <3>1, <3>2, <3>3
  <2> QED
    BY <1>1, <2>1, <2>2, SlotsAreCounted
<1>2. BatchInv => ResultsAccount
  BY <1>1 DEF ResultsAccount
<1> QED
  BY <1>2, Invariant, PTL
=============================================================================
