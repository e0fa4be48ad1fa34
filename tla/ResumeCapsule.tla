--------------------------- MODULE ResumeCapsule ---------------------------
(***************************************************************************)
(* The resume capsule (work/resume_capsule.go): what a client that comes   *)
(* back to a task is told of its mutations, put together from one SELECT   *)
(* per table, without a transaction, beside the requests of Accelerator    *)
(* that write two of these tables.                                         *)
(*                                                                         *)
(* The tables of tasks, steps, audits and artifacts are not written by     *)
(* those requests; their SELECTs go with their neighbours', and what the   *)
(* capsule shows of them is left out.                                      *)
(***************************************************************************)
EXTENDS Accelerator

CONSTANTS
  Window,     \* LIMIT of the receipts' SELECT (20)
  MaxListed   \* do_not_replay has at most so many entries (12)

ASSUME WindowAssumption == {Window, MaxListed} \subseteq Nat \ {0}

VARIABLES
  newer,     \* the order of the receipts by (started_at, rowid): those after each
  older,     \* history: the receipts there were when a request's SELECT ran
  reader     \* the capsule that is being put together

accelerator == vars
allVars == <<accelerator, newer, older, reader>>

NoReader == [task |-> None]

CapsuleInit ==
  /\ Init
  /\ newer = [r \in {} |-> {}]
  /\ older = [r \in Requests |-> {}]
  /\ reader = NoReader

----------------------------------------------------------------------------
(***************************************************************************)
(* The order of the receipts.  started_at is now(), in whole seconds, taken *)
(* after the request's SELECT and before its INSERT, which may wait for the *)
(* database and be overtaken by one stamped later: the new row comes after *)
(* all that the SELECT could see, and anywhere among the others.           *)
(***************************************************************************)
Stamp ==
  /\ older' = [r \in Requests |->
                 IF pc[r] = "select" /\ pc'[r] = "insert" THEN DOMAIN receipts ELSE older[r]]
  /\ IF DOMAIN receipts' = DOMAIN receipts
     THEN UNCHANGED newer
     ELSE \E r \in DOMAIN receipts' \ DOMAIN receipts, before \in SUBSET DOMAIN receipts :
            /\ older[r] \subseteq before
            /\ \A s \in DOMAIN receipts : newer[s] \cap before # {} => s \in before
            /\ newer' = [s \in DOMAIN receipts' |->
                           CASE s = r -> DOMAIN receipts \ before
                             [] s \in before -> newer[s] \cup {r}
                             [] OTHER -> newer[s]]

----------------------------------------------------------------------------
(***************************************************************************)
(* The capsule.                                                            *)
(***************************************************************************)

Of(t) == {r \in DOMAIN receipts : receipts[r].task = t}

\* Mutant of Newest: ORDER BY started_at, rowid, the oldest first.
NewestFromTheStart(t) ==
  {r \in Of(t) : Cardinality({s \in Of(t) : r \in newer[s]}) < Window}

\* WHERE task_id = ? ORDER BY started_at DESC, rowid DESC LIMIT Window.
Newest(t) == {r \in Of(t) : Cardinality(newer[r] \cap Of(t)) < Window}

\* The first MaxListed of these receipts, the newest first.
Cut(some) == {r \in some : Cardinality(newer[r] \cap some) < MaxListed}

Listed(row) == row.mut /\ replayPolicy(row) # "SAFE_TO_REPEAT_READ_ONLY_IF_NEEDED"

\* The body of the task's latest checkpoint, as a set of at most one.
Latest(t) == {c.body : c \in {d \in Rows(log, t) : d.seq = Tip(log, t).seq}}

\* The SELECTs up to that of the checkpoint.
ReadCheckpoint ==
  /\ reader = NoReader
  /\ \E t \in Tasks : reader' = [task |-> t, latest |-> Latest(t)]
  /\ UNCHANGED <<accelerator, newer, older>>

\* What is put together if the receipts are read now.  table and sent are
\* history.
Capsule ==
  LET t == reader.task
  IN  [latest |-> reader.latest,
       table |-> Of(t),
       sent |-> {r \in flight \cup ran : req[r].mut /\ req[r].task = t},
       shown |-> [r \in Newest(t) |-> receipts[r]],
       doNotReplay |-> Cut({r \in Newest(t) : Listed(receipts[r])})]

\* The receipts are read and the client gets the Capsule, or an error.
ReadReceipts ==
  /\ reader # NoReader
  /\ reader' = NoReader
  /\ UNCHANGED <<accelerator, newer, older>>

\* The process dies with every request in it, this one included.
CrashAll == Crash /\ reader' = NoReader /\ UNCHANGED <<newer, older>>

\* A step of the Bridge for request r beside the reader.
Advance(r) == Step(r) /\ Stamp /\ UNCHANGED reader
Surroundings(r) == Environment(r) /\ Stamp /\ UNCHANGED reader

CapsuleNext == (\E r \in Requests : Advance(r) \/ Surroundings(r)) \/ ReadCheckpoint \/ ReadReceipts \/ CrashAll

CapsuleSpec == CapsuleInit /\ [][CapsuleNext]_allVars

\* As in Accelerator: a goroutine that can go on does.
FairCapsuleSpec ==
  CapsuleSpec /\ \A r \in Requests : WF_allVars(Advance(r))

----------------------------------------------------------------------------
(***************************************************************************)
(* Properties.                                                             *)
(***************************************************************************)

\* The receipts of the task that are not known to be older than that of r.
Later(r) == {s \in Capsule.table \ {r} : s \notin older[r]}

\* A mutation of the task that has been sent when the receipts are read is in
\* do_not_replay, whatever became of it, unless receipts that are not older
\* fill the window, or other mutations among them the list.
SentIsListed ==
  reader # NoReader =>
    \A r \in Capsule.sent :
      \/ r \in Capsule.doNotReplay
      \/ Cardinality(Later(r)) >= Window
      \/ Cardinality({s \in Later(r) : req[s].mut}) >= MaxListed

\* The capsule does not contradict itself although its SELECTs are apart in
\* time: the receipt of the checkpoint it shows is shown too, unless later ones
\* fill the window, and if the checkpoint tells how the call ended, so does the
\* receipt.
CapsuleAgrees ==
  reader # NoReader =>
    \A c \in Capsule.latest :
      \/ Cardinality(Later(c.receipt)) >= Window
      \/ /\ c.receipt \in DOMAIN Capsule.shown
         /\ c.event # "mutation.before" => Capsule.shown[c.receipt].finished
=============================================================================
