--------------------------- MODULE CheckpointLog ---------------------------
(***************************************************************************)
(* The checkpoints table of the Work store (work/checkpoints.go) as a      *)
(* value: a set of rows, with the two statements that extend it.           *)
(*                                                                         *)
(* A checkpoint is written by checkpointCreateDB in two autocommitted      *)
(* statements: a SELECT of the row with the highest sequence of the task,  *)
(* then an INSERT of sequence + 1 that names that row as its parent.  Any  *)
(* number of requests may stand between the two; the table's               *)
(* UNIQUE(task_id, sequence) makes the slower INSERT fail.                 *)
(*                                                                         *)
(* The modules that write checkpoints keep the table in a variable of      *)
(* theirs and use these operators for the two statements.                  *)
(***************************************************************************)
EXTENDS Integers

\* What the SELECT finds when the task has no checkpoint: sequence 1 will be
\* written, with a NULL parent (checkpoint ids are tuples, NULL the empty one).
Root == [seq |-> 0, id |-> <<>>]

Rows(log, t) == {c \in log : c.task = t}
Seqs(log, t) == {c.seq : c \in Rows(log, t)}

\* ... ORDER BY sequence DESC LIMIT 1.
Tip(log, t) ==
  IF Rows(log, t) = {}
  THEN Root
  ELSE LET latest == CHOOSE c \in Rows(log, t) :
                       \A d \in Rows(log, t) : d.seq <= c.seq
       IN  [seq |-> latest.seq, id |-> latest.id]

\* The row the INSERT writes after the SELECT returned tip.
Entry(t, tip, id, body) ==
  [task |-> t, id |-> id, seq |-> tip.seq + 1, parent |-> tip.id, body |-> body]

\* Mutant of Fits: the table without UNIQUE(task_id, sequence).
FitsAnywhere(log, t, tip) == TRUE

\* The INSERT respects UNIQUE(task_id, sequence).
Fits(log, t, tip) == \A c \in Rows(log, t) : c.seq # tip.seq + 1

----------------------------------------------------------------------------
(***************************************************************************)
(* What the history of a task must look like whatever the interleaving.    *)
(***************************************************************************)

\* tip is, or once was, the tip of the task's history.
OnceTip(log, t, tip) ==
  \/ tip = Root
  \/ \E c \in Rows(log, t) : tip = [seq |-> c.seq, id |-> c.id]

\* The sequences of the task are 1..n without a gap or a fork, and each
\* checkpoint names the one before it as its parent.
Chain(log, t) ==
  /\ \E n \in Seqs(log, t) \cup {0} : n \in Nat /\ Seqs(log, t) = 1 .. n
  /\ \A c, d \in Rows(log, t) : c.seq = d.seq => c = d
  /\ \A c \in Rows(log, t) :
       \/ c.seq = 1 /\ c.parent = Root.id
       \/ \E d \in Rows(log, t) : d.seq = c.seq - 1 /\ c.parent = d.id
=============================================================================
