----------------------- MODULE CheckpointLog_proofs -----------------------
(***************************************************************************)
(* Why concurrent checkpoint writers cannot fork or tear a task's history: *)
(* an INSERT that respects UNIQUE(task_id, sequence) after a SELECT of any *)
(* age extends the chain, and whatever was once a tip stays on it.         *)
(***************************************************************************)
EXTENDS CheckpointLog, TLAPS

\* The SELECT of checkpointCreateDB returns a row of the chain, or no row.
LEMMA TipOnChain ==
  ASSUME NEW log, NEW t, Chain(log, t)
  PROVE  OnceTip(log, t, Tip(log, t))
<1>1. CASE Rows(log, t) = {}
  BY <1>1 DEF Tip, OnceTip
<1>2. CASE Rows(log, t) # {}
  <2>1. PICK n \in Seqs(log, t) \cup {0} : n \in Nat /\ Seqs(log, t) = 1 .. n
    BY DEF Chain
  <2>2. n \in Seqs(log, t)
    BY <1>2, <2>1 DEF Seqs
  <2>3. PICK c \in Rows(log, t) : c.seq = n
    BY <2>2 DEF Seqs
  <2>4. \A d \in Rows(log, t) : d.seq <= c.seq
    BY <2>1, <2>3 DEF Seqs
  <2> DEFINE latest == CHOOSE x \in Rows(log, t) : \A d \in Rows(log, t) : d.seq <= x.seq
  <2>5. latest \in Rows(log, t)
    BY <2>4
  <2>6. Tip(log, t) = [seq |-> latest.seq, id |-> latest.id]
    BY <1>2 DEF Tip
  <2> QED
    BY <2>5, <2>6 DEF OnceTip
<1> QED
  BY <1>1, <1>2

\* Checkpoints are never updated or deleted, so a row once read stays on the
\* chain while others are added.
LEMMA TipStays ==
  ASSUME NEW log, NEW more, NEW t, NEW tip, log \subseteq more, OnceTip(log, t, tip)
  PROVE  OnceTip(more, t, tip)
BY DEF OnceTip, Rows

\* An INSERT for another task leaves the chain alone.
LEMMA OtherChain ==
  ASSUME NEW log, NEW t, NEW u, NEW tip, NEW id, NEW body, t # u, Chain(log, t)
  PROVE  Chain(log \cup {Entry(u, tip, id, body)}, t)
<1>1. Rows(log \cup {Entry(u, tip, id, body)}, t) = Rows(log, t)
  BY DEF Rows, Entry
<1> QED
  BY <1>1 DEF Chain, Seqs

\* The INSERT of checkpointCreateDB extends the chain by one, however old the
\* row its SELECT returned: an older one than the tip does not fit.
LEMMA ChainExtends ==
  ASSUME NEW log, NEW t, NEW tip, NEW id, NEW body,
         Chain(log, t), OnceTip(log, t, tip), Fits(log, t, tip)
  PROVE  Chain(log \cup {Entry(t, tip, id, body)}, t)
<1> DEFINE e == Entry(t, tip, id, body)
           more == log \cup {e}
<1>1. Rows(more, t) = Rows(log, t) \cup {e}
  BY DEF Rows, Entry
<1>2. e = [task |-> t, id |-> id, seq |-> tip.seq + 1, parent |-> tip.id, body |-> body]
  BY DEF Entry
<1>3. PICK n \in Seqs(log, t) \cup {0} : n \in Nat /\ Seqs(log, t) = 1 .. n
  BY DEF Chain
<1>4. tip.seq \in 0 .. n
  BY <1>3 DEF OnceTip, Root, Seqs
<1>5. tip.seq = n
  <2>1. tip.seq + 1 \notin Seqs(log, t)
    BY DEF Fits, Seqs
  <2> QED
    BY <1>3, <1>4, <2>1
<1>6. e.seq = n + 1 /\ e.parent = tip.id
  BY <1>5, <1>2
<1> HIDE DEF e, more
<1>7. Seqs(more, t) = 1 .. (n + 1)
  <2>1. Seqs(more, t) = Seqs(log, t) \cup {n + 1}
    BY <1>1, <1>6 DEF Seqs
  <2> QED
    BY <1>3, <2>1
<1>8. \A c, d \in Rows(more, t) : c.seq = d.seq => c = d
  <2>1. \A c \in Rows(log, t) : c.seq # e.seq
    BY <1>3, <1>6 DEF Seqs
  <2> QED
    BY <1>1, <2>1 DEF Chain
<1>9. ASSUME NEW c \in Rows(more, t)
      PROVE  \/ c.seq = 1 /\ c.parent = Root.id
             \/ \E d \in Rows(more, t) : d.seq = c.seq - 1 /\ c.parent = d.id
  <2>1. CASE c \in Rows(log, t)
    BY <1>1, <2>1 DEF Chain
  <2>2. CASE c = e /\ tip = Root
    BY <1>5, <1>6, <2>2 DEF Root
  <2>3. CASE c = e /\ tip # Root
    <3>1. PICK d \in Rows(log, t) : tip = [seq |-> d.seq, id |-> d.id]
      BY <2>3 DEF OnceTip
    <3>2. d.seq = n /\ d.id = tip.id
      BY <1>5, <3>1
    <3>3. d.seq = c.seq - 1 /\ c.parent = d.id
      BY <1>3, <1>6, <2>3, <3>2
    <3> QED
      BY <1>1, <3>3
  <2> QED
    BY <1>1, <2>1, <2>2, <2>3
<1>10. \E m \in Seqs(more, t) \cup {0} : m \in Nat /\ Seqs(more, t) = 1 .. m
  <2>1. n + 1 \in Nat /\ n + 1 \in Seqs(more, t)
    BY <1>3, <1>7
  <2> QED
    BY <1>7, <2>1
<1>11. Chain(more, t)
  BY <1>8, <1>9, <1>10 DEF Chain
<1> QED
  BY <1>11 DEF more, e
=============================================================================
