---------------------------- MODULE StoreSchema ----------------------------
(***************************************************************************)
(* How a handle on the Work store is opened (work/db.go: Connect, migrate, *)
(* migrateV1ToV2).  Every operation of the Work Runtime opens one, so      *)
(* whoever comes first creates the schema, or upgrades it from version 1.  *)
(*                                                                         *)
(* A new database is created by one Exec of a script whose statements      *)
(* commit one by one, PRAGMA user_version last; the upgrade runs in a      *)
(* transaction.  One process opens one handle at a time (initMu); another  *)
(* process is kept out by nothing but SQLite's lock.  A process can die    *)
(* between any two statements: its transaction is rolled back, what was    *)
(* committed stays.                                                        *)
(***************************************************************************)
EXTENDS Sequences, Integers

CONSTANTS
  Openers,     \* operations that open a handle, again and again
  Process,     \* opener -> the process it runs in
  Versions,    \* the user_version the file may have at first
  MaxFaults    \* bound: statements that fail and processes that die

ASSUME VersionsAssumption == Versions \subseteq 0 .. 3
ASSUME MaxFaultsAssumption == MaxFaults \in Nat

SchemaVersion == 2

VARIABLES
  db,      \* the committed file: its user_version and what it holds
  tx,      \* the uncommitted file of a transaction, as a set of at most one
  pc,      \* where each opener stands
  at,      \* the statement of its script it is at
  faults

vars == <<db, tx, pc, at, faults>>

\* What a CREATE or ALTER statement brings; indexes come with their table.
V1 == {"tasks", "checkpoints"}
Complete == V1 \cup {"event_columns", "receipts", "affinity", "results"}

\* The statements of the two scripts as the objects they create; each fails if
\* one of its objects is there already.  PRAGMA user_version = 2 follows.
FreshScript ==
  << {"tasks"}, {"checkpoints", "event_columns"}, {"receipts"}, {"affinity"}, {"results"} >>
UpgradeScript == << {"event_columns"}, {"receipts"}, {"affinity"}, {"results"} >>

Objects(version) ==
  CASE version = 0 -> {}
    [] version = 1 -> V1
    [] OTHER -> Complete

Init ==
  /\ db \in {[version |-> v, objects |-> Objects(v)] : v \in Versions}
  /\ tx = {}
  /\ pc = [o \in Openers |-> "idle"]
  /\ at = [o \in Openers |-> 1]
  /\ faults = 0

Goto(o, from, to) ==
  /\ pc[o] = from
  /\ pc' = [pc EXCEPT ![o] = to]

Working == {"version", "create", "begin", "upgrade"}
Holds(o) == pc[o] \in Working

\* Connect takes initMu of its process.
Connect(o) ==
  /\ \A p \in Openers : Process[p] = Process[o] => ~Holds(p)
  /\ Goto(o, "idle", "version")
  /\ at' = [at EXCEPT ![o] = 1]
  /\ UNCHANGED <<db, tx, faults>>

\* PRAGMA user_version decides what is to be done.
ReadVersion(o) ==
  /\ pc[o] = "version"
  /\ pc' = [pc EXCEPT ![o] =
              CASE db.version = SchemaVersion -> "open"
                [] db.version > SchemaVersion -> "idle"          \* work_schema_newer
                [] db.version = 1 -> "begin"
                [] OTHER -> "create"]
  /\ UNCHANGED <<db, tx, at, faults>>

\* The file after statement k of script.
After(file, script, k) ==
  IF k > Len(script)
  THEN [file EXCEPT !.version = SchemaVersion]
  ELSE [file EXCEPT !.objects = @ \cup script[k]]
Clashes(file, script, k) == k <= Len(script) /\ file.objects \cap script[k] # {}

\* Mutant of CreateNext: PRAGMA user_version is the first statement.
CreateNextVersionFirst(o) ==
  /\ pc[o] = "create"
  /\ tx = {}
  /\ IF Clashes(db, FreshScript, at[o])
     THEN pc' = [pc EXCEPT ![o] = "idle"] /\ UNCHANGED <<db, at>>
     ELSE /\ db' = [After(db, FreshScript, at[o]) EXCEPT !.version = SchemaVersion]
          /\ at' = [at EXCEPT ![o] = @ + 1]
          /\ pc' = [pc EXCEPT ![o] = IF at[o] > Len(FreshScript) THEN "open" ELSE "create"]
  /\ UNCHANGED <<tx, faults>>

\* One statement of the script for a new file, committed at once.
CreateNext(o) ==
  /\ pc[o] = "create"
  /\ tx = {}
  /\ IF Clashes(db, FreshScript, at[o])
     THEN pc' = [pc EXCEPT ![o] = "idle"] /\ UNCHANGED <<db, at>>
     ELSE /\ db' = After(db, FreshScript, at[o])
          /\ at' = [at EXCEPT ![o] = @ + 1]
          /\ pc' = [pc EXCEPT ![o] = IF at[o] > Len(FreshScript) THEN "open" ELSE "create"]
  /\ UNCHANGED <<tx, faults>>

\* The first statement of the upgrade gets the write lock, or waits for it.
BeginUpgrade(o) ==
  /\ tx = {}
  /\ Goto(o, "begin", "upgrade")
  /\ tx' = {db}
  /\ UNCHANGED <<db, at, faults>>

\* Mutant of UpgradeNext: each statement commits.
UpgradeNextAutocommits(o) ==
  /\ pc[o] = "upgrade"
  /\ \E file \in tx :
       IF Clashes(file, UpgradeScript, at[o])
       THEN pc' = [pc EXCEPT ![o] = "idle"] /\ tx' = {} /\ UNCHANGED <<db, at>>
       ELSE /\ db' = After(file, UpgradeScript, at[o])
            /\ IF at[o] > Len(UpgradeScript)
               THEN tx' = {} /\ pc' = [pc EXCEPT ![o] = "open"] /\ UNCHANGED at
               ELSE tx' = {db'} /\ at' = [at EXCEPT ![o] = @ + 1] /\ UNCHANGED pc
  /\ UNCHANGED faults

\* The next statement in the transaction; after the last one it commits.
UpgradeNext(o) ==
  /\ pc[o] = "upgrade"
  /\ \E file \in tx :
       IF Clashes(file, UpgradeScript, at[o])
       THEN pc' = [pc EXCEPT ![o] = "idle"] /\ tx' = {} /\ UNCHANGED <<db, at>>
       ELSE IF at[o] > Len(UpgradeScript)
            THEN /\ db' = After(file, UpgradeScript, at[o])
                 /\ tx' = {}
                 /\ pc' = [pc EXCEPT ![o] = "open"]
                 /\ UNCHANGED at
            ELSE /\ tx' = {After(file, UpgradeScript, at[o])}
                 /\ at' = [at EXCEPT ![o] = @ + 1]
                 /\ UNCHANGED <<db, pc>>
  /\ UNCHANGED faults

\* The operation is over and closes its handle.
Close(o) ==
  /\ Goto(o, "open", "idle")
  /\ UNCHANGED <<db, tx, at, faults>>

\* Mutant of Rollback: the transaction is left open.
RollbackForgotten(openers) == UNCHANGED tx

\* The transaction is that of the opener at "upgrade", if there is one.
Rollback(openers) ==
  tx' = IF \E o \in openers : pc[o] = "upgrade" THEN {} ELSE tx

\* A statement fails: busy for longer than busy_timeout, or an I/O error.
StatementFails(o) ==
  /\ faults < MaxFaults
  /\ Holds(o)
  /\ pc' = [pc EXCEPT ![o] = "idle"]
  /\ Rollback({o})
  /\ faults' = faults + 1
  /\ UNCHANGED <<db, at>>

\* The process of o dies and is started again.
Crash(o) ==
  /\ faults < MaxFaults
  /\ LET died == {p \in Openers : Process[p] = Process[o]}
     IN  /\ \E p \in died : pc[p] # "idle"
         /\ pc' = [p \in Openers |-> IF p \in died THEN "idle" ELSE pc[p]]
         /\ Rollback(died)
  /\ faults' = faults + 1
  /\ UNCHANGED <<db, at>>

Step(o) ==
  \/ Connect(o) \/ ReadVersion(o) \/ CreateNext(o)
  \/ BeginUpgrade(o) \/ UpgradeNext(o) \/ Close(o)

Next == \E o \in Openers : Step(o) \/ StatementFails(o) \/ Crash(o)

Spec == Init /\ [][Next]_vars

\* Statements wait at most busy_timeout, and whoever waits for initMu gets it in
\* the end (Go's mutexes do not starve a waiter).  Connect is tried again and again.
FairSpec == Spec /\ \A o \in Openers : WF_vars(Step(o)) /\ SF_vars(Connect(o))

----------------------------------------------------------------------------
(***************************************************************************)
(* Properties.                                                             *)
(***************************************************************************)

\* Type correctness; a transaction is open only while some opener upgrades.
TypeOK ==
  /\ db \in [version : 0 .. 3, objects : SUBSET Complete]
  /\ tx \subseteq [version : 0 .. 3, objects : SUBSET Complete]
  /\ pc \in [Openers -> Working \cup {"idle", "open"}]
  /\ at \in [Openers -> 1 .. Len(FreshScript) + 2]
  /\ faults \in 0 .. MaxFaults
  /\ tx # {} <=> \E o \in Openers : pc[o] = "upgrade"

\* An operation gets a handle only on a complete schema of its own version,
\* whoever creates or upgrades the file at the same time or died doing it.
HandlesAreComplete ==
  \A o \in Openers : pc[o] = "open" => db = [version |-> SchemaVersion, objects |-> Complete]

\* "schema v2 is additive over v1" and the upgrade is all or nothing: a file of
\* version 1 holds exactly the old schema until it is wholly of version 2.
UpgradeIsAtomic == db.version = 1 => db.objects = V1

\* A file of version 1 or 2 is opened in the end by everyone who tries, however
\* statements and processes fail on the way (finitely often).
OldFilesOpen ==
  \A o \in Openers : db.version \in {1, 2} ~> pc[o] = "open"
=============================================================================
