------------------------- MODULE StoreSchema_proofs -------------------------
(***************************************************************************)
(* Proofs about StoreSchema, for any number of operations, processes and   *)
(* faults, and for files of any version.                                   *)
(***************************************************************************)
EXTENDS StoreSchema, TLAPS

\* What the statements of the scripts create, one after the other.
LEMMA Scripts ==
  /\ Len(FreshScript) = 5 /\ Len(UpgradeScript) = 4
  /\ FreshScript[1] = {"tasks"}
  /\ FreshScript[2] = {"checkpoints", "event_columns"}
  /\ FreshScript[3] = {"receipts"}
  /\ FreshScript[4] = {"affinity"}
  /\ FreshScript[5] = {"results"}
  /\ UpgradeScript[1] = {"event_columns"}
  /\ UpgradeScript[2] = {"receipts"}
  /\ UpgradeScript[3] = {"affinity"}
  /\ UpgradeScript[4] = {"results"}
BY DEF FreshScript, UpgradeScript

Whole == [version |-> SchemaVersion, objects |-> Complete]
Files == [version : 0 .. 3, objects : SUBSET Complete]

\* What the first k - 1 statements of the upgrade have made of the old schema.
Upgraded(k) == V1 \cup UNION {UpgradeScript[j] : j \in 1 .. (k - 1)}

\* The file is of no version, of one that is wholly there, or of a newer one.
FileInv ==
  /\ db.version = 1 => db.objects = V1
  /\ db.version = 2 => db.objects = Complete

\* Whoever creates the schema has created what it is past; whoever has a handle
\* found or made a whole schema.
OpenerInv ==
  \A o \in Openers :
    /\ pc[o] \in {"version", "begin"} => at[o] = 1
    /\ pc[o] = "create" =>
         /\ db.version \in {0, 2} /\ at[o] \in 1 .. 6
         /\ \A j \in 1 .. 5 : j < at[o] => FreshScript[j] \subseteq db.objects
    /\ pc[o] = "begin" => db.version \in {1, 2}
    /\ pc[o] = "open" => db = Whole

\* One opener upgrades at a time.  Its transaction holds the old schema and what
\* it has added, or it found the file upgraded when it got the lock.
UpgradeInv ==
  /\ tx # {} => \E o \in Openers : pc[o] = "upgrade"
  /\ \A o, p \in Openers : pc[o] = "upgrade" /\ pc[p] = "upgrade" => o = p
  /\ \A o \in Openers : pc[o] = "upgrade" =>
       /\ tx # {} /\ db.version \in {1, 2} /\ at[o] \in 1 .. 5
       /\ \A file \in tx :
            /\ db.version = 1 => file = [version |-> 1, objects |-> Upgraded(at[o])]
            /\ db.version = 2 => file = Whole /\ at[o] = 1

SchemaInv == TypeOK /\ FileInv /\ OpenerInv /\ UpgradeInv

LEMMA UpgradedGrows ==
  /\ Upgraded(1) = V1
  /\ \A k \in 1 .. 4 : Upgraded(k + 1) = Upgraded(k) \cup UpgradeScript[k]
  /\ Upgraded(5) = Complete
<1>1. Upgraded(1) = V1
  BY DEF Upgraded
<1>2. ASSUME NEW k \in 1 .. 4 PROVE Upgraded(k + 1) = Upgraded(k) \cup UpgradeScript[k]
  <2>1. 1 .. ((k + 1) - 1) = (1 .. (k - 1)) \cup {k}
    OBVIOUS
  <2> QED
    BY <2>1 DEF Upgraded
<1>3. Upgraded(5) = Complete
  <2>1. 1 .. (5 - 1) = {1, 2, 3, 4}
    OBVIOUS
  <2>2. UNION {UpgradeScript[j] : j \in {1, 2, 3, 4}} =
          UpgradeScript[1] \cup UpgradeScript[2] \cup UpgradeScript[3] \cup UpgradeScript[4]
    OBVIOUS
  <2> QED
    BY <2>1, <2>2, Scripts DEF Upgraded, Complete, V1
<1> QED
  BY <1>1, <1>2, <1>3

\* A statement of a script creates something that a whole schema has.
LEMMA ScriptsAddUp ==
  /\ \A k \in 1 .. 5 : FreshScript[k] \subseteq Complete /\ FreshScript[k] # {}
  /\ \A k \in 1 .. 4 : UpgradeScript[k] \subseteq Complete /\ UpgradeScript[k] # {}
  /\ \A S : (\A k \in 1 .. 5 : FreshScript[k] \subseteq S) => Complete \subseteq S
BY Scripts DEF Complete, V1

LEMMA SchemaInit == Init => SchemaInv
<1> SUFFICES ASSUME Init PROVE SchemaInv
  OBVIOUS
<1>1. PICK v \in 0 .. 3 : db = [version |-> v, objects |-> Objects(v)]
  BY VersionsAssumption DEF Init
<1>2. Objects(v) \subseteq Complete /\ (v = 1 => Objects(v) = V1) /\ (v = 2 => Objects(v) = Complete)
  BY DEF Objects, Complete
<1>3. /\ tx = {} /\ \A o \in Openers : pc[o] = "idle" /\ at[o] = 1
      /\ pc \in [Openers -> {"idle"}] /\ at \in [Openers -> {1}] /\ faults = 0
  BY DEF Init
<1>4. TypeOK
  BY <1>1, <1>2, <1>3, Scripts, MaxFaultsAssumption DEF TypeOK
<1> QED
  BY <1>1, <1>2, <1>3, <1>4 DEF SchemaInv, FileInv, OpenerInv, UpgradeInv

LEMMA SchemaStep == SchemaInv /\ [Next]_vars => SchemaInv'
<1> SUFFICES ASSUME SchemaInv, [Next]_vars PROVE SchemaInv'
  OBVIOUS
<1> USE DEF SchemaInv, Goto, SchemaVersion
<1>0. /\ db.version \in 0 .. 3 /\ db.objects \in SUBSET Complete
      /\ db = [version |-> db.version, objects |-> db.objects]
      /\ db.version = 2 => db = Whole
  BY DEF TypeOK, FileInv, Whole
<1>1. ASSUME NEW o \in Openers, Connect(o) PROVE SchemaInv'
  <2>1. /\ pc' = [pc EXCEPT ![o] = "version"] /\ at' = [at EXCEPT ![o] = 1] /\ pc[o] = "idle"
        /\ UNCHANGED <<db, tx, faults>>
    BY <1>1 DEF Connect
  <2>2. /\ pc'[o] = "version" /\ at'[o] = 1
        /\ \A p \in Openers \ {o} : pc'[p] = pc[p] /\ at'[p] = at[p]
    BY <2>1 DEF TypeOK
  <2>3. TypeOK'
    BY <2>1, <2>2, Scripts DEF TypeOK, Working
  <2> QED
    BY <2>1, <2>2, <2>3 DEF FileInv, OpenerInv, UpgradeInv
<1>2. ASSUME NEW o \in Openers, ReadVersion(o) PROVE SchemaInv'
  <2>1. /\ pc[o] = "version" /\ UNCHANGED <<db, tx, at, faults>>
        /\ \A p \in Openers \ {o} : pc'[p] = pc[p]
        /\ \/ pc'[o] = "open" /\ db.version = 2
           \/ pc'[o] = "idle"
           \/ pc'[o] = "begin" /\ db.version = 1
           \/ pc'[o] = "create" /\ db.version = 0
    BY <1>0, <1>2 DEF ReadVersion, TypeOK
  <2>2. at[o] = 1
    BY <2>1 DEF OpenerInv
  <2>3. TypeOK'
    BY <1>2, <2>1 DEF ReadVersion, TypeOK, Working
  <2> QED
    BY <1>0, <2>1, <2>2, <2>3 DEF FileInv, OpenerInv, UpgradeInv
<1>3. ASSUME NEW o \in Openers, CreateNext(o) PROVE SchemaInv'
  <2>1. /\ tx = {} /\ UNCHANGED <<tx, faults>> /\ pc[o] = "create"
        /\ \A p \in Openers : pc[p] # "upgrade"
        /\ db.version \in {0, 2} /\ at[o] \in 1 .. 6
        /\ \A j \in 1 .. 5 : j < at[o] => FreshScript[j] \subseteq db.objects
    BY <1>3 DEF CreateNext, OpenerInv, UpgradeInv
  <2>2. CASE Clashes(db, FreshScript, at[o])
    <3>1. pc' = [pc EXCEPT ![o] = "idle"] /\ UNCHANGED <<db, at>>
      BY <1>3, <2>2 DEF CreateNext
    <3>2. pc'[o] = "idle" /\ \A p \in Openers \ {o} : pc'[p] = pc[p]
      BY <3>1 DEF TypeOK
    <3>3. TypeOK'
      BY <2>1, <3>1, <3>2 DEF TypeOK
    <3> QED
      BY <2>1, <3>1, <3>2, <3>3 DEF FileInv, OpenerInv, UpgradeInv
  <2>3. CASE ~Clashes(db, FreshScript, at[o]) /\ at[o] <= 5
    <3>1. /\ db' = [db EXCEPT !.objects = @ \cup FreshScript[at[o]]]
          /\ at' = [at EXCEPT ![o] = @ + 1]
          /\ pc' = [pc EXCEPT ![o] = "create"]
      BY <1>3, <2>1, <2>3, Scripts DEF CreateNext, After
    <3>2. db.version = 0
      <4>1. db.objects \cap FreshScript[at[o]] = {}
        BY <2>3, Scripts DEF Clashes
      <4> QED
        BY <2>1, <2>3, <4>1, ScriptsAddUp DEF FileInv
    <3>3. db'.version = 0 /\ db'.objects = db.objects \cup FreshScript[at[o]]
      BY <1>0, <3>1, <3>2
    <3>4. /\ pc' = pc /\ at'[o] = at[o] + 1
          /\ \A p \in Openers \ {o} : at'[p] = at[p]
      BY <2>1, <3>1 DEF TypeOK
    <3>5. TypeOK'
      <4>1. db' \in Files
        <5>1. db'.objects \subseteq Complete
          BY <1>0, <2>1, <2>3, <3>3, ScriptsAddUp
        <5>2. db' = [version |-> db'.version, objects |-> db'.objects]
          BY <1>0, <3>1
        <5> QED
          BY <3>3, <5>1, <5>2 DEF Files
      <4>2. at' \in [Openers -> 1 .. Len(FreshScript) + 2]
        BY <2>1, <2>3, <3>1, Scripts DEF TypeOK
      <4> QED
        BY <2>1, <3>4, <4>1, <4>2 DEF TypeOK, Files
    <3>6. OpenerInv'
      <4>1. \A p \in Openers : pc[p] \notin {"begin", "open"}
        BY <3>2 DEF OpenerInv, Whole
      <4>2. \A j \in 1 .. 5 : j < at[o] + 1 => j < at[o] \/ j = at[o]
        BY <2>1
      <4>3. \A j \in 1 .. 5 : j < at'[o] => FreshScript[j] \subseteq db'.objects
        BY <2>1, <3>3, <3>4, <4>2
      <4> QED
        BY <2>1, <2>3, <3>3, <3>4, <4>1, <4>3 DEF OpenerInv
    <3> QED
      BY <2>1, <3>3, <3>4, <3>5, <3>6 DEF FileInv, UpgradeInv
  <2>4. CASE ~Clashes(db, FreshScript, at[o]) /\ at[o] = 6
    <3>1. /\ db' = [db EXCEPT !.version = 2]
          /\ at' = [at EXCEPT ![o] = @ + 1]
          /\ pc' = [pc EXCEPT ![o] = "open"]
      BY <1>3, <2>1, <2>4, Scripts DEF CreateNext, After
    <3>2. db.objects = Complete
      BY <1>0, <2>1, <2>4, ScriptsAddUp
    <3>3. db' = Whole
      BY <1>0, <3>1, <3>2 DEF Whole
    <3>4. /\ pc'[o] = "open" /\ at'[o] = 7
          /\ \A p \in Openers \ {o} : pc'[p] = pc[p] /\ at'[p] = at[p]
      BY <2>4, <3>1 DEF TypeOK
    <3>5. db'.version = 2 /\ db'.objects = Complete
      BY <3>3 DEF Whole
    <3>6. TypeOK'
      <4>1. db' \in [version : 0 .. 3, objects : SUBSET Complete]
        BY <3>3 DEF Whole
      <4>2. at' \in [Openers -> 1 .. Len(FreshScript) + 2]
        BY <2>4, <3>1, Scripts DEF TypeOK
      <4>3. pc' \in [Openers -> Working \cup {"idle", "open"}]
        BY <3>1 DEF TypeOK
      <4> QED
        BY <2>1, <3>4, <4>1, <4>2, <4>3 DEF TypeOK
    <3>7. OpenerInv'
      <4>1. \A p \in Openers \ {o} : pc[p] = "create" =>
              /\ at[p] \in 1 .. 6
              /\ \A j \in 1 .. 5 : j < at[p] => FreshScript[j] \subseteq db'.objects
        BY <3>2, <3>5 DEF OpenerInv
      <4> QED
        BY <3>3, <3>4, <3>5, <4>1 DEF OpenerInv
    <3> QED
      BY <2>1, <3>4, <3>5, <3>6, <3>7 DEF FileInv, UpgradeInv
  <2> QED
    BY <2>1, <2>2, <2>3, <2>4
<1>4. ASSUME NEW o \in Openers, BeginUpgrade(o) PROVE SchemaInv'
  <2>1. /\ tx = {} /\ tx' = {db} /\ pc[o] = "begin" /\ pc' = [pc EXCEPT ![o] = "upgrade"]
        /\ UNCHANGED <<db, at, faults>>
    BY <1>4 DEF BeginUpgrade
  <2>2. pc'[o] = "upgrade" /\ \A p \in Openers \ {o} : pc'[p] = pc[p] /\ pc[p] # "upgrade"
    BY <2>1 DEF TypeOK, UpgradeInv
  <2>3. at[o] = 1 /\ db.version \in {1, 2}
    BY <2>1 DEF OpenerInv
  <2>4. db.version = 1 => db = [version |-> 1, objects |-> Upgraded(1)]
    BY <1>0, UpgradedGrows DEF FileInv
  <2>5. TypeOK'
    BY <2>1, <2>2 DEF TypeOK, Working
  <2> QED
    BY <1>0, <2>1, <2>2, <2>3, <2>4, <2>5 DEF FileInv, OpenerInv, UpgradeInv
<1>5. ASSUME NEW o \in Openers, UpgradeNext(o) PROVE SchemaInv'
  <2>1. PICK file \in tx :
          IF Clashes(file, UpgradeScript, at[o])
          THEN pc' = [pc EXCEPT ![o] = "idle"] /\ tx' = {} /\ UNCHANGED <<db, at>>
          ELSE IF at[o] > Len(UpgradeScript)
               THEN /\ db' = After(file, UpgradeScript, at[o])
                    /\ tx' = {}
                    /\ pc' = [pc EXCEPT ![o] = "open"]
                    /\ UNCHANGED at
               ELSE /\ tx' = {After(file, UpgradeScript, at[o])}
                    /\ at' = [at EXCEPT ![o] = @ + 1]
                    /\ UNCHANGED <<db, pc>>
    BY <1>5 DEF UpgradeNext
  <2>2. /\ pc[o] = "upgrade" /\ UNCHANGED faults /\ at[o] \in 1 .. 5 /\ db.version \in {1, 2}
        /\ db.version = 1 => file = [version |-> 1, objects |-> Upgraded(at[o])]
        /\ db.version = 2 => file = Whole /\ at[o] = 1
        /\ \A p \in Openers \ {o} : pc[p] # "upgrade"
    BY <1>5 DEF UpgradeNext, UpgradeInv
  <2>3. CASE Clashes(file, UpgradeScript, at[o])
    <3>1. /\ pc'[o] = "idle" /\ pc' = [pc EXCEPT ![o] = "idle"]
          /\ \A p \in Openers \ {o} : pc'[p] = pc[p]
          /\ tx' = {} /\ UNCHANGED <<db, at>>
      BY <2>1, <2>3 DEF TypeOK
    <3>2. TypeOK'
      BY <2>2, <3>1 DEF TypeOK
    <3> QED
      BY <2>2, <3>1, <3>2 DEF FileInv, OpenerInv, UpgradeInv
  <2>4. CASE ~Clashes(file, UpgradeScript, at[o])
    <3>1. db.version = 1
      <4>1. SUFFICES ASSUME db.version = 2 PROVE FALSE
        BY <2>2
      <4>2. file.objects \cap UpgradeScript[1] = {}
        BY <2>2, <2>4, <4>1, Scripts DEF Clashes
      <4> QED
        BY <2>2, <4>1, <4>2, ScriptsAddUp DEF Whole
    <3>2. file = [version |-> 1, objects |-> Upgraded(at[o])]
      BY <2>2, <3>1
    <3>3. CASE at[o] <= 4
      <4>1. /\ tx' = {[version |-> 1, objects |-> Upgraded(at[o]) \cup UpgradeScript[at[o]]]}
            /\ at' = [at EXCEPT ![o] = @ + 1] /\ UNCHANGED <<db, pc>>
        BY <2>1, <2>2, <2>4, <3>2, <3>3, Scripts DEF After
      <4>2. tx' = {[version |-> 1, objects |-> Upgraded(at[o] + 1)]}
        <5>1. at[o] \in 1 .. 4
          BY <2>2, <3>3
        <5>2. Upgraded(at[o] + 1) = Upgraded(at[o]) \cup UpgradeScript[at[o]]
          BY <5>1, UpgradedGrows, Zenon
        <5> QED
          BY <4>1, <5>2, Zenon
      <4>3. at'[o] = at[o] + 1 /\ \A p \in Openers \ {o} : at'[p] = at[p]
        BY <4>1 DEF TypeOK
      <4>4. TypeOK'
        <5>1. Upgraded(at[o]) \cup UpgradeScript[at[o]] \subseteq Complete
          BY <2>1, <2>2, <3>2, <3>3, ScriptsAddUp DEF TypeOK
        <5>2. at' \in [Openers -> 1 .. Len(FreshScript) + 2]
          BY <3>3, <4>1, Scripts DEF TypeOK
        <5> QED
          BY <2>2, <4>1, <5>1, <5>2 DEF TypeOK
      <4> QED
        BY <2>2, <3>1, <3>3, <4>1, <4>2, <4>3, <4>4 DEF FileInv, OpenerInv, UpgradeInv
    <3>4. CASE at[o] = 5
      <4>1. /\ db' = [file EXCEPT !.version = 2] /\ tx' = {} /\ UNCHANGED at
            /\ pc' = [pc EXCEPT ![o] = "open"]
        BY <2>1, <2>4, <3>4, Scripts DEF After
      <4>2. db' = Whole
        BY <3>2, <3>4, <4>1, UpgradedGrows DEF Whole
      <4>3. pc'[o] = "open" /\ \A p \in Openers \ {o} : pc'[p] = pc[p]
        BY <4>1 DEF TypeOK
      <4>4. db'.version = 2 /\ db'.objects = Complete
        BY <4>2 DEF Whole
      <4>5. TypeOK'
        BY <2>2, <4>1, <4>2, <4>3 DEF TypeOK, Whole
      <4>6. OpenerInv'
        <5>1. \A p \in Openers : pc[p] # "create"
          BY <3>1 DEF OpenerInv
        <5> QED
          BY <4>1, <4>2, <4>3, <4>4, <5>1 DEF OpenerInv
      <4> QED
        BY <2>2, <4>1, <4>3, <4>4, <4>5, <4>6 DEF FileInv, UpgradeInv
    <3> QED
      BY <2>2, <3>3, <3>4
  <2> QED
    BY <2>3, <2>4
<1>6. ASSUME NEW o \in Openers, Close(o) PROVE SchemaInv'
  <2>1. /\ pc' = [pc EXCEPT ![o] = "idle"] /\ pc[o] = "open" /\ UNCHANGED <<db, tx, at, faults>>
    BY <1>6 DEF Close
  <2>2. pc'[o] = "idle" /\ \A p \in Openers \ {o} : pc'[p] = pc[p]
    BY <2>1 DEF TypeOK
  <2>3. TypeOK'
    BY <2>1, <2>2 DEF TypeOK
  <2> QED
    BY <2>1, <2>2, <2>3 DEF FileInv, OpenerInv, UpgradeInv
<1>7. ASSUME NEW died \in SUBSET Openers, Rollback(died), faults < MaxFaults, faults' = faults + 1,
             pc' = [p \in Openers |-> IF p \in died THEN "idle" ELSE pc[p]],
             UNCHANGED <<db, at>>
      PROVE  SchemaInv'
  <2>1. \A p \in Openers : pc'[p] = "idle" \/ (p \notin died /\ pc'[p] = pc[p])
    BY <1>7
  <2>2. CASE \E p \in died : pc[p] = "upgrade"
    <3>1. tx' = {} /\ \A p \in Openers : pc'[p] # "upgrade"
      BY <1>7, <2>1, <2>2 DEF Rollback, UpgradeInv
    <3>2. TypeOK'
      BY <1>7, <3>1, MaxFaultsAssumption DEF TypeOK
    <3> QED
      BY <1>7, <2>1, <3>1, <3>2 DEF FileInv, OpenerInv, UpgradeInv
  <2>3. CASE ~\E p \in died : pc[p] = "upgrade"
    <3>1. tx' = tx /\ \A p \in Openers : pc'[p] = "upgrade" <=> pc[p] = "upgrade"
      BY <1>7, <2>3 DEF Rollback
    <3>2. TypeOK'
      BY <1>7, <3>1, MaxFaultsAssumption DEF TypeOK
    <3> QED
      BY <1>7, <2>1, <3>1, <3>2 DEF FileInv, OpenerInv, UpgradeInv
  <2> QED
    BY <2>2, <2>3
<1>8. ASSUME NEW o \in Openers, StatementFails(o) PROVE SchemaInv'
  <2>1. pc' = [p \in Openers |-> IF p \in {o} THEN "idle" ELSE pc[p]]
    BY <1>8 DEF StatementFails, TypeOK
  <2> QED
    BY <1>7, <1>8, <2>1 DEF StatementFails
<1>9. ASSUME NEW o \in Openers, Crash(o) PROVE SchemaInv'
  <2> DEFINE died == {p \in Openers : Process[p] = Process[o]}
  <2>1. /\ Rollback(died) /\ pc' = [p \in Openers |-> IF p \in died THEN "idle" ELSE pc[p]]
        /\ faults < MaxFaults /\ faults' = faults + 1 /\ UNCHANGED <<db, at>>
    BY <1>9 DEF Crash
  <2> QED
    BY <1>7, <2>1
<1>10. ASSUME UNCHANGED vars PROVE SchemaInv'
  BY <1>10 DEF vars, TypeOK, FileInv, OpenerInv, UpgradeInv
<1> QED
  BY <1>1, <1>2, <1>3, <1>4, <1>5, <1>6, <1>8, <1>9, <1>10 DEF Next, Step

\* Type correctness of the opening of handles (work/db.go), and that there is a
\* transaction on the file exactly while some opener upgrades it.
THEOREM SchemaTypeCorrect == Spec => []TypeOK
<1>1. SchemaInv => TypeOK
  BY DEF SchemaInv
<1> QED
  BY <1>1, SchemaInit, SchemaStep, PTL DEF Spec

\* Connect gives a handle only on a complete schema of its own version, however
\* many operations of however many processes create or upgrade the file at the
\* same time, fail or die doing it.
THEOREM HandlesGetWholeSchemas == Spec => []HandlesAreComplete
<1>1. SchemaInv => HandlesAreComplete
  BY DEF SchemaInv, OpenerInv, HandlesAreComplete, Whole
<1> QED
  BY <1>1, SchemaInit, SchemaStep, PTL DEF Spec

\* migrateV1ToV2 is all or nothing: as long as the file says version 1 it holds
\* the old schema and nothing of the new one.
THEOREM UpgradesAreAtomic == Spec => []UpgradeIsAtomic
<1>1. SchemaInv => UpgradeIsAtomic
  BY DEF SchemaInv, FileInv, UpgradeIsAtomic
<1> QED
  BY <1>1, SchemaInit, SchemaStep, PTL DEF Spec
=============================================================================
