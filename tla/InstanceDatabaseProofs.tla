----------------------- MODULE InstanceDatabaseProofs -----------------------
(* Proofs about InstanceDatabase, for any number of processes and of        *)
(* migrations and for both engines.                                         *)
EXTENDS InstanceDatabase, SequenceTheorems, TLAPS

(* Every variable keeps its type.                                           *)
THEOREM TypeCorrect == Spec => []TypeOK
<1>1. Init => TypeOK
  <2>1. \A n \in 0..Versions : [v \in 1..n |-> v] \in Seq(1..Versions)
    BY VersionsAssumption
  <2>2. <<>> \in Seq(1..Versions) /\ 1 \in 1..Versions
    BY VersionsAssumption
  <2> QED BY <2>1, <2>2, VersionsAssumption DEF Init, TypeOK, States, InMigration, InNaming
<1>2. TypeOK /\ [Next]_vars => TypeOK'
  <2> SUFFICES ASSUME TypeOK, [Next]_vars PROVE TypeOK'
    OBVIOUS
  <2> USE DEF TypeOK, database, migrating, naming
  <2>1. ASSUME NEW p \in Processes, Start(p) PROVE TypeOK'
    BY <2>1 DEF Start, GoTo, States
  <2>2. ASSUME NEW p \in Processes, Begin(p) PROVE TypeOK'
    BY <2>2 DEF Begin, GoTo, States, InMigration
  <2>3. ASSUME NEW p \in Processes, Advance(p)
        PROVE /\ pc' \in [Processes -> States]
              /\ at' \in [Processes -> 1..Versions]
    <3>1. CASE EndsHere(p)
      BY <2>3, <3>1 DEF Advance, GoTo, States, InMigration
    <3>2. CASE ~EndsHere(p)
      <4>1. at[p] + 1 \in 1..Versions
        BY <3>2, VersionsAssumption DEF EndsHere
      <4> QED BY <2>3, <3>2, <4>1 DEF Advance, GoTo, States, InMigration
    <3> QED BY <3>1, <3>2
  <2>4. ASSUME NEW p \in Processes, Check(p) PROVE TypeOK'
    <3>1. CASE Applied(p)
      BY <2>3, <2>4, <3>1 DEF Check
    <3>2. CASE ~Applied(p)
      BY <2>4, <3>2 DEF Check, GoTo, States, InMigration
    <3> QED BY <3>1, <3>2
  <2>5. ASSUME NEW p \in Processes, Apply(p) PROVE TypeOK'
    <3>1. Append(ran[p], at[p]) \in Seq(1..Versions)
      OBVIOUS
    <3> QED BY <2>5, <3>1 DEF Apply, GoTo, States, InMigration
  <2>6. ASSUME NEW p \in Processes, Record(p) PROVE TypeOK'
    BY <2>3, <2>6 DEF Record
  <2>7. ASSUME NEW p \in Processes, Commit(p) PROVE TypeOK'
    <3>1. executed \o ran[p] \in Seq(1..Versions)
      OBVIOUS
    <3>2. at[p] # Versions => at[p] + 1 \in 1..Versions
      BY VersionsAssumption
    <3>3. /\ pc' \in [Processes -> States]
          /\ at' \in [Processes -> 1..Versions]
      BY <2>7, <3>2 DEF Commit, GoTo, States
    <3>4. /\ ran' \in [Processes -> Seq(1..Versions)]
          /\ noted' \in [Processes -> SUBSET (1..Versions)]
      BY <2>7 DEF Commit
    <3>5. executed' \in Seq(1..Versions) /\ recorded' \subseteq 1..Versions
      BY <2>7, <3>1 DEF Commit
    <3> QED BY <2>7, <3>3, <3>4, <3>5 DEF Commit
  <2>8. ASSUME NEW p \in Processes, Read(p) PROVE TypeOK'
    <3>1. CASE identity \in Ids
      BY <2>8, <3>1 DEF Read, GoTo, States
    <3>2. CASE identity \notin Ids
      BY <2>8, <3>2 DEF Read, Unused, GoTo, States
    <3> QED BY <3>1, <3>2
  <2>9. ASSUME NEW p \in Processes, Insert(p) PROVE TypeOK'
    BY <2>9 DEF Insert, GoTo, States, InNaming
  <2>10. ASSUME NEW p \in Processes, CommitId(p) PROVE TypeOK'
    BY <2>10 DEF CommitId, GoTo, States
  <2>11. ASSUME NEW p \in Processes, Fail(p) PROVE TypeOK'
    BY <2>11, VersionsAssumption DEF Fail, GoTo, States
  <2>12. CASE UNCHANGED vars
    BY <2>12 DEF vars
  <2> QED
    BY <2>1, <2>2, <2>4, <2>5, <2>6, <2>7, <2>8, <2>9, <2>10, <2>11, <2>12 DEF Next, Step
<1> QED BY <1>1, <1>2, PTL DEF Spec

----------------------------------------------------------------------------
(* Entering a transaction takes the lock, and within one its states follow  *)
(* each other: one process migrates at a time, and one writes the identity. *)
THEOREM OneOfEach == Spec => []LockInv
<1>1. Init => LockInv
  BY DEF Init, LockInv, Migrators, Namers, InMigration, InNaming
<1>2. TypeOK /\ LockInv /\ [Next]_vars => LockInv'
  <2> SUFFICES ASSUME TypeOK, LockInv, [Next]_vars PROVE LockInv'
    OBVIOUS
  <2>1. ASSUME Migrators' \subseteq Migrators, Namers' \subseteq Namers PROVE LockInv'
    BY <2>1 DEF LockInv
  <2> USE DEF InMigration, InNaming, Migrators, Namers, GoTo, TypeOK
  <2>2. ASSUME NEW p \in Processes, Begin(p) PROVE LockInv'
    BY <2>2 DEF Begin, WriteLockFree, LockInv
  <2>3. ASSUME NEW p \in Processes, Insert(p) PROVE LockInv'
    BY <2>3 DEF Insert, RowFree, LockInv
  <2>4. ASSUME NEW p \in Processes, Check(p) \/ Record(p) PROVE LockInv'
    BY <2>1, <2>4 DEF Check, Record, Advance
  <2>5. ASSUME NEW p \in Processes, Start(p) \/ Apply(p) \/ Commit(p) PROVE LockInv'
    BY <2>1, <2>5 DEF Start, Apply, Commit
  <2>6. ASSUME NEW p \in Processes, Read(p) \/ CommitId(p) \/ Fail(p) PROVE LockInv'
    BY <2>1, <2>6 DEF Read, CommitId, Fail
  <2>7. CASE UNCHANGED vars
    BY <2>1, <2>7 DEF vars
  <2> QED BY <2>2, <2>3, <2>4, <2>5, <2>6, <2>7 DEF Next, Step
<1> QED BY <1>1, <1>2, TypeCorrect, PTL DEF Spec

----------------------------------------------------------------------------
(* The SQL of a transaction continues what is committed.                    *)
LEMMA WorkIsBounded ==
  ASSUME TypeOK, SchemaInv, NEW p \in Processes
  PROVE  /\ Len(executed) \in 0..Versions /\ Len(ran[p]) \in Nat
         /\ Total(p) \in Len(executed)..Versions
<1> USE DEF TypeOK
<1>1. Len(executed) \in Nat /\ Len(ran[p]) \in Nat
  OBVIOUS
<1>2. Len(executed) <= Versions
  <2>1. CASE Len(executed) = 0
    BY <2>1, VersionsAssumption
  <2>2. CASE Len(executed) # 0
    <3>1. Len(executed) \in DOMAIN executed /\ Len(executed) \in 1..Len(executed)
      BY <1>1, <2>2
    <3>2. executed[Len(executed)] \in 1..Versions
      BY <3>1, ElementOfSeq
    <3>3. executed[Len(executed)] = Len(executed)
      BY <3>1 DEF SchemaInv
    <3> QED BY <3>2, <3>3, VersionsAssumption
  <2> QED BY <2>1, <2>2
<1>3. Total(p) <= Versions
  <2>1. CASE Len(ran[p]) = 0
    BY <1>1, <1>2, <2>1 DEF Total
  <2>2. CASE Len(ran[p]) # 0
    <3>1. Len(ran[p]) \in DOMAIN ran[p]
      BY <1>1, <2>2
    <3>2. ran[p][Len(ran[p])] = Len(executed) + Len(ran[p])
      BY <3>1 DEF SchemaInv, WorkInv
    <3>3. ran[p] \in Seq(1..Versions) /\ Len(ran[p]) \in 1..Len(ran[p])
      BY <1>1, <2>2
    <3>4. ran[p][Len(ran[p])] \in 1..Versions
      BY <3>3, ElementOfSeq
    <3> QED BY <1>1, <3>2, <3>4, VersionsAssumption DEF Total
  <2> QED BY <2>1, <2>2
<1> QED BY <1>1, <1>2, <1>3, VersionsAssumption DEF Total

(* What a version check and the step to the next version preserve. *)
LEMMA AdvanceKeepsWork ==
  ASSUME TypeOK, TypeOK', SchemaInv, NEW p \in Processes, Advance(p),
         UNCHANGED <<executed, ran>>,
         \A i \in DOMAIN ran[p] : ran[p][i] = Len(executed) + i,
         noted'[p] = (Len(executed) + 1)..Total(p), at[p] <= Total(p)
  PROVE  WorkInv(p)'
<1>1. Len(executed) \in 0..Versions /\ Total(p) \in Len(executed)..Versions
  BY WorkIsBounded
<1>2. Total(p)' = Total(p)
  BY DEF Total
<1>3. CASE EndsHere(p)
  <2>1. pc'[p] = "commit" /\ at'[p] = at[p]
    BY <1>3 DEF Advance, GoTo, TypeOK
  <2> QED BY <1>2, <2>1 DEF WorkInv, InMigration, Opened
<1>4. CASE ~EndsHere(p)
  <2>1. pc'[p] = "check" /\ at'[p] = at[p] + 1
    BY <1>4 DEF Advance, GoTo, TypeOK
  <2>2. at'[p] <= Total(p) + 1
    BY <1>1, <2>1, VersionsAssumption DEF TypeOK
  <2> QED BY <1>2, <2>1, <2>2 DEF WorkInv, InMigration, Opened
<1> QED BY <1>3, <1>4

(* What is executed and recorded agrees, and a process knows how far it is. *)
THEOREM WorkIsInvariant == Spec => []SchemaInv
<1>1. Init => SchemaInv
  <2> SUFFICES ASSUME Init PROVE SchemaInv
    OBVIOUS
  <2>1. PICK n \in 0..Versions : executed = [v \in 1..n |-> v] /\ recorded = 1..n
    BY DEF Init
  <2>2. Len(executed) = n /\ DOMAIN executed = 1..n
    BY <2>1, VersionsAssumption
  <2>3. ASSUME NEW p \in Processes PROVE WorkInv(p)
    BY <2>2 DEF Init, WorkInv, InMigration, Opened, Total
  <2> QED BY <2>1, <2>2, <2>3 DEF SchemaInv
<1>2. TypeOK /\ TypeOK' /\ LockInv /\ SchemaInv /\ [Next]_vars => SchemaInv'
  <2> SUFFICES ASSUME TypeOK, TypeOK', LockInv, SchemaInv, [Next]_vars PROVE SchemaInv'
    OBVIOUS
  <2> USE DEF database, migrating
  <2>1. ASSUME NEW p \in Processes, UNCHANGED <<executed, recorded>>, WorkInv(p)',
               \A q \in Processes \ {p} :
                  /\ pc'[q] = pc[q] /\ at'[q] = at[q]
                  /\ ran'[q] = ran[q] /\ noted'[q] = noted[q]
        PROVE  SchemaInv'
    <3>1. ASSUME NEW q \in Processes \ {p} PROVE WorkInv(q)'
      <4>1. WorkInv(q)
        BY DEF SchemaInv
      <4> QED BY <2>1, <4>1 DEF WorkInv, Opened, Total
    <3> QED BY <2>1, <3>1 DEF SchemaInv
  <2>2. ASSUME NEW p \in Processes,
               Start(p) \/ Begin(p) \/ Read(p) \/ Insert(p) \/ CommitId(p)
        PROVE SchemaInv'
    <3>1. WorkInv(p)
      BY DEF SchemaInv
    <3>2. UNCHANGED <<executed, recorded, at, ran, noted>>
      BY <2>2 DEF Start, Begin, Read, Insert, CommitId
    <3>3. Total(p)' = Total(p)
      BY <3>2 DEF Total
    <3>4. /\ pc[p] \notin InMigration
          /\ pc'[p] \in {"begin", "check", "read", "insert", "commit_id", "running"}
          /\ pc'[p] \in {"begin", "check"} => pc[p] \in {"down", "begin"}
          /\ pc'[p] \notin {"begin", "check"} => Opened(p)
      BY <2>2 DEF Start, Begin, Read, Insert, CommitId, GoTo, InMigration, Opened, TypeOK
    <3>5. /\ ran[p] = <<>> /\ noted[p] = {} /\ Total(p) = Len(executed)
          /\ Total(p) \in Nat
      BY <3>1, <3>4 DEF WorkInv, Total, TypeOK
    <3>6. noted[p] = (Len(executed) + 1)..Total(p)
      BY <3>5
    <3>7. WorkInv(p)'
      BY <3>1, <3>2, <3>3, <3>4, <3>5, <3>6 DEF WorkInv, InMigration, Opened
    <3>8. \A q \in Processes \ {p} : pc'[q] = pc[q]
      BY <2>2 DEF Start, Begin, Read, Insert, CommitId, GoTo, TypeOK
    <3> QED BY <2>1, <3>2, <3>7, <3>8
  <2>3. ASSUME NEW p \in Processes, Check(p) PROVE SchemaInv'
    <3>1. WorkInv(p)
      BY DEF SchemaInv
    <3>2. /\ UNCHANGED <<executed, recorded, ran, noted>>
          /\ \A q \in Processes \ {p} : pc'[q] = pc[q] /\ at'[q] = at[q]
      BY <2>3 DEF Check, Advance, GoTo, TypeOK
    <3>3. /\ Len(executed) \in 0..Versions /\ Total(p) \in Len(executed)..Versions
          /\ Total(p)' = Total(p)
      BY <3>2, WorkIsBounded DEF Total
    <3>4. /\ \A i \in DOMAIN ran[p] : ran[p][i] = Len(executed) + i
          /\ noted[p] = (Len(executed) + 1)..Total(p)
          /\ at[p] <= Total(p) + 1
      BY <2>3, <3>1 DEF Check, WorkInv
    <3>5. Applied(p) <=> at[p] <= Total(p)
      BY <3>3, <3>4 DEF Applied, SchemaInv, TypeOK
    <3>6. CASE Applied(p)
      <4>1. Advance(p) /\ at[p] <= Total(p)
        BY <2>3, <3>5, <3>6 DEF Check
      <4>2. UNCHANGED <<executed, ran>> /\ noted'[p] = (Len(executed) + 1)..Total(p)
        BY <3>2, <3>4
      <4>3. WorkInv(p)'
        BY <3>4, <4>1, <4>2, AdvanceKeepsWork
      <4> QED BY <2>1, <3>2, <4>3
    <3>7. CASE ~Applied(p)
      <4>1. pc'[p] = "apply" /\ at'[p] = at[p]
        BY <2>3, <3>7 DEF Check, GoTo, TypeOK
      <4>2. at[p] = Total(p) + 1
        <5>1. at[p] \in Nat
          BY DEF TypeOK
        <5> QED BY <3>3, <3>4, <3>5, <3>7, <5>1
      <4>3. WorkInv(p)'
        BY <3>2, <3>3, <3>4, <4>1, <4>2 DEF WorkInv, InMigration, Opened
      <4> QED BY <2>1, <3>2, <4>3
    <3> QED BY <3>6, <3>7
  <2>4. ASSUME NEW p \in Processes, Apply(p) PROVE SchemaInv'
    <3>1. WorkInv(p)
      BY DEF SchemaInv
    <3>2. /\ pc[p] = "apply" /\ pc'[p] = "record"
          /\ ran'[p] = Append(ran[p], at[p])
          /\ UNCHANGED <<executed, recorded, at, noted>>
          /\ \A q \in Processes \ {p} : pc'[q] = pc[q] /\ ran'[q] = ran[q]
      BY <2>4 DEF Apply, GoTo, TypeOK
    <3>3. at[p] = Total(p) + 1 /\ Len(executed) \in Nat /\ Len(ran[p]) \in Nat
      BY <3>1, <3>2, WorkIsBounded DEF WorkInv
    <3>4. /\ Len(ran'[p]) = Len(ran[p]) + 1 /\ ran'[p] # <<>>
          /\ DOMAIN ran'[p] = 1..(Len(ran[p]) + 1)
          /\ \A i \in DOMAIN ran[p] : ran'[p][i] = ran[p][i]
          /\ ran'[p][Len(ran[p]) + 1] = at[p]
          /\ DOMAIN ran[p] = 1..Len(ran[p])
      BY <3>2, <3>3 DEF TypeOK
    <3>5. \A i \in DOMAIN ran'[p] : ran'[p][i] = Len(executed) + i
      BY <3>1, <3>3, <3>4 DEF WorkInv, Total
    <3>6. Total(p)' = Total(p) + 1 /\ Total(p)' = at[p] /\ Total(p)' - 1 = Total(p)
      BY <3>2, <3>3, <3>4 DEF Total
    <3>7. noted[p] = (Len(executed) + 1)..Total(p)
      BY <3>1, <3>2 DEF WorkInv
    <3>8. WorkInv(p)'
      BY <3>2, <3>4, <3>5, <3>6, <3>7 DEF WorkInv, InMigration, Opened
    <3> QED BY <2>1, <3>2, <3>8
  <2>5. ASSUME NEW p \in Processes, Record(p) PROVE SchemaInv'
    <3>1. WorkInv(p)
      BY DEF SchemaInv
    <3>2. /\ UNCHANGED <<executed, recorded, ran>> /\ Advance(p)
          /\ noted'[p] = noted[p] \cup {at[p]}
          /\ \A q \in Processes \ {p} : pc'[q] = pc[q] /\ at'[q] = at[q] /\ noted'[q] = noted[q]
      BY <2>5 DEF Record, Advance, GoTo, TypeOK
    <3>3. /\ noted[p] = (Len(executed) + 1)..(Total(p) - 1)
          /\ Total(p) = at[p] /\ ran[p] # <<>>
      BY <2>5, <3>1 DEF Record, WorkInv
    <3>4. Len(executed) \in Nat /\ Len(ran[p]) \in Nat \ {0}
      BY <3>3, WorkIsBounded DEF TypeOK
    <3>5. noted'[p] = (Len(executed) + 1)..Total(p)
      BY <3>2, <3>3, <3>4 DEF Total
    <3>6. \A i \in DOMAIN ran[p] : ran[p][i] = Len(executed) + i
      BY <3>1 DEF WorkInv
    <3>7. at[p] <= Total(p) /\ UNCHANGED <<executed, ran>>
      BY <3>2, <3>3, <3>4 DEF Total
    <3>8. WorkInv(p)'
      BY <3>2, <3>5, <3>6, <3>7, AdvanceKeepsWork
    <3> QED BY <2>1, <3>2, <3>8
  <2>6. ASSUME NEW p \in Processes, Commit(p) PROVE SchemaInv'
    <3>1. WorkInv(p)
      BY DEF SchemaInv
    <3>2. /\ Len(executed) \in 0..Versions /\ Len(ran[p]) \in Nat
          /\ Total(p) \in Len(executed)..Versions /\ at[p] \in 1..Versions
      BY WorkIsBounded DEF TypeOK
    <3>3. /\ executed' = executed \o ran[p] /\ recorded' = recorded \cup noted[p]
          /\ ran'[p] = <<>> /\ noted'[p] = {}
          /\ \A q \in Processes \ {p} :
                /\ pc'[q] = pc[q] /\ at'[q] = at[q]
                /\ ran'[q] = ran[q] /\ noted'[q] = noted[q]
      BY <2>6 DEF Commit, GoTo, TypeOK
    <3>4. /\ Len(executed') = Total(p) /\ DOMAIN executed' = 1..Total(p)
          /\ \A i \in DOMAIN executed' :
                executed'[i] = IF i <= Len(executed) THEN executed[i]
                                                     ELSE ran[p][i - Len(executed)]
      BY <3>2, <3>3 DEF TypeOK, Total
    <3>5. \A i \in DOMAIN executed' : executed'[i] = i
      <4>1. ASSUME NEW i \in 1..Total(p), i <= Len(executed) PROVE executed[i] = i
        BY <3>2, <4>1 DEF SchemaInv, TypeOK
      <4>2. ASSUME NEW i \in 1..Total(p), ~(i <= Len(executed))
            PROVE ran[p][i - Len(executed)] = i
        <5>1. i - Len(executed) \in DOMAIN ran[p]
          BY <3>2, <4>2 DEF Total, TypeOK
        <5> QED BY <3>1, <3>2, <5>1 DEF WorkInv
      <4> QED BY <3>4, <4>1, <4>2
    <3>6. noted[p] = (Len(executed) + 1)..Total(p) /\ at[p] <= Total(p)
      BY <2>6, <3>1 DEF Commit, WorkInv
    <3>7. recorded' = 1..Len(executed')
      BY <3>2, <3>3, <3>4, <3>6 DEF SchemaInv
    <3>8. Total(p)' = Len(executed') /\ Len(executed') \in Nat
      BY <3>2, <3>3, <3>4 DEF Total
    <3>9. WorkInv(p)'
      <4>1. CASE at[p] = Versions
        <5>1. pc'[p] = "read" /\ Len(executed') = Versions
          BY <2>6, <3>2, <3>4, <3>6, <4>1 DEF Commit, GoTo, TypeOK
        <5> QED BY <3>3, <3>8, <5>1 DEF WorkInv, InMigration, Opened
      <4>2. CASE at[p] # Versions
        <5>1. pc'[p] = "begin" /\ at'[p] <= Total(p)' + 1
          BY <2>6, <3>2, <3>4, <3>6, <3>8, <4>2 DEF Commit, GoTo, TypeOK
        <5> QED BY <3>3, <3>8, <5>1 DEF WorkInv, InMigration, Opened
      <4> QED BY <4>1, <4>2
    <3>10. ASSUME NEW q \in Processes \ {p} PROVE WorkInv(q)'
      <4>1. WorkInv(q) /\ pc[q] \notin InMigration
        BY <2>6 DEF SchemaInv, LockInv, Migrators, Commit, InMigration
      <4>2. ran[q] = <<>> /\ noted[q] = {}
        BY <4>1 DEF WorkInv
      <4>3. /\ Total(q) = Len(executed) /\ Total(q)' = Len(executed')
            /\ Len(executed') \in Len(executed)..Versions
        <5>1. Len(ran[q]) = 0 /\ Len(ran'[q]) = 0
          BY <3>3, <4>2
        <5>2. Len(executed') \in Len(executed)..Versions /\ Len(executed') \in Nat
          BY <3>2, <3>4
        <5>3. Total(q) = Len(executed)
          BY <3>2, <5>1 DEF Total
        <5>4. Total(q)' = Len(executed')
          BY <5>1, <5>2 DEF Total
        <5> QED BY <5>2, <5>3, <5>4
      <4>4. at[q] \in Nat
        BY DEF TypeOK
      <4>5. Opened(q) => Len(executed') = Versions
        BY <3>2, <4>1, <4>3 DEF WorkInv
      <4>6. pc[q] \in {"down", "begin"} => at[q] <= Total(q)' + 1
        BY <3>2, <4>1, <4>2, <4>3, <4>4 DEF WorkInv
      <4>7. noted[q] = (Len(executed') + 1)..Total(q)'
        BY <4>2, <4>3, <3>2
      <4> QED BY <3>3, <4>1, <4>2, <4>5, <4>6, <4>7 DEF WorkInv, InMigration, Opened
    <3> QED BY <3>5, <3>7, <3>9, <3>10 DEF SchemaInv
  <2>7. ASSUME NEW p \in Processes, Fail(p) PROVE SchemaInv'
    <3>1. /\ UNCHANGED <<executed, recorded>>
          /\ pc'[p] = "down" /\ at'[p] = 1 /\ ran'[p] = <<>> /\ noted'[p] = {}
          /\ \A q \in Processes \ {p} :
                /\ pc'[q] = pc[q] /\ at'[q] = at[q]
                /\ ran'[q] = ran[q] /\ noted'[q] = noted[q]
      BY <2>7, VersionsAssumption DEF Fail, GoTo, TypeOK
    <3>2. Total(p)' = Len(executed) /\ Len(executed) \in Nat
      BY <3>1, WorkIsBounded DEF Total
    <3>3. WorkInv(p)'
      BY <3>1, <3>2 DEF WorkInv, InMigration, Opened
    <3> QED BY <2>1, <3>1, <3>3
  <2>8. CASE UNCHANGED vars
    <3>1. ASSUME NEW p \in Processes PROVE WorkInv(p)'
      <4>1. WorkInv(p)
        BY DEF SchemaInv
      <4> QED BY <2>8, <4>1 DEF vars, WorkInv, Opened, Total
    <3> QED BY <2>8, <3>1 DEF vars, SchemaInv
  <2> QED
    BY <2>2, <2>3, <2>4, <2>5, <2>6, <2>7, <2>8 DEF Next, Step
<1> QED BY <1>1, <1>2, TypeCorrect, OneOfEach, PTL DEF Spec

(* Each migration takes effect once and in order, and a process goes on     *)
(* only with the whole schema: applyMigrations is safe to run at once from  *)
(* any number of processes that fail anywhere.                              *)
THEOREM SchemaIsAlwaysSound == Spec => []SchemaIsSound
<1>1. TypeOK /\ SchemaInv => SchemaIsSound
  <2> SUFFICES ASSUME TypeOK, SchemaInv PROVE SchemaIsSound
    OBVIOUS
  <2>1. DOMAIN executed = 1..Len(executed)
    BY DEF TypeOK
  <2>2. ASSUME NEW p \in Processes, Opened(p) PROVE recorded = 1..Versions
    BY <2>2 DEF SchemaInv, WorkInv
  <2> QED BY <2>1, <2>2 DEF SchemaIsSound, SchemaInv
<1> QED BY <1>1, TypeCorrect, WorkIsInvariant, PTL

----------------------------------------------------------------------------
(* The writer of the row has seen the row it commits over.                  *)
THEOREM NamesAgree == Spec => []NameInv
<1>1. Init => NameInv
  BY IdsAssumption DEF Init, NameInv
<1>2. TypeOK /\ LockInv /\ NameInv /\ [Next]_vars => NameInv'
  <2> SUFFICES ASSUME TypeOK, LockInv, NameInv, [Next]_vars PROVE NameInv'
    OBVIOUS
  <2> USE DEF TypeOK, NameInv, GoTo, database, naming
  <2>1. ASSUME NEW p \in Processes,
               Start(p) \/ Begin(p) \/ Check(p) \/ Apply(p) \/ Record(p) \/ Commit(p)
        PROVE NameInv'
    <3>1. /\ UNCHANGED <<engine, identity, proposal, value>>
          /\ pc'[p] \notin {"insert", "commit_id"}
          /\ \A q \in Processes \ {p} : pc'[q] = pc[q]
      BY <2>1 DEF Start, Begin, Check, Apply, Record, Advance, Commit
    <3> QED BY <3>1
  <2>2. ASSUME NEW p \in Processes, Read(p) PROVE NameInv'
    <3>1. CASE identity \in Ids
      BY <2>2, <3>1 DEF Read
    <3>2. CASE identity \notin Ids
      BY <2>2, <3>2 DEF Read, Unused
    <3> QED BY <3>1, <3>2
  <2>3. ASSUME NEW p \in Processes, Insert(p) PROVE NameInv'
    <3>1. CASE Takes
      <4>1. identity \notin Ids
        BY <3>1, IdsAssumption DEF Takes
      <4> QED BY <2>3, <3>1, <4>1 DEF Insert
    <3>2. CASE ~Takes
      <4>1. identity \in Ids
        BY <3>2 DEF Takes
      <4> QED BY <2>3, <3>2, <4>1 DEF Insert
    <3> QED BY <3>1, <3>2
  <2>4. ASSUME NEW p \in Processes, CommitId(p) PROVE NameInv'
    <3>1. \A q \in Processes \ {p} : pc[q] # "commit_id"
      BY <2>4 DEF CommitId, LockInv, Namers, InNaming
    <3>2. identity' \in Ids /\ (identity \in Ids => identity' = identity)
      BY <2>4 DEF CommitId
    <3> QED BY <2>4, <3>1, <3>2, IdsAssumption DEF CommitId
  <2>5. ASSUME NEW p \in Processes, Fail(p) PROVE NameInv'
    BY <2>5 DEF Fail
  <2>6. CASE UNCHANGED vars
    BY <2>6 DEF vars
  <2> QED BY <2>1, <2>2, <2>3, <2>4, <2>5, <2>6 DEF Next, Step
<1> QED BY <1>1, <1>2, TypeCorrect, OneOfEach, PTL DEF Spec

(* EnsureInstanceID gives all processes the one identity that is stored.    *)
THEOREM OneIdentityForAll == Spec => []OneIdentity
<1>1. NameInv => OneIdentity
  BY DEF NameInv, OneIdentity
<1> QED BY <1>1, NamesAgree, PTL

(* No start of any process ever replaces an identity.                       *)
THEOREM IdentityNeverChanges == Spec => IdentityIsStable
<1>1. NameInv /\ [Next]_vars => [KeepsIdentity]_vars
  <2> SUFFICES ASSUME NameInv, Next PROVE KeepsIdentity
    OBVIOUS
  <2> USE DEF KeepsIdentity, database
  <2>1. ASSUME NEW p \in Processes, CommitId(p) PROVE KeepsIdentity
    BY <2>1 DEF CommitId, NameInv
  <2>2. ASSUME NEW p \in Processes,
               Start(p) \/ Begin(p) \/ Check(p) \/ Apply(p) \/ Record(p) \/ Commit(p)
        PROVE KeepsIdentity
    BY <2>2 DEF Start, Begin, Check, Apply, Record, Commit
  <2>3. ASSUME NEW p \in Processes, Read(p) \/ Insert(p) \/ Fail(p) PROVE KeepsIdentity
    BY <2>3 DEF Read, Insert, Fail
  <2> QED BY <2>1, <2>2, <2>3 DEF Next, Step
<1> QED BY <1>1, NamesAgree, PTL DEF Spec, IdentityIsStable

----------------------------------------------------------------------------
(* The registry.  What a transaction is about to commit continues the       *)
(* schema and does not go past its end.                                     *)
LEMMA UpgradeIsProper ==
    ASSUME TypeOK, SchemaInv, NEW p \in Processes, Commit(p)
    PROVE  \/ UNCHANGED Len(executed)
           \/ Len(executed)' \in Len(executed) + 1..Versions
<1>1. /\ executed \in Seq(1..Versions) /\ ran[p] \in Seq(1..Versions)
      /\ Len(executed) \in Nat /\ Len(ran[p]) \in Nat
  BY DEF TypeOK
<1>2. executed' = executed \o ran[p]
  BY DEF Commit
<1>3. Len(executed)' = Len(executed) + Len(ran[p])
  BY <1>1, <1>2
<1>4. CASE Len(ran[p]) = 0
  BY <1>1, <1>3, <1>4
<1>5. CASE Len(ran[p]) > 0
  <2>1. Len(ran[p]) \in DOMAIN ran[p]
    BY <1>1, <1>5
  <2>2. \A i \in DOMAIN ran[p] : ran[p][i] = Len(executed) + i
    BY DEF SchemaInv, WorkInv
  <2>3. ran[p][Len(ran[p])] \in 1..Versions
    <3>1. \A s \in Seq(1..Versions) : \A i \in 1..Len(s) : s[i] \in 1..Versions
      BY ElementOfSeq, Zenon
    <3>2. Len(ran[p]) \in 1..Len(ran[p])
      BY <1>1, <1>5
    <3> QED BY <1>1, <3>1, <3>2, Zenon
  <2> QED BY <1>1, <1>3, <1>5, <2>2, <2>3, VersionsAssumption
<1> QED BY <1>1, <1>4, <1>5

LEMMA RegistryInit == Init => Registry!Init
<1> SUFFICES ASSUME Init PROVE Registry!Init
  OBVIOUS
<1>1. PICK n \in 0..Versions :
          /\ executed = [v \in 1..n |-> v]
          /\ identity \in {None} \cup (IF n > 0 THEN Ids ELSE {})
                \cup (IF n > 0 /\ engine = "postgres" THEN {Blank} ELSE {})
  BY DEF Init
<1>2. Len(executed) = n
  BY <1>1, VersionsAssumption
<1>3. identity \in Ids => n > 0
  BY <1>1, IdsAssumption
<1>4. value = [p \in Processes |-> None]
  BY DEF Init
<1> QED BY <1>1, <1>2, <1>3, <1>4 DEF Registry!Init

(* A migration that commits is an upgrade, and so may be none; who finds    *)
(* the identity or commits one begins to run; a failure is a leave.         *)
LEMMA RegistryStep ==
    ASSUME TypeOK, LockInv, SchemaInv, NameInv, [Next]_vars
    PROVE  [Registry!Next]_(Registry!registryVars)
<1> USE DEF Registry!registryVars, database
<1>1. ASSUME NEW p \in Processes,
             Start(p) \/ Begin(p) \/ Check(p) \/ Apply(p) \/ Record(p) \/ Insert(p)
      PROVE  UNCHANGED <<executed, identity, value>>
  BY <1>1 DEF Start, Begin, Check, Apply, Record, Insert, naming
<1>2. ASSUME NEW p \in Processes, Commit(p) PROVE [Registry!Next]_(Registry!registryVars)
  <2>1. UNCHANGED <<identity, value>>
    BY <1>2 DEF Commit, naming
  <2> QED BY <1>2, <2>1, UpgradeIsProper DEF Registry!Next, Registry!Upgrade
<1>3. ASSUME NEW p \in Processes, Read(p) PROVE [Registry!Next]_(Registry!registryVars)
  <2>1. CASE identity \notin Ids
    BY <1>3, <2>1 DEF Read
  <2>2. CASE identity \in Ids
    <3>1. Len(executed) = Versions /\ identity # None
      BY <1>3, <2>2, IdsAssumption DEF Read, SchemaInv, WorkInv, Opened
    <3>2. value' = [value EXCEPT ![p] = identity] /\ UNCHANGED <<executed, identity>>
      BY <1>3, <2>2 DEF Read
    <3>3. CASE value[p] = None
      <4>1. Registry!Run(p)
        BY <2>2, <3>1, <3>2, <3>3 DEF Registry!Run
      <4> QED BY <4>1 DEF Registry!Next
    <3>4. CASE value[p] # None
      <4>1. value' = value
        BY <3>2, <3>4 DEF TypeOK, NameInv
      <4> QED BY <3>2, <4>1
    <3> QED BY <3>3, <3>4
  <2> QED BY <2>1, <2>2
<1>4. ASSUME NEW p \in Processes, CommitId(p) PROVE [Registry!Next]_(Registry!registryVars)
  <2>1. /\ proposal[p] \in Ids /\ (identity \in Ids => proposal[p] = identity)
        /\ Len(executed) = Versions
    BY <1>4 DEF CommitId, NameInv, SchemaInv, WorkInv, Opened
  <2>2. /\ identity' = proposal[p] /\ value' = [value EXCEPT ![p] = proposal[p]]
        /\ UNCHANGED executed
    BY <1>4 DEF CommitId
  <2>3. CASE value[p] = None
    <3>1. Registry!Run(p)
      BY <2>1, <2>2, <2>3, IdsAssumption DEF Registry!Run
    <3> QED BY <3>1 DEF Registry!Next
  <2>4. CASE value[p] # None
    <3>1. value' = value /\ identity' = identity
      BY <2>1, <2>2, <2>4 DEF TypeOK, NameInv
    <3> QED BY <2>2, <3>1
  <2> QED BY <2>3, <2>4
<1>5. ASSUME NEW p \in Processes, Fail(p) PROVE [Registry!Next]_(Registry!registryVars)
  BY <1>5 DEF Fail, Registry!Next, Registry!Leave
<1>6. CASE UNCHANGED vars
  BY <1>6 DEF vars, naming
<1> QED BY <1>1, <1>2, <1>3, <1>4, <1>5, <1>6 DEF Next, Step

(* With either engine, any number of processes and any failures, the        *)
(* database is the registry: upgrades and first starts are atomic.          *)
THEOREM ImplementsRegistry == Spec => KeepsTheRegistry
<1> QED
  BY RegistryInit, RegistryStep, TypeCorrect, OneOfEach, WorkIsInvariant, NamesAgree, PTL
  DEF Spec, KeepsTheRegistry, Registry!Spec
=============================================================================
