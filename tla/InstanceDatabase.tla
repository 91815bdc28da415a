-------------------------- MODULE InstanceDatabase --------------------------
(***************************************************************************)
(* The first thing every process does with its database: bring the schema  *)
(* up to date (applyMigrations) and agree on the instance's identity       *)
(* (EnsureInstanceID).  Several processes do so at once, serve and pairing *)
(* on one SQLite file, cold starts on one PostgreSQL database; each may    *)
(* fail or be killed at any step, and starts again.                        *)
(*                                                                         *)
(* The two engines differ in three ways: SQLite migrates in a transaction  *)
(* per version, PostgreSQL in one for all under an advisory lock; in       *)
(* SQLite one lock serves all writers; PostgreSQL replaces a blank         *)
(* identity.                                                               *)
(***************************************************************************)
EXTENDS Naturals, Sequences

CONSTANTS
    Processes,
    Engines,     \* the engines to look at: "sqlite", "postgres"
    Versions,    \* the number of embedded migrations
    Ids,         \* identities: what uuid.NewString may return
    None,        \* no row
    Blank        \* a row without a value

ASSUME VersionsAssumption == Versions \in Nat \ {0}
ASSUME IdsAssumption == None \notin Ids /\ Blank \notin Ids /\ None # Blank

VARIABLES
    (* What is committed. *)
    engine,
    executed,   \* the migrations whose SQL has taken effect, in order
    recorded,   \* the versions in schema_migrations
    identity,   \* the row instance_id of runtime_metadata
    (* What each process does. *)
    pc,
    at,         \* the migration its loop has come to
    ran,        \* the SQL executed in its open transaction
    noted,      \* the versions recorded in its open transaction
    proposal,   \* EnsureInstanceID: candidate, then the value of the row
    value       \* the identity it runs under

database  == <<engine, executed, recorded, identity>>
migrating == <<at, ran, noted>>
naming    == <<proposal, value>>
vars == <<database, pc, migrating, naming>>

(* The steps of a process inside a transaction of either kind. *)
InMigration == {"check", "apply", "record", "commit"}
InNaming    == {"commit_id"}

Migrators == {p \in Processes : pc[p] \in InMigration}
Namers    == {p \in Processes : pc[p] \in InNaming}

States == {"down", "begin", "read", "insert", "running"} \cup InMigration \cup InNaming

(* A new database, or one that an earlier release has left behind.         *)
Init ==
    /\ engine \in Engines
    /\ \E n \in 0..Versions :
          /\ executed = [v \in 1..n |-> v]
          /\ recorded = 1..n
          /\ identity \in {None}
                \cup (IF n > 0 THEN Ids ELSE {})
                \cup (IF n > 0 /\ engine = "postgres" THEN {Blank} ELSE {})
    /\ pc = [p \in Processes |-> "down"]
    /\ at = [p \in Processes |-> 1]
    /\ ran = [p \in Processes |-> <<>>]
    /\ noted = [p \in Processes |-> {}]
    /\ proposal = [p \in Processes |-> None]
    /\ value = [p \in Processes |-> None]

GoTo(p, state) == pc' = [pc EXCEPT ![p] = state]

----------------------------------------------------------------------------
(* Open and applyMigrations *)

Start(p) ==
    /\ pc[p] = "down"
    /\ GoTo(p, "begin")
    /\ UNCHANGED <<database, migrating, naming>>

(* Defect: a deferred transaction, which takes no lock before it reads. *)
NoLock == TRUE

(* BEGIN IMMEDIATE waits for every writer, the advisory lock only for      *)
(* another migration.                                                      *)
WriteLockFree == Migrators = {} /\ (engine = "sqlite" => Namers = {})

Begin(p) ==
    /\ pc[p] = "begin"
    /\ WriteLockFree
    /\ GoTo(p, "check")
    /\ UNCHANGED <<database, migrating, naming>>

(* SQLite commits after each version, PostgreSQL after the last.           *)
EndsHere(p) == engine = "sqlite" \/ at[p] = Versions

Applied(p) == at[p] \in recorded \cup noted[p]

(* On to the next version, in the same transaction. *)
Advance(p) ==
    IF EndsHere(p)
    THEN GoTo(p, "commit") /\ UNCHANGED at
    ELSE GoTo(p, "check") /\ at' = [at EXCEPT ![p] = @ + 1]

Check(p) ==
    /\ pc[p] = "check"
    /\ IF Applied(p) THEN Advance(p) ELSE GoTo(p, "apply") /\ UNCHANGED at
    /\ UNCHANGED <<database, ran, noted, naming>>

Apply(p) ==
    /\ pc[p] = "apply"
    /\ ran' = [ran EXCEPT ![p] = Append(@, at[p])]
    /\ GoTo(p, "record")
    /\ UNCHANGED <<database, at, noted, naming>>

Record(p) ==
    /\ pc[p] = "record"
    /\ noted' = [noted EXCEPT ![p] = @ \cup {at[p]}]
    /\ Advance(p)
    /\ UNCHANGED <<database, ran, naming>>

Commit(p) ==
    /\ pc[p] = "commit"
    /\ executed' = executed \o ran[p]
    /\ recorded' = recorded \cup noted[p]
    /\ ran' = [ran EXCEPT ![p] = <<>>]
    /\ noted' = [noted EXCEPT ![p] = {}]
    /\ IF at[p] = Versions
       THEN GoTo(p, "read") /\ UNCHANGED at
       ELSE GoTo(p, "begin") /\ at' = [at EXCEPT ![p] = @ + 1]
    /\ UNCHANGED <<engine, identity, naming>>

----------------------------------------------------------------------------
(* EnsureInstanceID *)

Unused == Ids \ ({identity} \cup {proposal[p] : p \in Processes} \cup {value[p] : p \in Processes})

(* The read that spares most calls the transaction.                        *)
Read(p) ==
    /\ pc[p] = "read"
    /\ IF identity \in Ids
       THEN /\ value' = [value EXCEPT ![p] = identity]
            /\ GoTo(p, "running")
            /\ UNCHANGED proposal
       ELSE /\ \E id \in Unused : proposal' = [proposal EXCEPT ![p] = id]
            /\ GoTo(p, "insert")
            /\ UNCHANGED value
    /\ UNCHANGED <<database, migrating>>

(* Defect: ON CONFLICT DO NOTHING in both engines. *)
OnlyWithoutRow == identity = None

(* Defect: INSERT OR REPLACE, without a look at the row. *)
Always == TRUE

(* ON CONFLICT DO NOTHING; in PostgreSQL DO UPDATE where the row is blank. *)
Takes == identity = None \/ (engine = "postgres" /\ identity = Blank)

RowFree == Namers = {} /\ (engine = "sqlite" => Migrators = {})

(* The INSERT, which waits for other writers of the row, and the SELECT    *)
(* after it in the same transaction.                                       *)
Insert(p) ==
    /\ pc[p] = "insert"
    /\ RowFree
    /\ proposal' = [proposal EXCEPT ![p] = IF Takes THEN @ ELSE identity]
    /\ GoTo(p, "commit_id")
    /\ UNCHANGED <<database, migrating, value>>

CommitId(p) ==
    /\ pc[p] = "commit_id"
    /\ identity' = proposal[p]
    /\ value' = [value EXCEPT ![p] = proposal[p]]
    /\ proposal' = [proposal EXCEPT ![p] = None]
    /\ GoTo(p, "running")
    /\ UNCHANGED <<engine, executed, recorded, migrating>>

(* A call fails, a wait for a lock times out, or the process is stopped or *)
(* killed: what it has not committed is rolled back.                       *)
Fail(p) ==
    /\ pc[p] # "down"
    /\ GoTo(p, "down")
    /\ at' = [at EXCEPT ![p] = 1]
    /\ ran' = [ran EXCEPT ![p] = <<>>]
    /\ noted' = [noted EXCEPT ![p] = {}]
    /\ proposal' = [proposal EXCEPT ![p] = None]
    /\ value' = [value EXCEPT ![p] = None]
    /\ UNCHANGED database

----------------------------------------------------------------------------
Step(p) ==
    \/ Start(p) \/ Begin(p) \/ Check(p) \/ Apply(p) \/ Record(p) \/ Commit(p)
    \/ Read(p) \/ Insert(p) \/ CommitId(p)
    \/ Fail(p)

Next == \E p \in Processes : Step(p)

Spec == Init /\ [][Next]_vars

----------------------------------------------------------------------------
(* Every variable stays within the values its type and the code allow.     *)
TypeOK ==
    /\ engine \in Engines
    /\ executed \in Seq(1..Versions)
    /\ recorded \subseteq 1..Versions
    /\ identity \in Ids \cup {None, Blank}
    /\ pc \in [Processes -> States]
    /\ at \in [Processes -> 1..Versions]
    /\ ran \in [Processes -> Seq(1..Versions)]
    /\ noted \in [Processes -> SUBSET (1..Versions)]
    /\ proposal \in [Processes -> Ids \cup {None, Blank}]
    /\ value \in [Processes -> Ids \cup {None, Blank}]

Opened(p) == pc[p] \in {"read", "insert", "commit_id", "running"}

(* Each migration takes effect once, in the order of the versions, however *)
(* many processes migrate and wherever they fail; and a process goes on    *)
(* only with the whole schema (applyMigrations of both repositories).      *)
SchemaIsSound ==
    /\ \A i \in DOMAIN executed : executed[i] = i
    /\ recorded = DOMAIN executed
    /\ \A p \in Processes : Opened(p) => recorded = 1..Versions

(* All processes run under one identity, the stored one, and it is never   *)
(* blank (EnsureInstanceID of both repositories).                          *)
OneIdentity ==
    \A p \in Processes : value[p] # None => value[p] = identity /\ identity \in Ids

(* Once there is an identity no start, concurrent or later, replaces it:   *)
(* paired clients go on to recognize the instance.                         *)
KeepsIdentity == identity \in Ids => identity' = identity
IdentityIsStable == [][KeepsIdentity]_vars

(* What keeps the transactions apart. *)
LockInv ==
    /\ \A p, q \in Migrators : p = q
    /\ \A p, q \in Namers : p = q

(* How far a process has come within its transaction. *)
Total(p) == Len(executed) + Len(ran[p])

WorkInv(p) ==
    /\ pc[p] \notin InMigration => ran[p] = <<>> /\ noted[p] = {}
    /\ \A i \in DOMAIN ran[p] : ran[p][i] = Len(executed) + i
    /\ pc[p] # "record" => noted[p] = (Len(executed) + 1)..Total(p)
    /\ pc[p] = "record" => noted[p] = (Len(executed) + 1)..(Total(p) - 1) /\ Total(p) = at[p]
                           /\ ran[p] # <<>>
    /\ pc[p] \in {"down", "begin", "check"} => at[p] <= Total(p) + 1
    /\ pc[p] = "apply" => at[p] = Total(p) + 1
    /\ pc[p] = "commit" => at[p] <= Total(p)
    /\ Opened(p) => Len(executed) = Versions

SchemaInv ==
    /\ \A i \in DOMAIN executed : executed[i] = i
    /\ recorded = 1..Len(executed)
    /\ \A p \in Processes : WorkInv(p)

(* A proposal that is about to be committed keeps an identity there is.    *)
NameInv ==
    /\ identity = Blank => engine = "postgres"
    /\ \A p \in Processes :
          /\ pc[p] = "insert" => proposal[p] \in Ids
          /\ pc[p] = "commit_id" => proposal[p] \in Ids /\ (identity \in Ids => proposal[p] = identity)
          /\ value[p] # None => value[p] = identity /\ identity \in Ids

----------------------------------------------------------------------------
Registry == INSTANCE InstanceRegistry WITH
    Names <- Ids, version <- Len(executed), under <- value,
    name <- IF identity \in Ids THEN identity ELSE None

(* Whatever the processes do at once and wherever they fail, with either   *)
(* engine the database behaves as if each upgrade, and each start with or  *)
(* without a new identity, were one step (applyMigrations and              *)
(* EnsureInstanceID of both repositories).                                 *)
KeepsTheRegistry == Registry!Spec
=============================================================================
