-------------------------- MODULE InstanceRegistry --------------------------
(***************************************************************************)
(* What a database promises the processes that start on it, without locks, *)
(* transactions, proposals or a choice of engine: its schema only grows,   *)
(* the first process that runs on the whole of it gives the instance a     *)
(* name, and all others, and all later ones, run under that name.          *)
(* InstanceDatabase implements it (see KeepsTheRegistry there).            *)
(***************************************************************************)
EXTENDS Naturals

CONSTANTS
    Processes,
    Versions,  \* the version of a whole schema
    Names,
    None

VARIABLES
    version,  \* how far the schema is
    name,     \* the name of the instance
    under     \* the name each process runs under

registryVars == <<version, name, under>>

Init ==
    /\ version \in 0..Versions
    /\ name \in Names \cup {None}
    /\ version = 0 => name = None
    /\ under = [p \in Processes |-> None]

(* One version or several at once, none left out. *)
Upgrade ==
    /\ version' \in version + 1..Versions
    /\ UNCHANGED <<name, under>>

(* A process runs on the whole schema; it names the instance only if that  *)
(* has no name yet.                                                        *)
Run(p) ==
    /\ version = Versions
    /\ under[p] = None
    /\ name' \in IF name = None THEN Names ELSE {name}
    /\ under' = [under EXCEPT ![p] = name']
    /\ UNCHANGED version

Leave(p) ==
    /\ under' = [under EXCEPT ![p] = None]
    /\ UNCHANGED <<version, name>>

Next ==
    \/ Upgrade
    \/ \E p \in Processes : Run(p) \/ Leave(p)

Spec == Init /\ [][Next]_registryVars
=============================================================================
