---------------------------- MODULE BaselineSync ----------------------------
(***************************************************************************)
(* The downloaded baseline: baselinesync/manager.go activates a new file,  *)
(* storage/baseline/store.go serves it, and app/app.go loads it at the     *)
(* start and closes everything at the end.  Three things have to agree:    *)
(* the files, the two keys in the runtime database that name one of them,  *)
(* and the open snapshot.  No transaction spans them, any call may fail,   *)
(* the process may die between two steps, and the store may be read and    *)
(* closed while a synchronization is under way.                            *)
(***************************************************************************)
EXTENDS FiniteSets

CONSTANTS
    Files,     \* the names activated files may get
    Readers,   \* the lookups that read the baseline
    Faults,    \* the calls that may fail on their own, by name
    Overlaps,  \* App.Close may fall into a synchronization
    None       \* no file

FaultNames == {"rename", "set", "settle", "unpend", "open", "reopen", "close"}

ASSUME FaultsAssumption == Faults \subseteq FaultNames
ASSUME OverlapsAssumption == Overlaps \in BOOLEAN
ASSUME NoneAssumption == None \notin Files

VARIABLES
    (* What survives the process. *)
    files,        \* the activated files on disk
    activeKey,    \* metadata baseline_active_path
    pendingKey,   \* metadata baseline_pending_path
    (* The process. *)
    app,          \* how far Build or App.Close has come
    current,      \* Store.active: the file of the open snapshot
    storeClosed,  \* Store.closed
    handles,      \* files with an open database handle
    reading,      \* the handle each reader uses, under the read lock
    syncPc,       \* where Sync is; syncMu admits one at a time
    candidate,    \* activateDatabase: active, the new file
    previous,     \* activateDatabase: previous, the file served before
    replaced,     \* the snapshot Replace has taken out of service
    rollingBack,  \* this Replace is the one of rollbackStore
    (* History. *)
    committed,    \* the file of the last activation that succeeded
    attempts,     \* the files tried since
    astray        \* the store was left with a file that was given up

disk     == <<files, activeKey, pendingKey>>
store    == <<current, storeClosed, handles>>
locals   == <<candidate, previous, replaced, rollingBack>>
syncVars == <<syncPc, locals>>
history  == <<committed, attempts, astray>>
vars == <<disk, app, store, reading, syncVars, history>>

----------------------------------------------------------------------------
Running == {"up", "stopping", "store_closed", "closed"}

SyncStates == {"idle", "fetch", "staged", "named", "open", "swap", "retire",
               "commit", "settle", "cleanup", "clear", "unpend", "drop"}

Init ==
    /\ app = "down"
    /\ current = None
    /\ storeClosed = FALSE
    /\ handles = {}
    /\ reading = [r \in Readers |-> None]
    /\ syncPc = "idle"
    /\ candidate = None
    /\ previous = None
    /\ replaced = None
    /\ rollingBack = FALSE
    /\ files = {}
    /\ activeKey = None
    /\ pendingKey = None
    /\ committed = None
    /\ attempts = {}
    /\ astray = FALSE

GoTo(state) == syncPc' = state

(* Sync returns; the next one starts afresh. *)
Return ==
    /\ GoTo("idle")
    /\ candidate' = None
    /\ previous' = None
    /\ replaced' = None
    /\ rollingBack' = FALSE

(* The process dies, at any point, or exits after Close. *)
Die ==
    /\ app' = "down"
    /\ current' = None
    /\ storeClosed' = FALSE
    /\ handles' = {}
    /\ reading' = [r \in Readers |-> None]
    /\ astray' = FALSE
    /\ Return
    /\ UNCHANGED <<disk, committed, attempts>>

Crash == app # "down" /\ Die

----------------------------------------------------------------------------
(* Build.  A failed call ends the process with an error. *)

(* The file Build loads: a pending path hides the active one. *)
Target == IF pendingKey # None THEN pendingKey ELSE activeKey

Build ==
    /\ app = "down"
    /\ IF Target \in files
       THEN /\ current' = Target
            /\ handles' = {Target}
            /\ app' = IF pendingKey # None THEN "promote" ELSE "up"
            /\ committed' = IF pendingKey # None THEN committed ELSE Target
            /\ attempts' = IF pendingKey # None THEN attempts ELSE {}
       ELSE /\ app' = "up"
            /\ UNCHANGED <<current, handles, committed, attempts>>
    /\ UNCHANGED <<disk, storeClosed, reading, syncVars, astray>>

Promote ==
    /\ app = "promote"
    /\ \/ /\ activeKey' = current
          /\ app' = "forget"
          /\ UNCHANGED <<files, pendingKey, store, reading, syncVars, history>>
       \/ "set" \in Faults /\ Die

Forget ==
    /\ app = "forget"
    /\ \/ /\ pendingKey' = None
          /\ app' = "up"
          /\ committed' = current
          /\ attempts' = {}
          /\ UNCHANGED <<files, activeKey, store, reading, syncVars, astray>>
       \/ "settle" \in Faults /\ Die

(* App.Close, after the server: the synchronization is told to stop but    *)
(* not waited for, then the store and the runtime database are closed.     *)
StopSync ==
    /\ app = "up"
    /\ syncPc # "idle" => Overlaps
    /\ app' = "stopping"
    /\ UNCHANGED <<disk, store, reading, syncVars, history>>

(* The write lock of the store. *)
LockFree == \A r \in Readers : reading[r] = None

CloseStore ==
    /\ app = "stopping"
    /\ LockFree
    /\ storeClosed' = TRUE
    /\ handles' = handles \ {current}
    /\ current' = None
    /\ app' = "store_closed"
    /\ UNCHANGED <<disk, reading, syncVars, history>>

CloseRuntime ==
    /\ app = "store_closed"
    /\ app' = "closed"
    /\ UNCHANGED <<disk, store, reading, syncVars, history>>

(* A lookup reads the baseline. *)
StartRead(r) ==
    /\ app \in Running
    /\ reading[r] = None
    /\ current # None
    /\ reading' = [reading EXCEPT ![r] = current]
    /\ UNCHANGED <<disk, app, store, syncVars, history>>

EndRead(r) ==
    /\ reading[r] # None
    /\ reading' = [reading EXCEPT ![r] = None]
    /\ UNCHANGED <<disk, app, store, syncVars, history>>

----------------------------------------------------------------------------
(* Sync.  Its steps touch neither the process nor the readers.             *)

(* It begins while the manager is not closed.  What it does before it has  *)
(* a validated database leaves nothing behind when it fails.               *)
StartSync ==
    /\ app = "up"
    /\ syncPc = "idle"
    /\ GoTo("fetch")
    /\ UNCHANGED <<disk, current, handles, locals, history>>

NoUpdate ==
    /\ syncPc = "fetch"
    /\ Return
    /\ UNCHANGED <<disk, current, handles, history>>

Stage(f) ==
    /\ syncPc = "fetch"
    /\ f \notin files \cup handles \cup {activeKey, pendingKey, committed}
    /\ GoTo("staged")
    /\ candidate' = f
    /\ previous' = current
    /\ UNCHANGED <<disk, current, handles, replaced, rollingBack, history>>

(* A call on the runtime database fails after its Close; one under the     *)
(* context of Run may fail from StopSync on.                               *)
DatabaseOpen == app # "closed"
Canceled == app # "up"

MayFail(call) == call \in Faults

Rename ==
    /\ syncPc = "staged"
    /\ \/ /\ files' = files \cup {candidate}
          /\ attempts' = attempts \cup {candidate}
          /\ GoTo("named")
          /\ UNCHANGED locals
       \/ /\ MayFail("rename")
          /\ Return
          /\ UNCHANGED <<files, attempts>>
    /\ UNCHANGED <<activeKey, pendingKey, current, handles, committed, astray>>

SetPending ==
    /\ syncPc = "named"
    /\ \/ DatabaseOpen /\ pendingKey' = candidate /\ GoTo("open")
       \/ (MayFail("set") \/ Canceled) /\ GoTo("drop") /\ UNCHANGED pendingKey
    /\ UNCHANGED <<files, activeKey, current, handles, locals, history>>

(* Defect: a failed activation leaves the pending path behind. *)
UndoFileOnly == "drop"

Undo == "unpend"

(* Replace, for the activation or for its rollback. *)
Argument == IF rollingBack THEN previous ELSE candidate

(* A file that is gone cannot be opened read-only. *)
Open ==
    /\ syncPc = "open"
    /\ \/ /\ ~storeClosed /\ Argument \in files
          /\ handles' = handles \cup {Argument}
          /\ GoTo("swap")
          /\ UNCHANGED astray
       \/ /\ \/ storeClosed \/ Argument \notin files
             \/ MayFail(IF rollingBack THEN "reopen" ELSE "open")
          /\ GoTo(Undo)
          /\ astray' = (astray \/ rollingBack)
          /\ UNCHANGED handles
    /\ UNCHANGED <<disk, current, locals, committed, attempts>>

ClosedMeanwhile == storeClosed

(* Defect: Replace does not wait for the readers. *)
NoLock == TRUE

CanSwap == LockFree

Swap ==
    /\ syncPc = "swap"
    /\ CanSwap
    /\ IF ClosedMeanwhile
       THEN /\ handles' = handles \ {Argument}
            /\ GoTo(Undo)
            /\ UNCHANGED <<current, replaced>>
       ELSE /\ replaced' = current
            /\ current' = Argument
            /\ GoTo("retire")
            /\ UNCHANGED handles
    /\ UNCHANGED <<disk, candidate, previous, rollingBack, history>>

(* The old handle is closed, outside the lock.  An error of it ends        *)
(* Replace with an error although the new file is already in service.      *)
Retire ==
    /\ syncPc = "retire"
    /\ handles' = handles \ {replaced}
    /\ \/ GoTo(IF rollingBack THEN Undo ELSE "commit") /\ UNCHANGED astray
       \/ /\ replaced # None /\ MayFail("close")
          /\ GoTo(Undo)
          /\ astray' = (astray \/ ~rollingBack)
    /\ UNCHANGED <<disk, current, locals, committed, attempts>>

(* Defect: the store keeps the file that is about to be removed. *)
NoRollback == Undo

(* rollbackStore *)
Rollback == IF previous = None THEN "clear" ELSE "open"

Commit ==
    /\ syncPc = "commit"
    /\ \/ /\ DatabaseOpen
          /\ activeKey' = candidate
          /\ GoTo("settle")
          /\ astray' = FALSE
          /\ UNCHANGED rollingBack
       \/ /\ MayFail("set") \/ Canceled
          /\ GoTo(Rollback)
          /\ rollingBack' = TRUE
          /\ UNCHANGED <<activeKey, astray>>
    /\ UNCHANGED <<files, pendingKey, current, handles, candidate, previous, replaced, committed,
                   attempts>>

Clear ==
    /\ syncPc = "clear"
    /\ CanSwap
    /\ GoTo(Undo)
    /\ handles' = handles \ {current}
    /\ current' = None
    /\ UNCHANGED <<disk, locals, history>>

(* The errors of these two calls are ignored. *)
Unpend ==
    /\ syncPc = "unpend"
    /\ GoTo("drop")
    /\ \/ DatabaseOpen /\ pendingKey' = None
       \/ (MayFail("unpend") \/ ~DatabaseOpen) /\ UNCHANGED pendingKey
    /\ UNCHANGED <<files, activeKey, current, handles, locals, history>>

Drop ==
    /\ syncPc = "drop"
    /\ files' = files \ {candidate}
    /\ Return
    /\ UNCHANGED <<activeKey, pendingKey, current, handles, history>>

(* A failure here reports an error, with the new baseline in place. *)
Settle ==
    /\ syncPc = "settle"
    /\ \/ DatabaseOpen /\ pendingKey' = None /\ GoTo("cleanup") /\ UNCHANGED locals
       \/ (MayFail("settle") \/ Canceled) /\ Return /\ UNCHANGED pendingKey
    /\ UNCHANGED <<files, activeKey, current, handles, history>>

Cleanup ==
    /\ syncPc = "cleanup"
    /\ files' = files \ ({previous} \ {candidate})
    /\ committed' = candidate
    /\ attempts' = {}
    /\ Return
    /\ UNCHANGED <<activeKey, pendingKey, current, handles, astray>>

ActivationStep ==
    \/ Rename \/ SetPending \/ Open \/ Swap \/ Retire \/ Commit \/ Clear
    \/ Unpend \/ Drop \/ Settle \/ Cleanup

SyncStep ==
    /\ \/ StartSync \/ NoUpdate \/ ActivationStep
       \/ \E f \in Files : Stage(f)
    /\ UNCHANGED <<app, storeClosed, reading>>

----------------------------------------------------------------------------
Next ==
    \/ Build \/ Promote \/ Forget \/ Crash
    \/ StopSync \/ CloseStore \/ CloseRuntime
    \/ \E r \in Readers : StartRead(r) \/ EndRead(r)
    \/ SyncStep

Spec == Init /\ [][Next]_vars

----------------------------------------------------------------------------
(* Every variable stays within the values its Go type and the code allow;  *)
(* only activated files are named, opened and served.                      *)
TypeOK ==
    /\ files \subseteq Files
    /\ {activeKey, pendingKey, current, candidate, previous, replaced, committed}
         \subseteq Files \cup {None}
    /\ app \in Running \cup {"down", "promote", "forget"}
    /\ storeClosed \in BOOLEAN
    /\ handles \subseteq Files
    /\ reading \in [Readers -> Files \cup {None}]
    /\ syncPc \in SyncStates
    /\ rollingBack \in BOOLEAN
    /\ attempts \subseteq Files
    /\ astray \in BOOLEAN

(* How far the process has come, in the store and with the runtime keys.   *)
AppInv ==
    /\ storeClosed <=> app \in {"store_closed", "closed"}
    /\ app \in {"down", "promote", "forget"} => syncPc = "idle"
    /\ app = "down" \/ storeClosed => current = None
    /\ app = "promote" => current \in Files /\ current = pendingKey
    /\ app = "forget" => current \in Files /\ current = activeKey

(* The files a synchronization deals with, and which of them is served.    *)
LocalInv ==
    /\ syncPc \in {"idle", "fetch", "staged", "named", "commit"} => ~rollingBack
    /\ syncPc \notin {"idle", "fetch"} => candidate \in Files /\ candidate # previous
    /\ syncPc \in {"staged", "named", "open", "swap"} /\ ~rollingBack =>
          current \in {previous, None}
    /\ syncPc \in {"retire", "commit"} /\ ~rollingBack => current \in {candidate, None}
    /\ syncPc \in {"open", "swap"} /\ rollingBack =>
          previous \in Files /\ current \in {candidate, None}

(* The open handles, step by step. *)
HandleInv ==
    /\ \A r \in Readers : reading[r] # None => reading[r] = current
    /\ syncPc \notin {"swap", "retire"} => handles = {current} \ {None}
    /\ syncPc = "swap" => handles = {current, Argument} \ {None}
    /\ syncPc = "retire" =>
          /\ handles = {current, replaced} \ {None}
          /\ replaced = current => current = None

(* The keys name complete files, and which of them this synchronization    *)
(* has written.                                                            *)
KeyInv ==
    /\ pendingKey # None => pendingKey \in files /\ pendingKey \in {committed} \cup attempts
    /\ activeKey # None => activeKey \in files /\ activeKey \in {committed} \cup attempts
    /\ committed # None => activeKey # None

StageInv ==
    /\ syncPc \notin {"idle", "fetch", "staged"} => candidate \in files \cap attempts
    /\ syncPc \in {"staged", "named", "drop"} => candidate # pendingKey
    /\ syncPc \in {"settle", "cleanup"} => activeKey = candidate
    /\ syncPc \notin {"idle", "fetch", "settle", "cleanup"} => candidate # activeKey
    /\ syncPc = "cleanup" => pendingKey = None

(* Which files the keys name at each step, also when Close has come        *)
(* between: a pending path that is left behind has lost its file.          *)
PlaceInv ==
    /\ app = "forget" => pendingKey = activeKey
    /\ app \in Running /\ syncPc \in {"idle", "fetch", "staged", "named"} =>
          pendingKey \in {None, activeKey} \/ pendingKey \notin files
    /\ syncPc = "drop" => pendingKey \in {None, activeKey, candidate} \/ pendingKey \notin files
    /\ syncPc \in {"staged", "named"} => candidate \notin {activeKey, pendingKey}
    /\ syncPc \in {"open", "swap", "retire", "commit", "clear", "unpend", "settle"} =>
          pendingKey = candidate
    /\ syncPc \in {"settle", "cleanup"} => activeKey = candidate
    /\ syncPc \notin {"idle", "fetch", "settle", "cleanup"} => candidate # activeKey
    /\ syncPc = "cleanup" => pendingKey = None
    /\ syncPc = "clear" => previous = None

(* Which files are there. *)
FileInv ==
    /\ syncPc = "staged" => candidate \notin files
    /\ syncPc \notin {"idle", "fetch", "staged"} => candidate \in files
    /\ activeKey # None => activeKey \in files
    /\ app \in {"promote", "forget"} => current \in files

(* Which file the store serves, against the active key: they agree until   *)
(* the store goes astray.  While an activation is under way the same holds *)
(* of the file served before it.                                           *)
Served == IF syncPc \in {"open", "swap", "clear", "commit"} \/ (syncPc = "retire" /\ ~rollingBack)
          THEN previous ELSE current

(* What an open store serves at each step. *)
SnapshotInv ==
    /\ app \in {"down", "promote", "forget"} => ~astray
    /\ storeClosed \/
        /\ syncPc \in {"staged", "named"} => current = previous
        /\ syncPc \in {"open", "swap"} => current = IF rollingBack THEN candidate ELSE previous
        /\ syncPc = "retire" => current = Argument
        /\ syncPc \in {"commit", "settle", "cleanup", "clear"} => current = candidate
        /\ astray => Served # activeKey
        /\ syncPc \in {"settle", "cleanup"} => ~astray

ServedInv ==
    /\ app \in {"down", "promote", "forget"} => ~astray
    /\ app = "up" => (astray <=> Served # activeKey)
    /\ app = "up" /\ syncPc \in {"idle", "fetch", "staged", "named", "drop"} =>
          pendingKey \in {None, activeKey}
    /\ syncPc \in {"staged", "named"} \/ (syncPc \in {"open", "swap"} /\ ~rollingBack)
          => current = previous
    /\ syncPc \in {"commit", "settle", "cleanup", "clear"} => current = candidate
    /\ syncPc = "retire" => current = Argument
    /\ syncPc \in {"open", "swap"} /\ rollingBack => current = candidate
    /\ syncPc \in {"open", "swap", "retire", "commit"} /\ ~rollingBack => pendingKey = candidate
    /\ syncPc \in {"settle", "cleanup"} => ~astray /\ pendingKey \in {None, candidate}
    /\ syncPc = "clear" => previous = None

(* Once a baseline has been activated, a process that starts now finds one *)
(* on disk: the last one activated, or a complete one of a later attempt.  *)
(* It holds at every instant, whatever step a crash or a failure falls     *)
(* between (activateDatabase against Build).                               *)
CommittedSurvives ==
    committed # None => Target \in files /\ Target \in {committed} \cup attempts

(* The file of the active key outlives everything, also a Close in the     *)
(* middle of an activation and a pending path that could not be deleted:   *)
(* what they hide is intact (activateDatabase, App.Close).                 *)
ActiveIsKept == activeKey # None => activeKey \in files

(* Whenever no synchronization is under way, the served baseline is the    *)
(* one a restart would load, and its file is still there: a failed         *)
(* activation has been undone in the store as well as on disk.  Only after *)
(* Replace has reported an error of the old handle, or the rollback could  *)
(* not open the old file, does the store serve a file that is gone, until  *)
(* the next activation or start.                                           *)
ServedIsRecoverable ==
    app = "up" /\ syncPc = "idle" /\ current # None =>
        IF astray THEN current # Target ELSE current = Target /\ current \in files

(* No lookup reads through a handle that has been closed under it, by a    *)
(* replacement, a rollback or Close.                                       *)
ReadersHaveHandle == \A r \in Readers : reading[r] # None => reading[r] \in handles

(* No handle is lost: outside Replace only the served snapshot is open,    *)
(* and after Close none, even if a replacement was under way.              *)
NoHandleLeak ==
    /\ syncPc \notin {"swap", "retire"} => handles = {current} \ {None}
    /\ storeClosed => current = None
=============================================================================
