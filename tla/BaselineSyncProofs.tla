------------------------- MODULE BaselineSyncProofs -------------------------
(* The store's handles, the file a restart finds and what a fetch accepts, *)
(* for any number of files and readers and any archive.                    *)
EXTENDS BaselineFetch, FiniteSetTheorems, TLAPS

StoreInv == TypeOK /\ AppInv /\ LocalInv /\ HandleInv

LEMMA StoreInit == Init => StoreInv
<1> SUFFICES ASSUME Init PROVE StoreInv
  OBVIOUS
<1>1. TypeOK
  BY DEF Init, TypeOK, SyncStates
<1>2. AppInv /\ LocalInv
  BY NoneAssumption DEF Init, AppInv, LocalInv
<1>3. HandleInv
  BY DEF Init, HandleInv
<1> QED BY <1>1, <1>2, <1>3 DEF StoreInv

(* The process: Build, Close, a crash, and the readers. *)
LEMMA DieStore == ASSUME StoreInv, Die PROVE StoreInv'
<1> USE NoneAssumption DEF StoreInv, Die, Return, GoTo, disk, history
<1>1. TypeOK'
  BY DEF TypeOK, SyncStates
<1>2. AppInv' /\ LocalInv'
  BY DEF AppInv, LocalInv
<1>3. HandleInv'
  BY DEF HandleInv
<1> QED BY <1>1, <1>2, <1>3

LEMMA BuildStore == ASSUME StoreInv, Build PROVE StoreInv'
<1> USE NoneAssumption DEF StoreInv, Build, disk, history, syncVars, locals
<1>1. syncPc = "idle" /\ current = None /\ ~storeClosed /\ handles = {}
  BY DEF AppInv, HandleInv
<1>2. Target \in files => Target \in Files
  BY DEF TypeOK
<1>3. TypeOK'
  BY <1>2 DEF TypeOK, SyncStates, Running
<1>4. AppInv'
  BY <1>1, <1>2 DEF AppInv, Target
<1>5. LocalInv'
  BY <1>1 DEF LocalInv
<1>6. HandleInv'
  BY <1>1, <1>2 DEF HandleInv
<1> QED BY <1>3, <1>4, <1>5, <1>6

LEMMA PromoteStore == ASSUME StoreInv, Promote \/ Forget, ~Die PROVE StoreInv'
<1> USE NoneAssumption DEF StoreInv, Promote, Forget, store, syncVars, locals, history
<1>1. TypeOK'
  BY DEF TypeOK, AppInv, Running
<1>2. AppInv'
  BY DEF AppInv
<1>3. LocalInv'
  BY DEF LocalInv
<1>4. HandleInv'
  BY DEF HandleInv, Argument
<1> QED BY <1>1, <1>2, <1>3, <1>4

LEMMA CloseAppStore ==
    ASSUME StoreInv, StopSync \/ CloseStore \/ CloseRuntime PROVE StoreInv'
<1> USE NoneAssumption
    DEF StoreInv, StopSync, CloseStore, CloseRuntime, disk, store, syncVars, locals, history
<1>1. TypeOK'
  BY DEF TypeOK, Running
<1>2. AppInv'
  BY DEF AppInv
<1>3. LocalInv'
  BY DEF LocalInv
<1>4. HandleInv'
  <2>1. CASE StopSync \/ CloseRuntime
    BY <2>1 DEF HandleInv, Argument
  <2>2. CASE CloseStore
    BY <2>2 DEF HandleInv, Argument, LockFree, LocalInv
  <2> QED BY <2>1, <2>2
<1> QED BY <1>1, <1>2, <1>3, <1>4

LEMMA ReadStore ==
    ASSUME StoreInv, NEW r \in Readers, StartRead(r) \/ EndRead(r) PROVE StoreInv'
<1> USE DEF StoreInv, StartRead, EndRead, disk, store, syncVars, locals, history
<1>1. TypeOK'
  BY DEF TypeOK
<1>2. AppInv' /\ LocalInv'
  BY DEF AppInv, LocalInv
<1>3. HandleInv'
  BY DEF TypeOK, HandleInv, Argument
<1> QED BY <1>1, <1>2, <1>3

(* The steps of Sync that leave the open snapshot alone. *)
LEMMA QuietStore ==
    ASSUME StoreInv, UNCHANGED <<app, storeClosed, reading>>,
           \/ StartSync \/ NoUpdate \/ Rename \/ SetPending \/ Commit
           \/ Unpend \/ Drop \/ Settle \/ Cleanup
           \/ \E f \in Files : Stage(f)
    PROVE  StoreInv'
<1> USE NoneAssumption DEF StoreInv
<1>1. UNCHANGED <<current, handles>>
  BY DEF StartSync, NoUpdate, Rename, SetPending, Commit, Unpend, Drop, Settle, Cleanup, Stage
<1>2. syncPc # "swap" /\ syncPc' # "swap" /\ syncPc # "retire" /\ syncPc' # "retire"
  BY DEF StartSync, NoUpdate, Rename, SetPending, Commit, Unpend, Drop, Settle, Cleanup, Stage,
         GoTo, Return, Rollback, Undo
<1>3. HandleInv'
  BY <1>1, <1>2 DEF HandleInv
<1>4. CASE StartSync \/ NoUpdate \/ \E f \in Files : Stage(f)
  <2> USE <1>1, <1>4 DEF StartSync, NoUpdate, Stage, Return, GoTo, disk, locals, history
  <2>1. TypeOK'
    BY DEF TypeOK, SyncStates
  <2>2. AppInv'
    BY DEF AppInv
  <2>3. LocalInv'
    BY DEF TypeOK, LocalInv, HandleInv
  <2> QED BY <1>3, <2>1, <2>2, <2>3
<1>5. CASE Rename \/ SetPending \/ Commit
  <2> USE <1>1, <1>5
      DEF Rename, SetPending, Commit, Return, GoTo, locals, history, Rollback, Undo
  <2>1. TypeOK'
    BY DEF TypeOK, SyncStates, LocalInv
  <2>2. AppInv'
    BY DEF AppInv
  <2>3. LocalInv'
    BY DEF TypeOK, LocalInv
  <2> QED BY <1>3, <2>1, <2>2, <2>3
<1>6. CASE Unpend \/ Drop \/ Settle \/ Cleanup
  <2> USE <1>1, <1>6 DEF Unpend, Drop, Settle, Cleanup, Return, GoTo, locals, history
  <2>1. TypeOK'
    BY DEF TypeOK, SyncStates, LocalInv
  <2>2. AppInv'
    BY DEF AppInv
  <2>3. LocalInv'
    BY DEF LocalInv
  <2> QED BY <1>3, <2>1, <2>2, <2>3
<1> QED BY <1>4, <1>5, <1>6

(* Replace and Clear. *)
LEMMA OpenStore ==
    ASSUME StoreInv, UNCHANGED <<app, storeClosed, reading>>, Open PROVE StoreInv'
<1> USE NoneAssumption DEF StoreInv, Open, GoTo, Undo, disk, locals, history
<1>1. Argument \in Files
  BY DEF Argument, LocalInv
<1>2. TypeOK'
  BY <1>1 DEF TypeOK, SyncStates
<1>3. AppInv'
  BY DEF AppInv
<1>4. LocalInv'
  BY DEF LocalInv
<1>5. HandleInv'
  BY <1>1 DEF HandleInv, Argument
<1> QED BY <1>2, <1>3, <1>4, <1>5

LEMMA SwapStore ==
    ASSUME StoreInv, UNCHANGED <<app, storeClosed, reading>>, Swap PROVE StoreInv'
<1> USE NoneAssumption DEF StoreInv, Swap, GoTo, Undo, disk, history
<1>1. Argument \in Files /\ Argument # current
  BY DEF Argument, LocalInv
<1>2. \A r \in Readers : reading[r] = None
  BY DEF CanSwap, LockFree
<1>3. CASE ClosedMeanwhile
  <2>1. current = None
    BY <1>3 DEF ClosedMeanwhile, AppInv
  <2>2. TypeOK'
    BY <1>3 DEF TypeOK, SyncStates
  <2>3. AppInv' /\ LocalInv'
    BY <1>3 DEF AppInv, LocalInv
  <2>4. HandleInv'
    BY <1>2, <1>3, <2>1 DEF HandleInv
  <2> QED BY <2>2, <2>3, <2>4
<1>4. CASE ~ClosedMeanwhile
  <2>1. app \notin {"down", "promote", "forget", "store_closed", "closed"}
    BY <1>4 DEF ClosedMeanwhile, AppInv
  <2>2. TypeOK'
    BY <1>1, <1>4 DEF TypeOK, SyncStates
  <2>3. AppInv'
    BY <1>4, <2>1 DEF AppInv, ClosedMeanwhile
  <2>4. LocalInv'
    BY <1>4 DEF LocalInv, Argument
  <2>5. HandleInv'
    BY <1>1, <1>2, <1>4 DEF HandleInv
  <2> QED BY <2>2, <2>3, <2>4, <2>5
<1> QED BY <1>3, <1>4

LEMMA RetireStore ==
    ASSUME StoreInv, UNCHANGED <<app, storeClosed, reading>>, Retire \/ Clear
    PROVE  StoreInv'
<1> USE NoneAssumption DEF StoreInv, Retire, Clear, GoTo, Undo, disk, locals, history
<1>1. TypeOK'
  BY DEF TypeOK, SyncStates
<1>2. AppInv'
  BY DEF AppInv
<1>3. LocalInv'
  BY DEF LocalInv
<1>4. HandleInv'
  BY DEF HandleInv, CanSwap, LockFree
<1> QED BY <1>1, <1>2, <1>3, <1>4

LEMMA StoreStep == ASSUME StoreInv, [Next]_vars PROVE StoreInv'
<1>1. CASE UNCHANGED vars
  <2> USE <1>1 DEF StoreInv, vars, disk, store, syncVars, locals, history
  <2>1. TypeOK' /\ AppInv' /\ LocalInv'
    BY DEF TypeOK, AppInv, LocalInv
  <2>2. HandleInv'
    BY DEF HandleInv, Argument
  <2> QED BY <2>1, <2>2
<1>2. CASE Die
  BY <1>2, DieStore
<1>3. CASE Build
  BY <1>3, BuildStore
<1>4. CASE (Promote \/ Forget) /\ ~Die
  BY <1>4, PromoteStore
<1>5. CASE StopSync \/ CloseStore \/ CloseRuntime
  BY <1>5, CloseAppStore
<1>6. ASSUME NEW r \in Readers, StartRead(r) \/ EndRead(r) PROVE StoreInv'
  BY <1>6, ReadStore
<1>7. CASE SyncStep
  BY <1>7, QuietStore, OpenStore, SwapStore, RetireStore DEF SyncStep, ActivationStep
<1> QED BY <1>1, <1>2, <1>3, <1>4, <1>5, <1>6, <1>7 DEF Next, Crash

LEMMA StoreInvariant == Spec => []StoreInv
BY StoreInit, StoreStep, PTL DEF Spec

(* In every reachable state the variables are well typed.                  *)
THEOREM TypeCorrect == Spec => []TypeOK
<1>1. StoreInv => TypeOK
  BY DEF StoreInv
<1> QED BY <1>1, StoreInvariant, PTL

(* No lookup reads through a closed handle, whatever is replaced, rolled   *)
(* back or closed meanwhile.                                               *)
THEOREM ReadersAreSafe == Spec => []ReadersHaveHandle
<1>1. StoreInv => ReadersHaveHandle
  <2> SUFFICES ASSUME StoreInv, NEW r \in Readers, reading[r] # None
               PROVE  reading[r] \in handles
    BY DEF ReadersHaveHandle
  <2>1. reading[r] = current
    BY DEF StoreInv, HandleInv
  <2> QED BY <2>1 DEF StoreInv, HandleInv
<1> QED BY <1>1, StoreInvariant, PTL

(* Outside Replace exactly the served snapshot is open, and none after     *)
(* Close.                                                                  *)
THEOREM HandlesAreAccounted == Spec => []NoHandleLeak
<1>1. StoreInv => NoHandleLeak
  BY DEF StoreInv, AppInv, HandleInv, NoHandleLeak
<1> QED BY <1>1, StoreInvariant, PTL

----------------------------------------------------------------------------
(* The files and the keys without any assumption. *)
LEMMA PlaceInit == Init => PlaceInv /\ FileInv /\ SnapshotInv
BY DEF Init, PlaceInv, FileInv, SnapshotInv, Running

(* The process and the readers. *)
LEMMA ProcessPlace ==
    ASSUME StoreInv, PlaceInv, FileInv,
           \/ UNCHANGED vars \/ Die \/ Build \/ ((Promote \/ Forget) /\ ~Die)
           \/ StopSync \/ CloseStore \/ CloseRuntime
           \/ \E r \in Readers : StartRead(r) \/ EndRead(r)
    PROVE  PlaceInv' /\ FileInv'
<1>1. CASE \/ UNCHANGED vars \/ StopSync \/ CloseStore \/ CloseRuntime
           \/ \E r \in Readers : StartRead(r) \/ EndRead(r)
  <2>1. /\ UNCHANGED <<disk, syncPc, candidate, previous>>
        /\ app' \in {"promote", "forget"} => app' = app /\ current' = current
        /\ app' \in Running => app \in Running
    BY <1>1 DEF vars, store, syncVars, locals, StopSync, CloseStore, CloseRuntime, StartRead,
                EndRead, Running
  <2> QED BY <2>1 DEF PlaceInv, FileInv, disk
<1>2. CASE Die
  BY <1>2 DEF Die, Return, GoTo, disk, PlaceInv, FileInv, Running
<1>3. CASE Build
  <2>1. syncPc = "idle" /\ UNCHANGED <<disk, syncPc, candidate, previous>>
    BY <1>3 DEF Build, StoreInv, AppInv, syncVars, locals
  <2>2. app' \in {"promote", "forget"} => app' = "promote" /\ current' \in files
    BY <1>3 DEF Build, Target
  <2>3. app' \in Running => pendingKey = None \/ pendingKey \notin files
    BY <1>3 DEF Build, Target, Running
  <2> QED BY <2>1, <2>2, <2>3 DEF PlaceInv, FileInv, disk
<1>4. CASE (Promote \/ Forget) /\ ~Die
  <2>1. syncPc = "idle" /\ current \in files
    BY <1>4 DEF Promote, Forget, StoreInv, AppInv, FileInv
  <2>2. UNCHANGED <<files, current, syncVars>>
    BY <1>4 DEF Promote, Forget, store
  <2>3. CASE Promote
    BY <1>4, <2>1, <2>2, <2>3
       DEF Promote, StoreInv, AppInv, syncVars, locals, PlaceInv, FileInv, Running
  <2>4. CASE Forget
    BY <1>4, <2>1, <2>2, <2>4
       DEF Forget, StoreInv, AppInv, syncVars, locals, PlaceInv, FileInv, Running
  <2> QED BY <1>4, <2>3, <2>4
<1> QED BY <1>1, <1>2, <1>3, <1>4

(* Sync. *)
LEMMA SyncPlace ==
    ASSUME StoreInv, PlaceInv, FileInv, SyncStep PROVE PlaceInv' /\ FileInv'
<1> USE NoneAssumption DEF PlaceInv, FileInv
<1>1. UNCHANGED app /\ (syncPc # "idle" => app \in Running)
  BY DEF SyncStep, StoreInv, AppInv, TypeOK
<1>2. candidate # previous \/ syncPc \in {"idle", "fetch"}
  BY DEF StoreInv, LocalInv
<1>3. candidate \in Files \/ syncPc \in {"idle", "fetch"}
  BY DEF StoreInv, LocalInv
<1>4. CASE StartSync \/ NoUpdate \/ \E f \in Files : Stage(f)
  BY <1>1, <1>4 DEF StartSync, NoUpdate, Stage, Return, GoTo, disk, locals, Running
<1>5. CASE Rename \/ SetPending
  <2>1. CASE Rename
    BY <1>1, <1>3, <2>1 DEF Rename, Return, GoTo, locals, Running
  <2>2. CASE SetPending
    BY <1>1, <1>3, <2>2 DEF SetPending, GoTo, locals, Running
  <2> QED BY <1>5, <2>1, <2>2
<1>6. CASE Open \/ Swap
  BY <1>1, <1>6 DEF Open, Swap, GoTo, Undo, disk, locals, Running
<1>7. CASE Retire \/ Clear
  BY <1>1, <1>7 DEF Retire, Clear, GoTo, Undo, disk, locals, Running
<1>8. CASE Commit
  BY <1>1, <1>3, <1>8 DEF Commit, GoTo, Rollback, Undo, Running
<1>9. CASE Unpend
  BY <1>1, <1>9 DEF Unpend, GoTo, locals, Running
<1>10. CASE Drop
  BY <1>1, <1>10 DEF Drop, Return, GoTo, Running
<1>11. CASE Settle
  BY <1>1, <1>11 DEF Settle, Return, GoTo, locals, Running
<1>12. CASE Cleanup
  BY <1>1, <1>2, <1>12 DEF Cleanup, Return, GoTo, Running
<1> QED BY <1>4, <1>5, <1>6, <1>7, <1>8, <1>9, <1>10, <1>11, <1>12 DEF SyncStep, ActivationStep

LEMMA PlaceStep ==
    ASSUME StoreInv, PlaceInv, FileInv, [Next]_vars PROVE PlaceInv' /\ FileInv'
BY ProcessPlace, SyncPlace DEF Next, Crash

LEMMA PlaceInvariant == Spec => [](StoreInv /\ PlaceInv /\ FileInv)
<1>1. StoreInv /\ PlaceInv /\ FileInv /\ [Next]_vars => PlaceInv' /\ FileInv'
  BY PlaceStep
<1> QED BY <1>1, PlaceInit, StoreInvariant, PTL DEF Spec

(* Nothing removes the active baseline: not a Close in the middle of an    *)
(* activation, nor a pending path that cannot be deleted, nor a crash.     *)
THEOREM ActiveSurvives == Spec => []ActiveIsKept
<1>1. FileInv => ActiveIsKept
  BY DEF FileInv, ActiveIsKept
<1> QED BY <1>1, PlaceInvariant, PTL

(* What an open store serves. *)
LEMMA SyncRuns ==
    ASSUME StoreInv, SyncStep
    PROVE  UNCHANGED <<storeClosed, app>> /\ app \notin {"down", "promote", "forget"}
BY DEF StoreInv, AppInv, SyncStep, ActivationStep, StartSync, NoUpdate, Stage, Rename, SetPending,
       Open, Swap, Retire, Commit, Clear, Unpend, Drop, Settle, Cleanup

LEMMA SnapshotStep ==
    ASSUME StoreInv, PlaceInv, SnapshotInv, [Next]_vars PROVE SnapshotInv'
<1> USE NoneAssumption DEF SnapshotInv
<1>0. {astray, storeClosed, rollingBack} \subseteq BOOLEAN
  BY DEF StoreInv, TypeOK
<1>1. CASE \/ UNCHANGED vars \/ StopSync \/ CloseRuntime
           \/ \E r \in Readers : StartRead(r) \/ EndRead(r)
  <2>1. /\ UNCHANGED <<activeKey, current, storeClosed, syncPc, locals, astray>>
        /\ app' \in {"down", "promote", "forget"} => app' = app
    BY <1>1 DEF vars, disk, store, syncVars, history, StopSync, CloseRuntime, StartRead, EndRead
  <2>2. Served' = Served /\ Argument' = Argument
    BY <2>1 DEF locals, Served, Argument
  <2> QED BY <1>0, <2>1, <2>2 DEF locals
<1>2. CASE CloseStore
  BY <1>2 DEF CloseStore
<1>3. CASE Die \/ Build \/ Promote \/ Forget
  <2>1. ~astray' /\ syncPc' = "idle"
    BY <1>3 DEF Die, Build, Promote, Forget, StoreInv, AppInv, Return, GoTo, syncVars, history
  <2> QED BY <2>1
<1>4. CASE SyncStep
  <2>1. UNCHANGED <<storeClosed, app>> /\ app \notin {"down", "promote", "forget"}
    BY <1>4, SyncRuns
  <2> SUFFICES ASSUME ~storeClosed PROVE SnapshotInv'
    BY <2>1
  <2> USE DEF Served
  <2>2. CASE StartSync \/ NoUpdate \/ \E f \in Files : Stage(f)
    BY <1>0, <2>1, <2>2 DEF StartSync, NoUpdate, Stage, Return, GoTo, disk, locals, history
  <2>3. CASE Rename \/ SetPending
    BY <1>0, <2>1, <2>3 DEF Rename, SetPending, Return, GoTo, locals, history, StoreInv, LocalInv
  <2>4. CASE Open
    BY <1>0, <2>1, <2>4 DEF Open, GoTo, Undo, disk, locals, Argument, PlaceInv
  <2>5. CASE Swap
    BY <1>0, <2>1, <2>5 DEF Swap, ClosedMeanwhile, GoTo, Undo, disk, history, Argument,
                StoreInv, LocalInv
  <2>6. CASE Retire
    BY <1>0, <2>1, <2>6 DEF Retire, GoTo, Undo, disk, locals, Argument, PlaceInv
  <2>7. CASE Commit
    BY <1>0, <2>1, <2>7 DEF Commit, GoTo, Rollback, Undo
  <2>8. CASE Clear
    BY <1>0, <2>1, <2>8 DEF Clear, GoTo, Undo, disk, locals, history, PlaceInv
  <2>9. CASE Unpend \/ Drop
    BY <1>0, <2>1, <2>9 DEF Unpend, Drop, Return, GoTo, locals, history
  <2>10. CASE Settle \/ Cleanup
    BY <1>0, <2>1, <2>10 DEF Settle, Cleanup, Return, GoTo, locals, history
  <2> QED BY <1>4, <2>2, <2>3, <2>4, <2>5, <2>6, <2>7, <2>8, <2>9, <2>10
          DEF SyncStep, ActivationStep
<1> QED BY <1>1, <1>2, <1>3, <1>4 DEF Next, Crash

----------------------------------------------------------------------------
(* What a restart finds, as long as App.Close does not cut a               *)
(* synchronization short and the pending path can be deleted.              *)
KeepsPending == ~Overlaps /\ "unpend" \notin Faults

DiskInv ==
    /\ StoreInv
    /\ KeyInv
    /\ StageInv
    /\ app # "up" => syncPc = "idle"

LEMMA DiskInit == Init => DiskInv
<1> SUFFICES ASSUME Init PROVE DiskInv
  OBVIOUS
<1>1. KeyInv /\ StageInv
  BY DEF Init, KeyInv, StageInv
<1> QED BY <1>1, StoreInit DEF Init, DiskInv

(* The process. *)
LEMMA DieDisk == ASSUME DiskInv, Die PROVE DiskInv'
<1>1. KeyInv' /\ StageInv'
  BY DEF DiskInv, Die, Return, GoTo, disk, history, KeyInv, StageInv
<1> QED BY <1>1, DieStore DEF Die, Return, GoTo, DiskInv

LEMMA BuildDisk == ASSUME DiskInv, Build PROVE DiskInv'
<1> USE NoneAssumption DEF DiskInv, Build, disk, syncVars, locals, history
<1>1. files \subseteq Files /\ syncPc = "idle"
  BY DEF StoreInv, TypeOK, AppInv
<1>2. StageInv'
  BY <1>1 DEF StageInv
<1>3. KeyInv'
  <2>1. CASE pendingKey # None
    BY <2>1 DEF KeyInv, Target
  <2>2. CASE pendingKey = None
    BY <1>1, <2>2 DEF KeyInv, Target
  <2> QED BY <2>1, <2>2
<1> QED BY <1>2, <1>3, BuildStore

LEMMA PromoteDisk == ASSUME DiskInv, Promote \/ Forget, ~Die PROVE DiskInv'
<1> USE NoneAssumption DEF DiskInv, Promote, Forget, syncVars, locals, history
<1>1. syncPc = "idle"
  BY DEF StoreInv, AppInv
<1>2. StageInv'
  BY <1>1 DEF StageInv
<1>3. KeyInv'
  BY DEF StoreInv, AppInv, KeyInv
<1> QED BY <1>2, <1>3, PromoteStore

LEMMA ReadDisk ==
    ASSUME DiskInv, NEW r \in Readers, StartRead(r) \/ EndRead(r) PROVE DiskInv'
<1>1. KeyInv' /\ StageInv'
  BY DEF DiskInv, StartRead, EndRead, disk, syncVars, locals, history, KeyInv, StageInv
<1> QED BY <1>1, ReadStore DEF DiskInv, StartRead, EndRead, syncVars

(* Sync. *)
LEMMA SyncsWhileUp == ASSUME DiskInv, SyncStep PROVE app = "up"
BY DEF DiskInv, SyncStep, ActivationStep, StartSync, NoUpdate, Stage, Rename, SetPending, Open,
       Swap, Retire, Commit, Clear, Unpend, Drop, Settle, Cleanup

LEMMA SyncDisk ==
    ASSUME DiskInv, KeepsPending, SyncStep PROVE DiskInv'
<1> USE NoneAssumption DEF DiskInv
<1>0. StoreInv'
  BY QuietStore, OpenStore, SwapStore, RetireStore DEF SyncStep, ActivationStep
<1>1. app' = "up" /\ DatabaseOpen
  BY SyncsWhileUp DEF SyncStep, DatabaseOpen
<1>2. CASE StartSync \/ NoUpdate \/ Open \/ Swap \/ Retire \/ Clear \/ \E f \in Files : Stage(f)
  <2>1. UNCHANGED <<disk, committed, attempts>>
    BY <1>2 DEF StartSync, NoUpdate, Open, Swap, Retire, Clear, Stage, history
  <2>2. KeyInv'
    BY <2>1 DEF disk, KeyInv
  <2>3. CASE StartSync \/ NoUpdate \/ \E f \in Files : Stage(f)
    <3>1. StageInv'
      BY <2>1, <2>3
         DEF StartSync, NoUpdate, Stage, Return, GoTo, disk, locals, history, StageInv
    <3> QED BY <1>0, <1>1, <2>2, <3>1
  <2>4. CASE Open \/ Swap \/ Retire \/ Clear
    <3>1. StageInv'
      BY <2>1, <2>4
         DEF Open, Swap, Retire, Clear, GoTo, Undo, disk, locals, history, StageInv
    <3> QED BY <1>0, <1>1, <2>2, <3>1
  <2> QED BY <1>2, <2>3, <2>4
<1>3. CASE Rename
  <2>1. KeyInv'
    BY <1>3 DEF Rename, KeyInv
  <2>2. StageInv'
    BY <1>3 DEF Rename, Return, GoTo, locals, StageInv
  <2> QED BY <1>0, <1>1, <2>1, <2>2
<1>4. CASE SetPending
  <2>1. KeyInv'
    BY <1>4 DEF SetPending, history, KeyInv, StageInv
  <2>2. StageInv'
    BY <1>4 DEF SetPending, GoTo, locals, history, StageInv
  <2> QED BY <1>0, <1>1, <2>1, <2>2
<1>5. CASE Commit
  <2>1. candidate \in Files
    BY <1>5 DEF Commit, StoreInv, LocalInv
  <2>2. KeyInv'
    BY <1>5, <2>1 DEF Commit, history, KeyInv, StageInv
  <2>3. StageInv'
    BY <1>5 DEF Commit, GoTo, Rollback, Undo, history, StageInv
  <2> QED BY <1>0, <1>1, <2>2, <2>3
<1>6. CASE Unpend
  <2>1. candidate \in Files /\ pendingKey' = None
    BY <1>1, <1>6 DEF Unpend, MayFail, KeepsPending, StoreInv, LocalInv
  <2>2. KeyInv'
    BY <1>6, <2>1 DEF Unpend, history, KeyInv
  <2>3. StageInv'
    BY <1>6, <2>1 DEF Unpend, GoTo, locals, history, StageInv
  <2> QED BY <1>0, <1>1, <2>2, <2>3
<1>7. CASE Drop
  <2>1. KeyInv'
    BY <1>7 DEF Drop, history, KeyInv, StageInv
  <2>2. StageInv'
    BY <1>7 DEF Drop, Return, GoTo, history, StageInv
  <2> QED BY <1>0, <1>1, <2>1, <2>2
<1>8. CASE Settle
  <2>1. candidate \in Files
    BY <1>8 DEF Settle, StoreInv, LocalInv
  <2>2. KeyInv'
    BY <1>8 DEF Settle, history, KeyInv
  <2>3. StageInv'
    BY <1>8, <2>1 DEF Settle, Return, GoTo, locals, history, StageInv
  <2> QED BY <1>0, <1>1, <2>2, <2>3
<1>9. CASE Cleanup
  <2>1. candidate \in Files /\ candidate # previous
    BY <1>9 DEF Cleanup, StoreInv, LocalInv
  <2>2. activeKey = candidate /\ pendingKey = None /\ candidate \in files
    BY <1>9 DEF Cleanup, StageInv
  <2>3. KeyInv'
    BY <1>9, <2>1, <2>2 DEF Cleanup, KeyInv
  <2>4. StageInv'
    BY <1>9 DEF Cleanup, Return, GoTo, StageInv
  <2> QED BY <1>0, <1>1, <2>3, <2>4
<1> QED BY <1>2, <1>3, <1>4, <1>5, <1>6, <1>7, <1>8, <1>9 DEF SyncStep, ActivationStep

LEMMA DiskStep == ASSUME DiskInv, KeepsPending, [Next]_vars PROVE DiskInv'
<1>1. CASE UNCHANGED vars
  <2>1. StoreInv'
    BY <1>1, StoreStep DEF DiskInv
  <2>2. KeyInv' /\ StageInv'
    BY <1>1 DEF DiskInv, vars, disk, syncVars, locals, history, KeyInv, StageInv
  <2> QED BY <1>1, <2>1, <2>2 DEF DiskInv, vars, syncVars
<1>2. CASE Die
  BY <1>2, DieDisk
<1>3. CASE Build
  BY <1>3, BuildDisk
<1>4. CASE (Promote \/ Forget) /\ ~Die
  BY <1>4, PromoteDisk
<1>5. CASE StopSync \/ CloseStore \/ CloseRuntime
  <2>1. KeyInv' /\ StageInv'
    BY <1>5 DEF DiskInv, StopSync, CloseStore, CloseRuntime, disk, syncVars, locals, history,
                KeyInv, StageInv
  <2>2. syncPc' = "idle"
    BY <1>5 DEF KeepsPending, DiskInv, StopSync, CloseStore, CloseRuntime, syncVars
  <2> QED BY <1>5, <2>1, <2>2, CloseAppStore DEF DiskInv
<1>6. ASSUME NEW r \in Readers, StartRead(r) \/ EndRead(r) PROVE DiskInv'
  BY <1>6, ReadDisk
<1>7. CASE SyncStep
  BY <1>7, SyncDisk
<1> QED BY <1>1, <1>2, <1>3, <1>4, <1>5, <1>6, <1>7 DEF Next, Crash

(* A baseline once activated is found by every later start, wherever a     *)
(* crash or a failed call falls.  Both assumptions are needed: without     *)
(* them a pending path may outlive its file.                               *)
THEOREM BaselineSurvives ==
    ASSUME KeepsPending PROVE Spec => []CommittedSurvives
<1>1. DiskInv => CommittedSurvives
  BY DEF DiskInv, KeyInv, CommittedSurvives, Target
<1>2. DiskInv /\ [Next]_vars => DiskInv'
  BY DiskStep
<1> QED BY <1>1, <1>2, DiskInit, PTL DEF Spec

----------------------------------------------------------------------------
(* What is served, under the same assumptions.                             *)
RecoverInv == DiskInv /\ ServedInv

LEMMA RecoverInit == Init => RecoverInv
<1> SUFFICES ASSUME Init PROVE RecoverInv
  OBVIOUS
<1>1. ServedInv
  BY DEF Init, ServedInv, Served, Argument
<1> QED BY <1>1, DiskInit DEF RecoverInv

LEMMA ProcessRecover ==
    ASSUME RecoverInv, RecoverInv => DiskInv',
           \/ Die \/ Build \/ ((Promote \/ Forget) /\ ~Die)
           \/ \E r \in Readers : StartRead(r) \/ EndRead(r)
    PROVE  ServedInv'
<1> USE NoneAssumption DEF RecoverInv, DiskInv
<1>1. CASE Die
  BY <1>1 DEF Die, Return, GoTo, disk, ServedInv, Served, Argument
<1>2. CASE Build
  <2>1. syncPc = "idle" /\ current = None /\ ~astray
    BY <1>2 DEF Build, StoreInv, AppInv, ServedInv
  <2>2. activeKey # None => activeKey \in files
    BY DEF KeyInv
  <2>3. pendingKey # None => pendingKey \in files
    BY DEF KeyInv
  <2> QED BY <1>2, <2>1, <2>2, <2>3
          DEF Build, Target, disk, syncVars, locals, ServedInv, Served, Argument
<1>3. CASE (Promote \/ Forget) /\ ~Die
  <2>1. syncPc = "idle" /\ ~astray
    BY <1>3 DEF Promote, Forget, StoreInv, AppInv, ServedInv
  <2> QED BY <1>3, <2>1
          DEF Promote, Forget, store, syncVars, locals, history, StoreInv, AppInv,
              ServedInv, Served, Argument
<1>4. CASE \E r \in Readers : StartRead(r) \/ EndRead(r)
  BY <1>4 DEF StartRead, EndRead, disk, store, syncVars, locals, history, ServedInv, Served, Argument
<1> QED BY <1>1, <1>2, <1>3, <1>4

(* An activation, and its rollback.                                        *)
LEMMA SyncRecover ==
    ASSUME RecoverInv, KeepsPending, SyncStep PROVE ServedInv'
<1> USE NoneAssumption DEF RecoverInv, DiskInv, SyncStep
<1>1. app = "up"
  BY SyncsWhileUp DEF SyncStep
<1>2. ~storeClosed /\ DatabaseOpen
  BY <1>1 DEF StoreInv, AppInv, DatabaseOpen
<1>3. CASE StartSync \/ NoUpdate \/ \E f \in Files : Stage(f)
  BY <1>3 DEF StartSync, NoUpdate, Stage, Return, GoTo, disk, locals, history,
              StoreInv, LocalInv, ServedInv, Served, Argument
<1>4. CASE Rename \/ SetPending
  <2>1. ~rollingBack
    BY <1>4 DEF Rename, SetPending, StoreInv, LocalInv
  <2> QED BY <1>1, <1>4, <2>1
          DEF Rename, SetPending, Return, GoTo, locals, history, ServedInv, Served, Argument
<1>5. CASE Open
  <2>1. candidate # activeKey /\ candidate \in files /\ astray \in BOOLEAN
    BY <1>5 DEF Open, StageInv, StoreInv, TypeOK
  <2>2. app = "up"
    BY <1>1, <1>5 DEF Open
  <2>3. CASE rollingBack
    <3>1. current = candidate
      BY <1>5, <2>3 DEF Open, ServedInv
    <3>2. CASE syncPc' = "swap"
      BY <1>5, <2>2, <2>3, <3>1, <3>2
         DEF Open, GoTo, Undo, disk, locals, ServedInv, Served, Argument
    <3>3. CASE syncPc' = Undo /\ astray'
      BY <1>5, <2>1, <2>2, <2>3, <3>1, <3>3
         DEF Open, Undo, disk, locals, ServedInv, Served, Argument
    <3> QED BY <1>5, <2>3, <3>2, <3>3 DEF Open, GoTo
  <2>4. CASE ~rollingBack
    <3>1. UNCHANGED astray
      BY <1>5, <2>1, <2>4 DEF Open
    <3> QED BY <1>5, <2>2, <2>4, <3>1
            DEF Open, GoTo, Undo, disk, locals, ServedInv, Served, Argument
  <2> QED BY <2>3, <2>4
<1>6. CASE Swap
  BY <1>1, <1>2, <1>6
     DEF Swap, ClosedMeanwhile, GoTo, disk, history, ServedInv, Served, Argument
<1>7. CASE Retire
  <2>1. candidate # activeKey /\ astray \in BOOLEAN
    BY <1>7 DEF Retire, StageInv, StoreInv, TypeOK
  <2>2. app = "up"
    BY <1>1, <1>7 DEF Retire
  <2>3. CASE rollingBack
    <3>1. UNCHANGED astray /\ syncPc' = Undo
      BY <1>7, <2>1, <2>3 DEF Retire, GoTo
    <3> QED BY <1>7, <2>2, <2>3, <3>1
            DEF Retire, Undo, disk, locals, ServedInv, Served, Argument
  <2>4. CASE ~rollingBack
    <3>1. current = candidate
      BY <1>7, <2>4 DEF Retire, ServedInv, Argument
    <3>2. CASE syncPc' = "commit" /\ UNCHANGED astray
      BY <1>7, <2>2, <2>4, <3>1, <3>2 DEF Retire, disk, locals, ServedInv, Served, Argument
    <3>3. CASE syncPc' = Undo /\ astray'
      BY <1>7, <2>1, <2>2, <2>4, <3>1, <3>3
         DEF Retire, Undo, disk, locals, ServedInv, Served, Argument
    <3> QED BY <1>7, <2>4, <3>2, <3>3 DEF Retire, GoTo
  <2> QED BY <2>3, <2>4
<1>8. CASE Commit
  <2>1. ~rollingBack /\ current = candidate /\ pendingKey = candidate /\ app = "up"
    BY <1>1, <1>8 DEF Commit, StoreInv, LocalInv, ServedInv
  <2>2. CASE syncPc' = "settle"
    BY <1>8, <2>1, <2>2 DEF Commit, GoTo, Rollback, Undo, ServedInv, Served, Argument
  <2>3. CASE syncPc' = Rollback
    BY <1>8, <2>1, <2>3 DEF Commit, GoTo, Rollback, Undo, ServedInv, Served, Argument
  <2> QED BY <1>8, <2>2, <2>3 DEF Commit, GoTo
<1>9. CASE Clear \/ Unpend \/ Drop
  BY <1>1, <1>2, <1>9
     DEF Clear, Unpend, Drop, Return, GoTo, Undo, MayFail, KeepsPending, disk, locals,
         history, StageInv, ServedInv, Served, Argument
<1>10. CASE Settle \/ Cleanup
  BY <1>1, <1>10
     DEF Settle, Cleanup, Return, GoTo, locals, history, StageInv, ServedInv, Served, Argument
<1> QED BY <1>3, <1>4, <1>5, <1>6, <1>7, <1>8, <1>9, <1>10 DEF ActivationStep

LEMMA RecoverStep == ASSUME RecoverInv, KeepsPending, [Next]_vars PROVE RecoverInv'
<1>1. DiskInv'
  BY DiskStep DEF RecoverInv
<1>2. CASE UNCHANGED vars
  BY <1>1, <1>2 DEF RecoverInv, vars, disk, store, syncVars, locals, history, ServedInv, Served, Argument
<1>3. CASE SyncStep
  BY <1>1, <1>3, SyncRecover DEF RecoverInv
<1>4. CASE StopSync \/ CloseStore \/ CloseRuntime
  <2>1. syncPc = "idle" /\ app' \in {"stopping", "store_closed", "closed"} /\ UNCHANGED syncVars
    BY <1>4 DEF KeepsPending, RecoverInv, DiskInv, StopSync, CloseStore, CloseRuntime
  <2> QED BY <1>1, <2>1 DEF RecoverInv, syncVars, ServedInv
<1>5. CASE \/ Die \/ Build \/ ((Promote \/ Forget) /\ ~Die)
           \/ \E r \in Readers : StartRead(r) \/ EndRead(r)
  BY <1>1, <1>5, ProcessRecover DEF RecoverInv
<1> QED BY <1>2, <1>3, <1>4, <1>5 DEF Next, Crash

(* Between two synchronizations the store serves what a restart would      *)
(* load, unless one of the failures that are not undone has sent it        *)
(* astray; then a restart finds another, complete file.                    *)
THEOREM ServedSurvives ==
    ASSUME KeepsPending PROVE Spec => []ServedIsRecoverable
<1>1. RecoverInv => ServedIsRecoverable
  <2> SUFFICES ASSUME RecoverInv, app = "up", syncPc = "idle", current # None
               PROVE  IF astray THEN current # Target
                                ELSE current = Target /\ current \in files
    BY DEF ServedIsRecoverable
  <2>1. Served = current /\ pendingKey \in {None, activeKey}
    BY DEF RecoverInv, ServedInv, Served, Argument
  <2>2. Target = activeKey /\ (astray <=> current # activeKey)
    BY <2>1 DEF RecoverInv, ServedInv, Target
  <2>3. activeKey # None => activeKey \in files
    BY DEF RecoverInv, DiskInv, KeyInv
  <2> QED BY <2>2, <2>3
<1>2. RecoverInv /\ [Next]_vars => RecoverInv'
  BY RecoverStep
<1> QED BY <1>1, <1>2, RecoverInit, PTL DEF Spec

----------------------------------------------------------------------------
(* The fetch is a detail of "fetch": what is proved above holds with it.   *)
LEMMA FetchStep == ASSUME [FetchNext]_allVars PROVE [Next]_vars
<1>1. CASE UNCHANGED allVars
  BY <1>1 DEF allVars
<1>2. CASE ProcessStep
  BY <1>2 DEF ProcessStep, Next
<1>3. CASE CrashFetch
  BY <1>3 DEF CrashFetch, Next
<1>4. CASE EndFetch
  BY <1>4 DEF EndFetch, Next, SyncStep
<1>5. CASE \E next \in FetchSteps : Advance(next)
  BY <1>5 DEF Advance
<1>6. CASE BeginFetch
  BY <1>6 DEF BeginFetch, Next, SyncStep
<1>7. CASE StageFetched
  BY <1>7 DEF StageFetched, Next, SyncStep
<1>8. CASE Activate
  BY <1>8 DEF Activate, Next, SyncStep
<1>9. CASE \/ Check \/ Respond \/ Receive \/ Break \/ Cancel \/ CreateArchive \/ Received
           \/ VerifySHA256 \/ CreateDatabase \/ Unpack \/ Measure \/ ValidateDatabase
  <2>1. EndFetch \/ \E next \in FetchSteps : Advance(next)
    BY <1>9 DEF Check, Respond, Receive, Break, Cancel, CreateArchive, Received, VerifySHA256,
                CreateDatabase, Unpack, Measure, ValidateDatabase, GiveUp, FetchSteps
  <2> QED BY <1>4, <1>5, <2>1
<1> QED BY <1>1, <1>2, <1>3, <1>6, <1>7, <1>8, <1>9 DEF FetchNext, LocalStep

(* Every behaviour with the fetch in detail is one of BaselineSync.        *)
THEOREM FetchImplements == FetchSpec => Spec
<1>1. FetchInit => Init
  BY DEF FetchInit
<1>2. [FetchNext]_allVars => [Next]_vars
  BY FetchStep
<1> QED BY <1>1, <1>2, PTL DEF FetchSpec, Spec

(* No lookup reads a closed snapshot and no handle is lost.                *)
THEOREM FetchKeepsHandles == FetchSpec => []HandlesInOrder
<1>1. ReadersHaveHandle /\ NoHandleLeak => HandlesInOrder
  BY DEF HandlesInOrder
<1> QED BY <1>1, FetchImplements, ReadersAreSafe, HandlesAreAccounted, PTL

(* What a step of the fetch rests on.                                      *)
LEMMA FetchInvInit == FetchInit => FetchInv
BY DEF FetchInit, Init, FetchInv, Reached

LEMMA ActivationIsNoFetch ==
    ASSUME ActivationStep PROVE syncPc # "fetch" /\ syncPc' # "fetch"
BY DEF ActivationStep, Rename, SetPending, Open, Swap, Retire, Commit, Clear, Unpend, Drop,
       Settle, Cleanup, GoTo, Return, Undo, Rollback

LEMMA ProcessIsNoFetch ==
    ASSUME StoreInv, ProcessStep
    PROVE  (syncPc = "fetch" <=> syncPc' = "fetch") /\ (syncPc = "fetch" => syncPc' = syncPc)
<1>1. CASE Promote \/ Forget
  <2>1. syncPc = "idle"
    BY <1>1 DEF Promote, Forget, StoreInv, AppInv
  <2> QED BY <1>1, <2>1 DEF Promote, Forget, Die, Return, GoTo, syncVars
<1>2. CASE ~(Promote \/ Forget)
  BY <1>2 DEF ProcessStep, Build, StopSync, CloseStore, CloseRuntime, StartRead, EndRead, syncVars
<1> QED BY <1>1, <1>2

LEMMA EndFetchInv == ASSUME EndFetch PROVE FetchInv'
BY DEF EndFetch, NoUpdate, Return, GoTo, ForgetProgress, FetchInv, Reached

LEMMA AdvanceInv == ASSUME NEW next, Advance(next) PROVE syncPc' = syncPc /\ step' = next
BY DEF Advance, vars, syncVars

LEMMA FetchInvStep ==
    ASSUME FetchInv, StoreInv, [FetchNext]_allVars PROVE FetchInv'
<1> USE DEF Reached
<1>1. CASE UNCHANGED allVars
  BY <1>1 DEF allVars, vars, syncVars, fetchVars, progress, FetchInv, Extractable, WithinRatio
<1>2. CASE ProcessStep
  <2>1. UNCHANGED <<step, manifest, archive, got, unpacked>>
    BY <1>2 DEF ProcessStep, fetchVars, progress
  <2> QED BY <1>2, <2>1, ProcessIsNoFetch DEF FetchInv, Extractable, WithinRatio
<1>3. CASE CrashFetch
  BY <1>3 DEF CrashFetch, Crash, Die, Return, GoTo, ForgetProgress, FetchInv
<1>4. CASE GiveUp \/ Break \/ Cancel
  BY <1>4, EndFetchInv DEF GiveUp, Break, Cancel
<1>5. CASE BeginFetch
  BY <1>5 DEF BeginFetch, StartSync, GoTo, progress, FetchInv
<1>6. CASE StageFetched
  BY <1>6 DEF StageFetched, Stage, GoTo, ForgetProgress, FetchInv
<1>7. CASE Activate
  <2>1. step = "none"
    BY <1>7, ActivationIsNoFetch DEF Activate, FetchInv
  <2> QED BY <1>7, <2>1, ActivationIsNoFetch DEF Activate, progress, FetchInv
<1>8. CASE Check /\ ~GiveUp
  BY <1>8, AdvanceInv DEF Check, FetchInv
<1>9. CASE CreateArchive /\ ~GiveUp
  BY <1>9, AdvanceInv DEF CreateArchive, progress, FetchInv
<1>10. CASE Respond
  BY <1>10, AdvanceInv, RemoteAssumption DEF Respond, FetchInv
<1>11. CASE Receive /\ ~GiveUp
  <2>1. archive \in Archives /\ archive.size \in Nat
    BY <1>11, RemoteAssumption DEF Receive, FetchInv
  <2>2. got \in 0..archive.size /\ got < archive.size /\ got' = got + 1
    BY <1>11 DEF Receive, FetchInv
  <2>3. got' \in 0..archive.size
    BY <2>1, <2>2
  <2> QED BY <1>11, <2>1, <2>3, AdvanceInv DEF Receive, FetchInv
<1>12. CASE (Received \/ VerifySHA256) /\ ~GiveUp
  BY <1>12, AdvanceInv DEF Received, VerifySHA256, progress, FetchInv
<1>13. CASE CreateDatabase /\ ~GiveUp
  BY <1>13, AdvanceInv DEF CreateDatabase, progress, FetchInv, Extractable, WithinRatio
<1>14. CASE Unpack
  <2> DEFINE all == archive.entries[1].actual
  <2>1. unpacked' = IF all <= DatabaseLimit THEN all ELSE DatabaseLimit + 1
    BY <1>14 DEF Unpack
  <2>2. unpacked' <= DatabaseLimit <=> all <= DatabaseLimit
    BY <2>1, LimitsAssumption
  <2> QED BY <1>14, <2>2, AdvanceInv DEF Unpack, FetchInv, Extractable, WithinRatio
<1>15. CASE (Measure \/ ValidateDatabase) /\ ~GiveUp
  BY <1>15, AdvanceInv
     DEF Measure, ValidateDatabase, progress, FetchInv, Extractable, WithinRatio
<1> QED BY <1>1, <1>2, <1>3, <1>4, <1>5, <1>6, <1>7, <1>8, <1>9, <1>10, <1>11, <1>12, <1>13,
           <1>14, <1>15 DEF FetchNext, LocalStep

LEMMA FetchInvariant == FetchSpec => []FetchInv
<1>1. FetchInv /\ StoreInv /\ [FetchNext]_allVars => FetchInv'
  BY FetchInvStep
<1> QED BY <1>1, FetchInvInit, FetchImplements, StoreInvariant, PTL DEF FetchSpec

(* The bound the code computes by division is the one without.             *)
LEMMA RatioIsBounded ==
    ASSUME NEW a \in Nat, NEW b \in Nat, b > 0 PROVE (a \div b <= Ratio) <=> a < (Ratio + 1) * b
<1> DEFINE q == a \div b
           m == a % b
<1>1. q \in Nat /\ m \in 0..(b - 1) /\ a = b * q + m /\ Ratio \in Nat
  BY LimitsAssumption
<1> HIDE DEF q, m
<1>2. CASE q <= Ratio
  <2>1. b * q <= b * Ratio
    BY <1>1, <1>2
  <2> QED BY <1>1, <1>2, <2>1 DEF q
<1>3. CASE q >= Ratio + 1
  <2>1. b * q >= b * (Ratio + 1)
    BY <1>1, <1>3
  <2> QED BY <1>1, <1>3, <2>1 DEF q
<1> QED BY <1>1, <1>2, <1>3

LEMMA ExtractableTells ==
    ASSUME archive \in Archives, Len(archive.entries) = 1
    PROVE  LET e == archive.entries[1]
           IN  WithinRatio(e) <=> (e.packed > 0 => e.declared < (Ratio + 1) * e.packed)
<1>1. {archive.entries[1].declared, archive.entries[1].packed} \subseteq Nat
  BY RemoteAssumption
<1> QED BY <1>1, RatioIsBounded DEF WithinRatio

LEMMA Verdict ==
    ASSUME FetchInv, StoreInv, [FetchNext]_allVars,
           syncPc = "fetch", syncPc' # "fetch", app' # "down", ~broke'
    PROVE  syncPc' = "staged" <=> Acceptable
<1> USE DEF Reached
<1>1. ~(UNCHANGED allVars) /\ ~(\E next : Advance(next))
  BY DEF allVars, vars, syncVars, Advance
<1>2. ~ProcessStep /\ ~Activate /\ ~BeginFetch
  BY ProcessIsNoFetch, ActivationIsNoFetch DEF Activate, BeginFetch, StartSync
<1>3. ~CrashFetch /\ ~Break /\ ~Cancel
  BY DEF CrashFetch, Crash, Die, Break, Cancel
<1>4. CASE StageFetched
  <2>1. syncPc' = "staged" /\ step = "ready"
    BY <1>4 DEF StageFetched, Stage, GoTo
  <2>2. manifest \in Manifests /\ archive \in Archives /\ None \notin {manifest, archive}
    BY <2>1, RemoteAssumption DEF FetchInv
  <2>3. Acceptable
    BY <2>1, <2>2, ExtractableTells DEF FetchInv, Extractable, Acceptable
  <2> QED BY <2>1, <2>3
<1>5. CASE GiveUp
  <2>1. syncPc' = "idle"
    BY <1>5 DEF GiveUp, EndFetch, NoUpdate, Return, GoTo
  <2>2. CASE Check \/ CreateArchive
    BY <2>1, <2>2 DEF Check, CreateArchive, FetchInv, Acceptable
  <2>3. CASE Receive
    <3>1. archive \in Archives /\ archive.size \in Nat /\ got \in 0..archive.size
      BY <2>3, RemoteAssumption DEF Receive, FetchInv
    <3>2. got < archive.size /\ got + 1 >= ArchiveLimit + 1
      BY <1>1, <2>3, <3>1, LimitsAssumption DEF Receive, WriterLimit
    <3> QED BY <2>1, <3>1, <3>2, LimitsAssumption DEF Acceptable
  <2>4. CASE Received \/ VerifySHA256
    BY <1>1, <2>1, <2>4 DEF Received, VerifySHA256, Acceptable
  <2>5. CASE CreateDatabase
    <3>1. archive \in Archives /\ ~Extractable
      BY <1>1, <2>5 DEF CreateDatabase, FetchInv
    <3> QED BY <2>1, <3>1, ExtractableTells DEF Extractable, Acceptable
  <2>6. CASE Measure
    <3>1. ~(archive.entries[1].actual <= DatabaseLimit)
      BY <1>1, <2>6 DEF Measure, FetchInv
    <3> QED BY <2>1, <3>1 DEF Acceptable
  <2>7. CASE ValidateDatabase
    BY <1>1, <2>1, <2>7 DEF ValidateDatabase, Acceptable
  <2>8. CASE Respond \/ Unpack
    BY <1>1, <2>8 DEF Respond, Unpack
  <2> QED BY <1>1, <1>2, <1>3, <1>4, <2>2, <2>3, <2>4, <2>5, <2>6, <2>7, <2>8
          DEF FetchNext, LocalStep, StageFetched, GiveUp, EndFetch
<1>6. CASE ~GiveUp /\ ~StageFetched
  BY <1>1, <1>2, <1>3, <1>6
     DEF FetchNext, LocalStep, Check, CreateArchive, Respond, Receive, Received, VerifySHA256,
         CreateDatabase, Unpack, Measure, ValidateDatabase
<1> QED BY <1>4, <1>5, <1>6

(* A fetch that is left to run hands on exactly the archives it should,    *)
(* for every archive and every limit.                                      *)
THEOREM FetchIsExact == FetchSpec => AcceptsTheSound
<1>1. ASSUME FetchInv, StoreInv, [FetchNext]_allVars
      PROVE  [syncPc = "fetch" /\ syncPc' # "fetch" /\ app' # "down" /\ ~broke'
                => (syncPc' = "staged" <=> Acceptable)]_allVars
  BY <1>1, Verdict
<1> QED BY <1>1, FetchInvariant, FetchImplements, StoreInvariant, PTL
        DEF FetchSpec, AcceptsTheSound

LEMMA LimitsAreNat == ArchiveLimit \in Nat /\ DatabaseLimit \in Nat /\ 0 \in 0..ArchiveLimit
<1>1. ArchiveLimit \in Nat /\ DatabaseLimit \in Nat
  BY LimitsAssumption
<1> QED BY <1>1

LEMMA FetchTypeStep ==
    ASSUME FetchTypeOK, FetchInv, [FetchNext]_allVars PROVE FetchTypeOK'
<1> USE LimitsAreNat DEF FetchTypeOK
<1>0. broke' \in BOOLEAN
  <2>1. UNCHANGED broke \/ broke' = TRUE \/ broke' = FALSE
    BY DEF FetchNext, allVars, fetchVars, ProcessStep, CrashFetch, GiveUp, Break, Cancel,
           BeginFetch, Check, CreateArchive, Respond, Receive, LocalStep, StageFetched, Received,
           VerifySHA256, CreateDatabase, Unpack, Measure, ValidateDatabase, Activate, Advance
  <2> QED BY <2>1
<1>1. CASE UNCHANGED allVars \/ ProcessStep
  BY <1>1 DEF allVars, ProcessStep, fetchVars, progress
<1>2. CASE CrashFetch
  <2>1. IsFiniteSet(temps)
    <3>1. IsFiniteSet({} \cup {"archive"} \cup {"database"})
      BY FS_EmptySet, FS_AddElement
    <3>2. temps \subseteq {} \cup {"archive"} \cup {"database"}
      OBVIOUS
    <3> QED BY <3>1, <3>2, FS_Subset
  <2>2. Cardinality(temps) \in Nat
    BY <2>1, FS_CardinalityType
  <2> QED BY <1>2, <2>2 DEF CrashFetch, ForgetProgress, FetchSteps
<1>3. CASE GiveUp \/ Break \/ Cancel
  <2>1. EndFetch
    BY <1>3 DEF GiveUp, Break, Cancel
  <2> QED BY <1>0, <2>1 DEF EndFetch, ForgetProgress, FetchSteps
<1>4. CASE BeginFetch \/ StageFetched
  <2>1. CASE BeginFetch
    BY <1>0, <2>1 DEF BeginFetch, progress, FetchSteps
  <2>2. CASE StageFetched
    BY <1>0, <2>2 DEF StageFetched, ForgetProgress, FetchSteps
  <2> QED BY <1>4, <2>1, <2>2
<1>5. CASE Activate
  <2>1. lapses' \in Nat
    BY <1>5 DEF Activate
  <2> QED BY <1>5, <2>1 DEF Activate, Remaining, progress
<1>6. CASE (Check \/ CreateArchive \/ Respond) /\ ~GiveUp
  BY <1>6 DEF Check, CreateArchive, Respond, Advance, progress, FetchSteps
<1>7. CASE Receive /\ ~GiveUp
  <2>1. got' = got + 1 /\ got + 1 < ArchiveLimit + 1
    BY <1>7 DEF Receive, WriterLimit
  <2>2. got' \in 0..ArchiveLimit
    BY <2>1
  <2> QED BY <1>0, <1>7, <2>2 DEF Receive, Advance, FetchSteps
<1>8. CASE Unpack
  <2>1. archive.entries[1].actual \in Nat
    BY <1>8, RemoteAssumption DEF Unpack, FetchInv, Reached, Extractable
  <2> QED BY <1>8, <2>1 DEF Unpack, Advance, FetchSteps
<1>9. CASE (Received \/ VerifySHA256 \/ CreateDatabase \/ Measure \/ ValidateDatabase) /\ ~GiveUp
  BY <1>9 DEF Received, VerifySHA256, CreateDatabase, Measure, ValidateDatabase, Advance,
              progress, FetchSteps
<1> QED BY <1>1, <1>2, <1>3, <1>4, <1>5, <1>6, <1>7, <1>8, <1>9 DEF FetchNext, LocalStep

(* The variables of the fetch are well typed; no more is written than the  *)
(* limit admits.                                                           *)
THEOREM FetchTypeCorrect == FetchSpec => []FetchTypeOK
<1>1. FetchInit => FetchTypeOK
  <2>1. FetchInit => broke \in BOOLEAN
    BY DEF FetchInit
  <2> QED BY <2>1, LimitsAreNat DEF FetchInit, FetchTypeOK, FetchSteps
<1>2. FetchTypeOK /\ FetchInv /\ [FetchNext]_allVars => FetchTypeOK'
  BY FetchTypeStep
<1> QED BY <1>1, <1>2, FetchInvariant, PTL DEF FetchSpec

----------------------------------------------------------------------------
(* The room on the disk.  A step loosens no file unless it is a lapse, and *)
(* then one.                                                               *)
StepInv == StoreInv /\ PlaceInv /\ FileInv /\ SnapshotInv

LEMMA StepInvariant == Spec => []StepInv
<1>1. StoreInv /\ PlaceInv /\ FileInv /\ SnapshotInv => StepInv
  BY DEF StepInv
<1>2. StoreInv /\ PlaceInv /\ SnapshotInv /\ [Next]_vars => SnapshotInv'
  BY SnapshotStep
<1> QED BY <1>1, <1>2, PlaceInit, PlaceInvariant, PTL DEF Spec

LEMMA HeldWhileClosed ==
    ASSUME NEW key, NEW served PROVE Held(key, served) \subseteq {key}
BY DEF Held

LEMMA LooseBuild ==
    ASSUME StepInv, Build \/ ((Promote \/ Forget) /\ ~Die) PROVE Loose' \subseteq Loose
<1> USE NoneAssumption DEF StepInv
<1>1. syncPc = "idle" /\ syncPc' = "idle" /\ UNCHANGED files
  BY DEF Build, Promote, Forget, StoreInv, AppInv, syncVars, disk
<1>2. Kept = Held(Target, current) /\ Kept' = Held(Target, current)'
  BY <1>1 DEF Kept
<1>3. CASE Build
  BY <1>1, <1>2, <1>3 DEF Build, Held, Target, disk, Loose
<1>4. CASE Promote /\ ~Die
  BY <1>1, <1>2, <1>4 DEF Promote, Held, Target, store, StoreInv, AppInv, Loose
<1>5. CASE Forget /\ ~Die
  <2>1. current = activeKey /\ pendingKey = activeKey /\ app' = "up"
    BY <1>5 DEF Forget, StoreInv, AppInv, PlaceInv
  <2>2. Kept' = {activeKey}
    BY <1>2, <1>5, <2>1 DEF Forget, store, Held, Target
  <2>3. Kept = {activeKey}
    BY <1>2, <1>5, <2>1 DEF Forget, Held, Target
  <2> QED BY <1>1, <2>2, <2>3 DEF Loose
<1> QED BY <1>3, <1>4, <1>5

(* Closing the store may only make files count as kept. *)
LEMMA LooseClose ==
    ASSUME StepInv,
           \/ UNCHANGED vars \/ StopSync \/ CloseStore \/ CloseRuntime
           \/ \E r \in Readers : StartRead(r) \/ EndRead(r)
    PROVE  Loose' \subseteq Loose
<1>1. UNCHANGED <<disk, syncVars>> /\ (app' \in {"up", "stopping"} => UNCHANGED current)
  BY DEF vars, store, StopSync, CloseStore, CloseRuntime, StartRead, EndRead
<1>2. app' \in {"up", "stopping"} => app \in {"up", "stopping"}
  BY DEF vars, StopSync, CloseStore, CloseRuntime, StartRead, EndRead
<1>3. Target' = Target /\ UNCHANGED <<files, activeKey, syncPc, candidate, previous, rollingBack>>
  BY <1>1 DEF Target, disk, syncVars, locals
<1>4. Held(Target, current) \subseteq Held(Target, current)'
  BY <1>1, <1>2, <1>3 DEF Held
<1>5. Held(activeKey, current) \subseteq Held(activeKey, current)'
  BY <1>1, <1>2, <1>3 DEF Held
<1>6. /\ Held(Target, previous) \subseteq Held(Target, previous)'
      /\ Held(activeKey, previous) \subseteq Held(activeKey, previous)'
  BY <1>2, <1>3 DEF Held
<1>7. Kept \subseteq Kept'
  BY <1>3, <1>4, <1>5, <1>6 DEF Kept
<1> QED BY <1>3, <1>7 DEF Loose

(* A restart finds what its keys name; what the process had in use besides *)
(* may be lost: the candidate or the file served before, not both.         *)
LEMMA LooseDie ==
    ASSUME StepInv, Die
    PROVE  /\ \E f : Loose' \subseteq Loose \cup {f}
           /\ syncPc \in {"idle", "fetch", "staged"} => Loose' \subseteq Loose
<1> USE DEF StepInv
<1>1. UNCHANGED files /\ Target' = Target /\ Kept' = {Target}
  BY DEF Die, Return, GoTo, disk, Kept, Held, Target
<1>2. CASE syncPc \in {"idle", "fetch"}
  <2>1. Kept \subseteq {Target}
    BY <1>2 DEF Kept, Held
  <2> QED BY <1>1, <2>1 DEF Loose
<1>3. CASE syncPc = "staged"
  <2>1. Kept \subseteq {candidate, Target} /\ candidate \notin files
    BY <1>3 DEF Kept, Held, FileInv
  <2> QED BY <1>1, <2>1 DEF Loose
<1>4. CASE syncPc \in {"named", "drop"}
  <2>1. Kept \subseteq {candidate, Target}
    BY <1>4 DEF Kept, Held
  <2> QED BY <1>1, <1>4, <2>1 DEF Loose
<1>5. CASE syncPc \in {"open", "swap", "clear", "retire", "commit", "unpend"}
  <2>1. candidate \in Files /\ pendingKey = candidate
    BY <1>5 DEF StoreInv, LocalInv, PlaceInv
  <2>2. Target = candidate
    BY <2>1, NoneAssumption DEF Target
  <2>3. Kept \subseteq {candidate, activeKey}
    BY <1>5 DEF Kept, Held
  <2> QED BY <1>1, <1>5, <2>2, <2>3 DEF Loose
<1>6. CASE syncPc \in {"settle", "cleanup"}
  <2>1. activeKey = candidate /\ pendingKey \in {None, candidate}
    BY <1>6 DEF PlaceInv
  <2>2. Target = candidate /\ Kept = {candidate, previous}
    BY <1>6, <2>1 DEF Target, Kept
  <2> QED BY <1>1, <1>6, <2>2 DEF Loose
<1>7. syncPc \in SyncStates
  BY DEF StoreInv, TypeOK
<1> QED BY <1>2, <1>3, <1>4, <1>5, <1>6, <1>7 DEF SyncStates

LEMMA LooseSync ==
    ASSUME StepInv, SyncStep
    PROVE  /\ \E f : Loose' \subseteq Loose \cup {f}
           /\ Loose' \subseteq Loose \/ Lapsed
<1> USE NoneAssumption DEF StepInv, Loose
<1>0. UNCHANGED <<storeClosed, app>> /\ {astray, storeClosed, rollingBack} \subseteq BOOLEAN
  BY SyncRuns DEF StoreInv, TypeOK
<1>1. syncPc = "idle" \/ (app \in Running /\ (storeClosed <=> app \notin {"up", "stopping"}))
  BY SyncRuns DEF StoreInv, TypeOK, AppInv, Running
<1>2. \A key, served : Held(key, served)' = Held(key', served')
  BY <1>0 DEF Held
<1>3. syncPc \in {"idle", "fetch"} \/ (candidate \in Files /\ candidate # previous)
  BY DEF StoreInv, LocalInv
<1>4. CASE StartSync \/ NoUpdate
  BY <1>0, <1>4 DEF StartSync, NoUpdate, Return, GoTo, disk, locals, Kept, Held, Target
<1>5. ASSUME NEW f \in Files, Stage(f) PROVE Loose' \subseteq Loose
  BY <1>0, <1>5 DEF Stage, GoTo, disk, Kept, Held, Target
<1>6. CASE Rename
  <2>1. CASE files' = files \cup {candidate} /\ syncPc' = "named"
    <3>1. syncPc = "staged" /\ UNCHANGED <<activeKey, pendingKey, candidate, previous>>
      BY <1>6, <2>1 DEF Rename, locals, Return, GoTo
    <3>2. Kept = {candidate} \cup Held(Target, previous)
      BY <3>1 DEF Kept
    <3>3. Kept' = {candidate} \cup Held(Target, previous)
      BY <1>0, <2>1, <3>1 DEF Kept, Held, Target
    <3> QED BY <2>1, <3>2, <3>3
  <2>2. CASE Return /\ UNCHANGED files
    <3>1. /\ syncPc = "staged" /\ syncPc' = "idle"
          /\ UNCHANGED <<activeKey, pendingKey, current>>
      BY <1>6, <2>2 DEF Rename, Return, GoTo
    <3>2. candidate \notin files
      BY <3>1 DEF FileInv
    <3>3. Kept = {candidate} \cup Held(Target, previous)
      BY <3>1 DEF Kept
    <3>4. Kept' = Held(Target, current)
      BY <1>0, <3>1 DEF Kept, Held, Target
    <3>5. Held(Target, previous) \subseteq Held(Target, current)
      BY <1>1, <3>1 DEF Held, SnapshotInv
    <3> QED BY <2>2, <3>2, <3>3, <3>4, <3>5
  <2> QED BY <1>6, <2>1, <2>2 DEF Rename, GoTo
<1>7. CASE SetPending
  <2>1. syncPc = "named" /\ UNCHANGED <<files, activeKey, current, locals>> /\ syncPc' \in {"open", "drop"}
    BY <1>7 DEF SetPending, GoTo
  <2>2. CASE syncPc' = "open"
    <3>1. Held(Target, previous) \cap files \subseteq Held(activeKey, previous)
      BY <1>1, <2>1 DEF PlaceInv, Target, Held
    <3> QED BY <1>0, <2>1, <2>2, <3>1 DEF locals, Kept, Held
  <2>3. CASE syncPc' = "drop"
    BY <1>0, <1>1, <1>7, <2>1, <2>3 DEF SetPending, GoTo, locals, Kept, Held, Target, SnapshotInv
  <2> QED BY <2>1, <2>2, <2>3
<1>8. CASE Open
  <2>1. syncPc = "open" /\ UNCHANGED <<disk, current, locals>> /\ syncPc' \in {"swap", "unpend"}
    BY <1>8 DEF Open, GoTo, Undo
  <2>2. CASE syncPc' = "swap"
    BY <1>0, <2>1, <2>2 DEF disk, locals, Kept, Held
  <2>3. CASE syncPc' = "unpend"
    <3>1. Kept = {candidate} \cup Held(activeKey, previous)
      BY <2>1 DEF Kept
    <3>2. Kept' = {candidate} \cup Held(activeKey, current)
      BY <1>0, <2>1, <2>3 DEF Kept, Held, disk, locals
    <3>3. CASE ~rollingBack \/ storeClosed
      BY <1>1, <2>1, <3>1, <3>2, <3>3 DEF SnapshotInv, Held, disk
    <3>4. CASE rollingBack /\ ~storeClosed
      <4>1. astray'
        BY <1>8, <2>3, <3>4 DEF Open, GoTo
      <4>2. astray => previous # activeKey
        BY <2>1, <3>4 DEF SnapshotInv, Served
      <4> QED BY <2>1, <3>1, <3>2, <4>1, <4>2 DEF Held, Lapsed, disk
    <3> QED BY <1>0, <3>3, <3>4
  <2> QED BY <2>1, <2>2, <2>3
<1>9. CASE Swap
  <2>1. /\ syncPc = "swap" /\ UNCHANGED <<disk, candidate, previous, rollingBack>>
        /\ syncPc' \in {"retire", "unpend"}
    BY <1>9 DEF Swap, GoTo, Undo
  <2>2. Kept = {candidate} \cup Held(activeKey, previous)
    BY <2>1 DEF Kept
  <2>3. CASE storeClosed
    BY <1>0, <1>1, <1>9, <2>1, <2>2, <2>3 DEF Swap, ClosedMeanwhile, GoTo, Undo, Kept, Held, disk
  <2>4. CASE ~storeClosed
    <3>1. current' = Argument /\ syncPc' = "retire"
      BY <1>9, <2>4 DEF Swap, ClosedMeanwhile, GoTo
    <3>2. app \in {"up", "stopping"}
      BY <1>1, <2>1, <2>4
    <3>3. Kept = {candidate} \cup ({activeKey} \cap {previous})
      BY <2>2, <3>2 DEF Held
    <3>4. CASE rollingBack
      <4>1. Kept' = {candidate} \cup ({activeKey} \cap {previous})
        BY <1>0, <2>1, <3>1, <3>2, <3>4 DEF Kept, Held, Argument, disk
      <4> QED BY <2>1, <3>3, <4>1 DEF disk
    <3>5. CASE ~rollingBack
      <4>1. Kept' = {candidate} \cup ({activeKey} \cap {previous})
        BY <2>1, <3>1, <3>5 DEF Kept, disk
      <4> QED BY <2>1, <3>3, <4>1 DEF disk
    <3> QED BY <1>0, <3>4, <3>5
  <2> QED BY <1>0, <2>3, <2>4
<1>10. CASE Retire
  <2>1. /\ syncPc = "retire" /\ UNCHANGED <<disk, current, candidate, previous, rollingBack>>
        /\ syncPc' = "unpend" \/ (syncPc' = "commit" /\ ~rollingBack)
    BY <1>10 DEF Retire, GoTo, Undo, locals
  <2>2. CASE rollingBack \/ syncPc' = "commit"
    BY <1>0, <2>1, <2>2 DEF Kept, Held, disk
  <2>3. CASE ~rollingBack /\ syncPc' = "unpend"
    <3>1. Kept = {candidate} \cup ({activeKey} \cap {previous})
      BY <2>1, <2>3 DEF Kept
    <3>2. Kept' = {candidate} \cup Held(activeKey, current)
      BY <1>0, <2>1, <2>3 DEF Kept, Held, disk
    <3>3. CASE storeClosed
      BY <1>1, <2>1, <3>1, <3>2, <3>3 DEF Held, disk
    <3>4. CASE ~storeClosed
      <4>1. astray'
        BY <1>10, <2>3 DEF Retire, GoTo
      <4>2. astray => previous # activeKey
        BY <2>1, <2>3, <3>4 DEF SnapshotInv, Served
      <4> QED BY <2>1, <3>1, <3>2, <4>1, <4>2 DEF Lapsed, disk
    <3> QED BY <1>0, <3>3, <3>4
  <2> QED BY <2>1, <2>2, <2>3
<1>11. CASE Commit
  <2>1. syncPc = "commit" /\ UNCHANGED <<files, candidate, previous>> /\ ~rollingBack
    BY <1>11 DEF Commit, StoreInv, LocalInv
  <2>2. Kept = {candidate} \cup ({activeKey} \cap {previous})
    BY <2>1 DEF Kept
  <2>3. CASE syncPc' = "settle"
    BY <2>1, <2>2, <2>3 DEF Kept
  <2>4. CASE syncPc' \in {"open", "clear"}
    BY <1>0, <1>11, <2>1, <2>2, <2>4 DEF Commit, GoTo, Kept, Held
  <2> QED BY <1>11, <2>3, <2>4 DEF Commit, GoTo, Rollback
<1>12. CASE Clear
  <2>1. current' = None /\ syncPc = "clear" /\ syncPc' = "unpend" /\ UNCHANGED <<disk, locals>>
    BY <1>12 DEF Clear, GoTo, Undo
  <2>2. previous = None
    BY <2>1 DEF PlaceInv
  <2> QED BY <1>0, <2>1, <2>2 DEF Kept, Held, disk, locals
<1>13. CASE Unpend
  <2>1. syncPc = "unpend" /\ syncPc' = "drop" /\ UNCHANGED <<files, activeKey, current, locals>>
    BY <1>13 DEF Unpend, GoTo
  <2>2. Kept = {candidate} \cup Held(activeKey, current)
    BY <2>1 DEF Kept
  <2>3. candidate \in Kept'
    BY <2>1 DEF Kept, locals
  <2>4. CASE pendingKey' = None
    BY <1>0, <2>1, <2>2, <2>4 DEF Kept, Held, Target, locals
  <2>5. CASE pendingKey' # None
    BY <2>1, <2>2, <2>3, <2>5 DEF Held, Lapsed
  <2> QED BY <2>4, <2>5
<1>14. CASE Drop
  BY <1>0, <1>14 DEF Drop, Return, GoTo, Kept, Held, Target
<1>15. CASE Settle
  <2>1. /\ syncPc = "settle" /\ UNCHANGED <<files, activeKey, current>>
        /\ activeKey = candidate /\ pendingKey = candidate
    BY <1>15 DEF Settle, PlaceInv
  <2>2. Kept = {candidate, previous}
    BY <2>1 DEF Kept
  <2>3. CASE syncPc' = "cleanup" /\ UNCHANGED locals
    BY <2>1, <2>2, <2>3 DEF Kept, locals
  <2>4. CASE Return /\ UNCHANGED pendingKey
    <3>1. Kept' = {candidate}
      BY <1>0, <1>1, <1>3, <2>1, <2>4 DEF Return, GoTo, Kept, Held, Target, SnapshotInv
    <3> QED BY <2>1, <2>2, <2>4, <3>1 DEF Lapsed, Return, GoTo
  <2> QED BY <1>15, <2>3, <2>4 DEF Settle, GoTo
<1>16. CASE Cleanup
  <2>1. /\ syncPc = "cleanup" /\ UNCHANGED <<activeKey, pendingKey, current>> /\ syncPc' = "idle"
        /\ activeKey = candidate /\ pendingKey = None /\ files' = files \ {previous}
    BY <1>3, <1>16 DEF Cleanup, Return, GoTo, PlaceInv
  <2>2. Kept = {candidate, previous}
    BY <2>1 DEF Kept
  <2>3. Kept' = {candidate}
    BY <1>0, <1>1, <2>1 DEF Kept, Held, Target, SnapshotInv
  <2> QED BY <2>1, <2>2, <2>3
<1> QED BY <1>4, <1>5, <1>6, <1>7, <1>8, <1>9, <1>10, <1>11, <1>12, <1>13, <1>14, <1>15, <1>16
        DEF SyncStep, ActivationStep

(* What one more element, or none, does to the size of a set.              *)
LEMMA OneMore ==
    ASSUME NEW S, NEW T, NEW e, IsFiniteSet(S), T \subseteq S \cup {e}
    PROVE  /\ IsFiniteSet(T)
           /\ Cardinality(T) \in Nat /\ Cardinality(S) \in Nat
           /\ Cardinality(T) <= Cardinality(S) + 1
<1>1. IsFiniteSet(S \cup {e}) /\ Cardinality(S) \in Nat
  BY FS_AddElement, FS_CardinalityType
<1>2. Cardinality(S \cup {e}) \in {Cardinality(S), Cardinality(S) + 1}
  BY FS_AddElement
<1>3. IsFiniteSet(T) /\ Cardinality(T) <= Cardinality(S \cup {e})
  BY <1>1, FS_Subset
<1>4. Cardinality(T) \in Nat
  BY <1>3, FS_CardinalityType
<1> QED BY <1>1, <1>2, <1>3, <1>4

LEMMA NoMore ==
    ASSUME NEW S, NEW T, IsFiniteSet(S), T \subseteq S
    PROVE  /\ IsFiniteSet(T)
           /\ Cardinality(T) \in Nat /\ Cardinality(S) \in Nat
           /\ Cardinality(T) <= Cardinality(S)
BY FS_Subset, FS_CardinalityType

LEMMA FewTemps ==
    ASSUME FetchTypeOK
    PROVE  /\ Cardinality(temps) \in Nat /\ Cardinality(temps) <= 2
           /\ temps \subseteq {"archive"} => Cardinality(temps) <= 1
           /\ temps = {} => Cardinality(temps) = 0
<1>1. IsFiniteSet({"archive"}) /\ Cardinality({"archive"}) = 1
  BY FS_Singleton
<1>2. temps \subseteq {"archive"} \cup {"database"}
  BY DEF FetchTypeOK
<1>3. Cardinality(temps) \in Nat /\ Cardinality(temps) <= 2
  <2>1. Cardinality(temps) \in Nat /\ Cardinality(temps) <= Cardinality({"archive"}) + 1
    BY <1>1, <1>2, OneMore
  <2> QED BY <1>1, <2>1
<1>4. temps \subseteq {"archive"} => Cardinality(temps) <= 1
  BY <1>1, NoMore
<1> QED BY <1>3, <1>4, FS_EmptySet

(* A step adds one file at most.                                           *)
LEMMA OneFileMore == ASSUME [Next]_vars PROVE files' \subseteq files \cup {candidate}
<1>1. CASE UNCHANGED vars
  BY <1>1 DEF vars, disk
<1>2. CASE Build \/ StopSync \/ CloseStore \/ CloseRuntime \/ Die
  BY <1>2 DEF Build, StopSync, CloseStore, CloseRuntime, Die, disk
<1>3. CASE Promote \/ Forget
  BY <1>3 DEF Promote, Forget, Die, disk
<1>4. ASSUME NEW r \in Readers, StartRead(r) \/ EndRead(r) PROVE files' = files
  BY <1>4 DEF StartRead, EndRead, disk
<1>5. CASE SyncStep
  BY <1>5 DEF SyncStep, ActivationStep, StartSync, NoUpdate, Stage, Rename, SetPending, Open, Swap,
              Retire, Commit, Clear, Unpend, Drop, Settle, Cleanup, disk
<1> QED BY <1>1, <1>2, <1>3, <1>4, <1>5 DEF Next, Crash

(* The activation starts with both temporary files, keeps the archive until *)
(* Sync returns, and the process has none between synchronizations.        *)
LEMMA TempStep ==
    ASSUME StoreInv, FetchTypeOK, FetchInv, TempInv, [FetchNext]_allVars PROVE TempInv'
<1>1. CASE UNCHANGED allVars
  BY <1>1 DEF allVars, fetchVars, vars, syncVars, TempInv
<1>2. CASE ProcessStep
  <2>1. UNCHANGED temps /\ syncPc' \in {syncPc, "idle"} /\ (syncPc' = syncPc \/ syncPc = "idle")
    BY <1>2 DEF ProcessStep, fetchVars, Build, Promote, Forget, Die, Return, GoTo, StopSync,
                CloseStore, CloseRuntime, StartRead, EndRead, syncVars, StoreInv, AppInv
  <2> QED BY <2>1 DEF TempInv
<1>3. CASE CrashFetch \/ GiveUp \/ Break \/ Cancel
  BY <1>3 DEF CrashFetch, GiveUp, Break, Cancel, EndFetch, TempInv
<1>4. CASE BeginFetch \/ StageFetched
  BY <1>4 DEF BeginFetch, StartSync, StageFetched, Stage, GoTo, TempInv
<1>5. CASE Activate
  <2>1. syncPc \in {"staged"} => syncPc' \in {"named", "idle"}
    BY <1>5 DEF Activate, ActivationStep, Rename, SetPending, Open, Swap, Retire, Commit, Clear,
                Unpend, Drop, Settle, Cleanup, Return, GoTo
  <2>2. syncPc \notin {"idle", "fetch"}
    BY <1>5 DEF Activate, ActivationStep, Rename, SetPending, Open, Swap, Retire, Commit, Clear,
                Unpend, Drop, Settle, Cleanup
  <2> QED BY <1>5, <2>1, <2>2 DEF Activate, Remaining, FetchTypeOK, TempInv
<1>6. CASE \E next \in FetchSteps : Advance(next) /\ step # "none"
  <2>1. syncPc = "fetch" /\ syncPc' = syncPc
    BY <1>6 DEF Advance, vars, syncVars, FetchInv
  <2> QED BY <2>1 DEF TempInv
<1>7. CASE /\ \/ Check \/ Respond \/ Receive \/ CreateArchive \/ Received \/ VerifySHA256
              \/ CreateDatabase \/ Unpack \/ Measure \/ ValidateDatabase
           /\ ~GiveUp
  <2>1. \E next \in FetchSteps : Advance(next) /\ step # "none"
    BY <1>7 DEF Check, Respond, Receive, CreateArchive, Received, VerifySHA256, CreateDatabase,
                Unpack, Measure, ValidateDatabase, FetchSteps
  <2> QED BY <1>6, <2>1
<1> QED BY <1>1, <1>2, <1>3, <1>4, <1>5, <1>7 DEF FetchNext, LocalStep

(* A lapse pays for two files: one the keys lose sight of and one          *)
(* temporary file, or two temporary files.                                 *)
LEMMA RoomStep ==
    ASSUME StepInv, FetchTypeOK, FetchInv, TempInv, RoomInv, [FetchNext]_allVars PROVE RoomInv'
<1> USE DEF RoomInv
<1>1. IsFiniteSet(files')
  BY FetchStep, OneFileMore, OneMore DEF StepInv
<1>2. IsFiniteSet(Loose) /\ {strays, lapses} \subseteq Nat
  BY NoMore DEF Loose, FetchTypeOK
<1>3. ASSUME Loose' \subseteq Loose, UNCHANGED <<strays, lapses>> PROVE RoomInv'
  BY <1>1, <1>2, <1>3, NoMore
<1>4. CASE UNCHANGED allVars \/ ProcessStep
  <2>1. UNCHANGED <<strays, lapses>>
    BY <1>4 DEF allVars, fetchVars, ProcessStep
  <2>2. CASE UNCHANGED allVars
    BY <1>3, <2>1, <2>2, LooseClose DEF allVars
  <2>3. CASE ProcessStep
    <3>1. CASE (Promote \/ Forget) /\ Die
      <4>1. syncPc = "idle"
        BY <3>1 DEF Promote, Forget, StepInv, StoreInv, AppInv
      <4> QED BY <1>3, <2>1, <3>1, <4>1, LooseDie
    <3>2. CASE Build \/ ((Promote \/ Forget) /\ ~Die)
      BY <1>3, <2>1, <3>2, LooseBuild
    <3>3. CASE \/ StopSync \/ CloseStore \/ CloseRuntime
               \/ \E r \in Readers : StartRead(r) \/ EndRead(r)
      BY <1>3, <2>1, <3>3, LooseClose
    <3> QED BY <2>3, <3>1, <3>2, <3>3 DEF ProcessStep
  <2> QED BY <1>4, <2>2, <2>3
<1>5. CASE CrashFetch
  <2>1. Die /\ strays' = strays + Cardinality(temps)
    BY <1>5 DEF CrashFetch, Crash
  <2>2. CASE syncPc = "idle"
    <3>1. Cardinality(temps) = 0 /\ lapses' = lapses
      BY <1>5, <2>2, FewTemps DEF CrashFetch, TempInv
    <3>2. Loose' \subseteq Loose
      BY <2>1, <2>2, LooseDie
    <3> QED BY <1>2, <1>3, <2>1, <3>1, <3>2
  <2>3. CASE syncPc \in {"fetch", "staged"}
    <3>1. lapses' = lapses + 1 /\ Cardinality(temps) \in Nat /\ Cardinality(temps) <= 2
      BY <1>5, <2>3, FewTemps DEF CrashFetch
    <3>2. Loose' \subseteq Loose
      BY <2>1, <2>3, LooseDie
    <3>3. Cardinality(Loose') \in Nat /\ Cardinality(Loose) \in Nat
          /\ Cardinality(Loose') <= Cardinality(Loose)
      BY <1>2, <3>2, NoMore
    <3> QED BY <1>1, <1>2, <2>1, <3>1, <3>3
  <2>4. CASE syncPc \notin {"idle", "fetch", "staged"}
    <3>1. lapses' = lapses + 1 /\ Cardinality(temps) \in Nat /\ Cardinality(temps) <= 1
      BY <1>5, <2>4, FewTemps DEF CrashFetch, TempInv
    <3>2. PICK f : Loose' \subseteq Loose \cup {f}
      BY <2>1, LooseDie
    <3>3. Cardinality(Loose') \in Nat /\ Cardinality(Loose) \in Nat
          /\ Cardinality(Loose') <= Cardinality(Loose) + 1
      BY <1>2, <3>2, OneMore
    <3> QED BY <1>1, <1>2, <2>1, <3>1, <3>3
  <2> QED BY <2>2, <2>3, <2>4
<1>6. CASE Activate
  <2>1. SyncStep /\ UNCHANGED strays
    BY <1>6 DEF Activate, SyncStep
  <2>2. CASE Lapsed
    <3>1. lapses' = lapses + 1
      BY <1>6, <2>2 DEF Activate
    <3>2. PICK f : Loose' \subseteq Loose \cup {f}
      BY <2>1, LooseSync
    <3>3. Cardinality(Loose') \in Nat /\ Cardinality(Loose) \in Nat
          /\ Cardinality(Loose') <= Cardinality(Loose) + 1
      BY <1>2, <3>2, OneMore
    <3> QED BY <1>1, <1>2, <2>1, <3>1, <3>3
  <2>3. CASE ~Lapsed
    <3>1. UNCHANGED lapses
      BY <1>6, <2>3 DEF Activate
    <3>2. Loose' \subseteq Loose
      BY <2>1, <2>3, LooseSync
    <3> QED BY <1>3, <2>1, <3>1, <3>2
  <2> QED BY <2>2, <2>3
<1>7. ASSUME StartSync \/ NoUpdate \/ \E f \in Files : Stage(f),
             UNCHANGED <<app, storeClosed, reading, strays, lapses>>
      PROVE  RoomInv'
  <2>1. SyncStep /\ ~Lapsed
    BY <1>7 DEF SyncStep, Lapsed, StartSync, NoUpdate, Stage, history
  <2>2. Loose' \subseteq Loose
    BY <2>1, LooseSync
  <2> QED BY <1>3, <1>7, <2>2
<1>8. CASE BeginFetch \/ StageFetched
  BY <1>7, <1>8 DEF BeginFetch, StageFetched
<1>9. CASE GiveUp \/ Break \/ Cancel
  BY <1>7, <1>9 DEF GiveUp, Break, Cancel, EndFetch
<1>10. CASE \E next \in FetchSteps : Advance(next)
  <2>1. UNCHANGED vars /\ UNCHANGED <<strays, lapses>>
    BY <1>10 DEF Advance
  <2> QED BY <1>3, <2>1, LooseClose
<1>11. CASE /\ \/ Check \/ Respond \/ Receive \/ CreateArchive \/ Received \/ VerifySHA256
               \/ CreateDatabase \/ Unpack \/ Measure \/ ValidateDatabase
            /\ ~GiveUp
  <2>1. \E next \in FetchSteps : Advance(next)
    BY <1>11 DEF Check, Respond, Receive, CreateArchive, Received, VerifySHA256, CreateDatabase,
                 Unpack, Measure, ValidateDatabase, FetchSteps
  <2> QED BY <1>10, <2>1
<1> QED BY <1>4, <1>5, <1>6, <1>8, <1>9, <1>11 DEF FetchNext, LocalStep

(* However many synchronizations succeed or fail, what piles up on disk is *)
(* at most two files for each death in the middle of one and each failure  *)
(* after which the code removes nothing.                                   *)
THEOREM DiskStaysBounded == FetchSpec => []DiskIsBounded
<1>1. FetchInit => RoomInv /\ TempInv
  <2>1. FetchInit => files = {} /\ strays = 0 /\ lapses = 0 /\ syncPc = "idle" /\ temps = {}
    BY DEF FetchInit, Init
  <2>2. files = {} => Loose = {}
    BY DEF Loose
  <2> QED BY <2>1, <2>2, FS_EmptySet DEF RoomInv, TempInv
<1>2. StepInv => StoreInv
  BY DEF StepInv
<1>3. StoreInv /\ FetchTypeOK /\ FetchInv /\ TempInv /\ [FetchNext]_allVars => TempInv'
  BY TempStep
<1>4. StepInv /\ FetchTypeOK /\ FetchInv /\ TempInv /\ RoomInv /\ [FetchNext]_allVars => RoomInv'
  BY RoomStep
<1>5. FetchTypeOK /\ TempInv /\ RoomInv => DiskIsBounded
  <2> SUFFICES ASSUME FetchTypeOK, TempInv, RoomInv PROVE DiskIsBounded
    OBVIOUS
  <2>1. Kept \subseteq {activeKey, pendingKey, current, candidate, previous}
    BY DEF Kept, Held, Target
  <2>2. Orphans \subseteq Loose /\ IsFiniteSet(Loose)
    BY <2>1, NoMore DEF Orphans, Loose, RoomInv
  <2>3. /\ Cardinality(Orphans) \in Nat /\ Cardinality(Loose) \in Nat
        /\ Cardinality(Orphans) <= Cardinality(Loose)
    BY <2>2, NoMore
  <2> QED BY <2>3 DEF DiskIsBounded, RoomInv, TempInv, FetchTypeOK
<1> QED BY <1>1, <1>2, <1>3, <1>4, <1>5, FetchImplements, StepInvariant, FetchTypeCorrect,
           FetchInvariant, PTL DEF FetchSpec

----------------------------------------------------------------------------
(* The length of a synchronization. *)
LEMMA LeftIsNat ==
    ASSUME FetchTypeOK PROVE StepsLeft \in Nat /\ (syncPc = "idle" => StepsLeft = 0)
<1>1. ArchiveLimit \in Nat /\ ArchiveLimit - got \in Nat
  BY LimitsAreNat DEF FetchTypeOK
<1>2. ActivationLeft \in Nat /\ (syncPc = "idle" => ActivationLeft = 0)
  BY DEF ActivationLeft
<1>3. FetchLeft \in Nat
  BY <1>1 DEF FetchLeft
<1> QED BY <1>2, <1>3 DEF StepsLeft

LEMMA ActivationShrinks ==
    ASSUME StoreInv, ActivationStep PROVE StepsLeft' < StepsLeft
<1> USE DEF StepsLeft, ActivationLeft, GoTo, Return
<1>1. CASE Rename \/ SetPending \/ Unpend \/ Drop \/ Settle \/ Cleanup
  BY <1>1 DEF Rename, SetPending, Unpend, Drop, Settle, Cleanup
<1>2. CASE Open \/ Swap \/ Retire
  BY <1>2 DEF Open, Swap, Retire, Undo, locals
<1>3. CASE Commit \/ Clear
  BY <1>3 DEF Commit, Clear, Rollback, Undo
<1> QED BY <1>1, <1>2, <1>3 DEF ActivationStep

LEMMA FetchShrinks ==
    ASSUME FetchTypeOK, FetchInv, Check \/ Respond \/ Receive \/ LocalStep \/ Break \/ Cancel
    PROVE  StepsLeft' < StepsLeft
<1>1. ArchiveLimit \in Nat /\ got \in 0..ArchiveLimit
  BY LimitsAreNat DEF FetchTypeOK
<1>2. step # "none" => syncPc = "fetch"
  BY DEF FetchInv
<1>3. CASE GiveUp \/ Break \/ Cancel
  <2>1. syncPc = "fetch" /\ syncPc' = "idle"
    BY <1>3 DEF GiveUp, Break, Cancel, EndFetch, NoUpdate, Return, GoTo
  <2> QED BY <1>1, <2>1 DEF StepsLeft, FetchLeft, ActivationLeft
<1>4. CASE StageFetched
  <2>1. step = "ready" /\ syncPc = "fetch" /\ syncPc' = "staged"
    BY <1>2, <1>4 DEF StageFetched, Stage, GoTo
  <2> QED BY <2>1 DEF StepsLeft, FetchLeft, ActivationLeft
<1>5. ASSUME NEW next, Advance(next), step # "none"
      PROVE  StepsLeft = FetchLeft /\ StepsLeft' = FetchLeft'
  BY <1>2, <1>5 DEF Advance, vars, syncVars, StepsLeft
<1>6. CASE (Check \/ CreateArchive \/ Received \/ VerifySHA256) /\ ~GiveUp
  BY <1>1, <1>5, <1>6
  DEF Check, CreateArchive, Received, VerifySHA256, Advance, progress, FetchLeft
<1>7. CASE Respond
  <2>1. got = 0 /\ got' = got
    BY <1>7 DEF Respond, FetchInv, Reached
  <2> QED BY <1>1, <1>5, <1>7, <2>1 DEF Respond, Advance, FetchLeft
<1>8. CASE Receive /\ ~GiveUp
  <2>1. got' = got + 1 /\ step = "receive" /\ step' = "receive"
    BY <1>8 DEF Receive, Advance
  <2> QED BY <1>1, <1>5, <1>8, <2>1 DEF Receive, FetchLeft
<1>9. CASE (CreateDatabase \/ Unpack \/ Measure \/ ValidateDatabase) /\ ~GiveUp
  BY <1>1, <1>5, <1>9
  DEF CreateDatabase, Unpack, Measure, ValidateDatabase, Advance, progress, FetchLeft
<1> QED BY <1>3, <1>4, <1>6, <1>7, <1>8, <1>9 DEF LocalStep

LEMMA NobodySetsBack ==
    ASSUME StoreInv, FetchTypeOK, UNCHANGED allVars \/ ProcessStep \/ CrashFetch
    PROVE  StepsLeft' <= StepsLeft
<1>1. StepsLeft \in Nat
  BY LeftIsNat
<1>2. CASE UNCHANGED <<syncPc, rollingBack, step, got>>
  <2>1. StepsLeft' = StepsLeft
    BY <1>2 DEF StepsLeft, FetchLeft, ActivationLeft
  <2> QED BY <1>1, <2>1
<1>3. CASE Die
  <2>1. StepsLeft' = 0
    BY <1>3 DEF Die, Return, GoTo, StepsLeft, ActivationLeft
  <2> QED BY <1>1, <2>1
<1>4. CASE UNCHANGED allVars
  BY <1>2, <1>4 DEF allVars, vars, syncVars, locals, fetchVars, progress
<1>5. CASE ProcessStep
  BY <1>2, <1>3, <1>5
  DEF ProcessStep, Build, Promote, Forget, StopSync, CloseStore, CloseRuntime, StartRead, EndRead,
      syncVars, locals, fetchVars, progress
<1>6. CASE CrashFetch
  BY <1>3, <1>6 DEF CrashFetch, Crash
<1> QED BY <1>4, <1>5, <1>6

(* A synchronization has at most ArchiveLimit + 22 steps, and each of them *)
(* leaves fewer.                                                           *)
THEOREM SyncIsBounded == FetchSpec => SyncIsFinite
<1>1. ASSUME StoreInv, FetchTypeOK, FetchInv, [FetchNext]_allVars
      PROVE  [\/ BeginFetch
              \/ StepsLeft' < StepsLeft
              \/ ~SyncMoves /\ StepsLeft' <= StepsLeft]_allVars
  <2>1. CASE Check \/ Respond \/ Receive \/ LocalStep \/ Break \/ Cancel
    BY <1>1, <2>1, FetchShrinks
  <2>2. CASE Activate
    BY <1>1, <2>2, ActivationShrinks DEF Activate
  <2>3. CASE UNCHANGED allVars \/ ProcessStep \/ CrashFetch
    BY <1>1, <2>1, <2>2, <2>3, NobodySetsBack DEF SyncMoves
  <2> QED BY <1>1, <2>1, <2>2, <2>3 DEF FetchNext
<1> QED BY <1>1, FetchImplements, StoreInvariant, FetchTypeCorrect, FetchInvariant, PTL
        DEF FetchSpec, SyncIsFinite
=============================================================================
