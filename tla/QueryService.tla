---------------------------- MODULE QueryService ----------------------------
(***************************************************************************)
(* query/service: concurrent lookups over a cache and a set of upstream    *)
(* sources, the write-behind queue that stores spam verdicts, and Close.   *)
(*                                                                         *)
(* A lookup is one run of lookupWithMode.  Its steps are the points where  *)
(* another goroutine can get in between: the cache read, the start of the  *)
(* upstream queries, each source's answer, the end of LookupAll, the save  *)
(* and the final choice.  The repository and the sources are external:     *)
(* each call to them ends in any way their callers have to expect.         *)
(***************************************************************************)
EXTENDS SourceSelection, FiniteSets

CONSTANTS
    Lookups,         \* the goroutines that serve requests
    Closers,         \* the goroutines that call Close
    Phones,
    ClientLists,     \* the lists of sources a client may send
    Preloaded,       \* rows an earlier process (or the baseline) left in the cache
    QueueSize,       \* Options.AsyncQueueSize
    SyncWrites,      \* Options.CacheWriteMode = CacheWriteSync
    DisableCache,    \* Options.DisableCache
    SourceOutcomes,  \* the ways a source may answer
    Impatient,       \* the lookups whose contexts may end before they do
    None             \* no value

Rows == Phones \X EnabledSources

(* What a lookup returns. *)
Results == [verdict : {"spam", "clean"}, source : EnabledSources]
             \cup [error : ErrorClasses]

ASSUME QueueSizeAssumption == QueueSize \in Nat \ {0}
ASSUME ModeAssumption == SyncWrites \in BOOLEAN /\ DisableCache \in BOOLEAN
ASSUME ClientListsAssumption == \A list \in ClientLists : list \in Seq(Spellings)
ASSUME PreloadedAssumption == Preloaded \subseteq Rows
ASSUME NoneAssumption == None \notin Lookups \cup Closers \cup Phones \cup Results
ASSUME OutcomesAssumption == SourceOutcomes \subseteq {"spam", "clean"} \cup FailureClasses

VARIABLES
    pc,          \* where each lookup is
    phone,       \* its number
    list,        \* the list of sources it uses, after the fallback
    records,     \* its map of records, by source
    replies,     \* what each source answered it
    clientGone,  \* its request context is canceled
    queryCtx,    \* the context of its upstream queries
    answer,      \* what it returned
    stored,      \* rows of the runtime repository: spam verdicts only
    queue,       \* asyncSaveCh: the buffered batches
    chClosed,    \* asyncSaveCh is closed
    writer,      \* where asyncWriter is
    inHand,      \* the batch it is saving
    closed,      \* Service.closed
    readers,     \* lookups that hold saveMu for reading
    locker,      \* the closer that holds saveMu for writing
    once,        \* closeOnce
    closerPc,    \* where each call of Close is
    panicked,    \* a closed channel was sent to or closed again
    reported,    \* history: the rows some source ever reported as spam
    knownAtStart,\* history: what the repository held when the lookup began
    cacheRead    \* history: how the lookup's cache read ended

lookupVars  == <<pc, phone, list, records, replies, clientGone, queryCtx, answer>>
queueVars   == <<queue, chClosed, writer, inHand>>
closeVars   == <<closed, readers, locker, once, closerPc>>
historyVars == <<reported, knownAtStart, cacheRead>>
vars == <<lookupVars, stored, queueVars, closeVars, panicked, historyVars>>

----------------------------------------------------------------------------
Replies == {"none", "pending", "spam", "clean"} \cup FailureClasses

Answers == {None} \cup Results

LookupStates == {"idle", "cache", "decide", "await", "sync_save", "rlock",
                 "check", "send", "select", "done"}

NoReplies == [s \in EnabledSources |-> "none"]

Failures(l) == {replies[l][s] : s \in EnabledSources} \cap FailureClasses

(* Defect: every source that was asked is saved, whatever it answered. *)
AskedRows(l) == {<<phone[l], s>> : s \in {t \in EnabledSources : replies[l][t] # "none"}}

(* The spam records of lookup l that came from upstream: what it saves. *)
SpamRows(l) == {<<phone[l], s>> : s \in {t \in EnabledSources : replies[l][t] = "spam"}}

Init ==
    /\ pc = [l \in Lookups |-> "idle"]
    /\ phone = [l \in Lookups |-> None]
    /\ list = [l \in Lookups |-> DefaultList]
    /\ records = [l \in Lookups |-> NoRecords]
    /\ replies = [l \in Lookups |-> NoReplies]
    /\ clientGone = [l \in Lookups |-> FALSE]
    /\ queryCtx = [l \in Lookups |-> "none"]
    /\ answer = [l \in Lookups |-> None]
    /\ stored = Preloaded
    /\ queue = <<>>
    /\ chClosed = FALSE
    /\ writer = IF SyncWrites THEN "absent" ELSE "recv"
    /\ inHand = {}
    /\ closed = FALSE
    /\ readers = {}
    /\ locker = None
    /\ once = "new"
    /\ closerPc = [c \in Closers |-> "idle"]
    /\ panicked = FALSE
    /\ reported = {}
    /\ knownAtStart = [l \in Lookups |-> {}]
    /\ cacheRead = [l \in Lookups |-> "none"]

----------------------------------------------------------------------------
(* A lookup.  The slot of a lookup that has returned serves the next one.  *)

(* Lookup (the default list) or LookupWithSources (a list of the client). *)
Begin(l, p, requested) ==
    /\ pc[l] \in {"idle", "done"}
    /\ phone' = [phone EXCEPT ![l] = p]
    /\ list' = [list EXCEPT ![l] = EffectiveList(requested)]
    /\ pc' = [pc EXCEPT ![l] = IF DisableCache THEN "decide" ELSE "cache"]
    /\ records' = [records EXCEPT ![l] = NoRecords]
    /\ replies' = [replies EXCEPT ![l] = NoReplies]
    /\ clientGone' = [clientGone EXCEPT ![l] = FALSE]
    /\ queryCtx' = [queryCtx EXCEPT ![l] = "none"]
    /\ answer' = [answer EXCEPT ![l] = None]
    /\ knownAtStart' = [knownAtStart EXCEPT ![l] = {r \in stored : r[1] = p}]
    /\ cacheRead' = [cacheRead EXCEPT ![l] = "none"]
    /\ UNCHANGED <<stored, queueVars, closeVars, panicked, reported>>

(* The sources this lookup may use. *)
Used(l) == {NameAt(list[l], i) : i \in Enabled(list[l])}

(* listCached: the rows of this number whose source the lookup may use.    *)
(* A statement under a canceled context fails.                             *)
Cached(l) ==
    [s \in EnabledSources |->
        IF s \in Used(l) /\ <<phone[l], s>> \in stored THEN "spam" ELSE "none"]

ReadCache(l) ==
    /\ pc[l] = "cache"
    /\ ~clientGone[l]
    /\ records' = [records EXCEPT ![l] = Cached(l)]
    /\ cacheRead' = [cacheRead EXCEPT ![l] = "ok"]
    /\ pc' = [pc EXCEPT ![l] = "decide"]
    /\ UNCHANGED <<phone, list, replies, clientGone, queryCtx, answer, stored, queueVars,
                   closeVars, panicked, reported, knownAtStart>>

(* Any error of the cache other than not found is logged and passed over. *)
CacheFails(l) ==
    /\ pc[l] = "cache"
    /\ cacheRead' = [cacheRead EXCEPT ![l] = "error"]
    /\ pc' = [pc EXCEPT ![l] = "decide"]
    /\ UNCHANGED <<phone, list, records, replies, clientGone, queryCtx, answer, stored,
                   queueVars, closeVars, panicked, reported, knownAtStart>>

Return(l, result) ==
    /\ answer' = [answer EXCEPT ![l] = result]
    /\ pc' = [pc EXCEPT ![l] = "done"]

RecordOf(l) ==
    LET source == Selected(list[l], records[l])
    IN  [verdict |-> records[l][source], source |-> source]

AnswerFromCache(l) ==
    /\ pc[l] = "decide"
    /\ Ready(list[l], records[l])
    /\ Return(l, RecordOf(l))
    /\ UNCHANGED <<phone, list, records, replies, clientGone, queryCtx, stored, queueVars,
                   closeVars, panicked, historyVars>>

(* The query context is derived from the request's: LookupAll starts one   *)
(* goroutine for each missing source.                                      *)
Dispatch(l) ==
    /\ pc[l] = "decide"
    /\ ~Ready(list[l], records[l])
    /\ queryCtx' = [queryCtx EXCEPT ![l] = IF clientGone[l] THEN "canceled" ELSE "live"]
    /\ replies' = [replies EXCEPT ![l] =
            [s \in EnabledSources |->
                IF s \in Missing(list[l], records[l]) THEN "pending" ELSE "none"]]
    /\ pc' = [pc EXCEPT ![l] = "await"]
    /\ UNCHANGED <<phone, list, records, clientGone, answer, stored, queueVars, closeVars,
                   panicked, historyVars>>

(* One source answers.  "canceled" needs a canceled context; a timeout may *)
(* also be the transport's own.                                            *)
Reply(l, s, outcome) ==
    /\ pc[l] = "await"
    /\ replies[l][s] = "pending"
    /\ outcome = "canceled" => queryCtx[l] = "canceled"
    /\ replies' = [replies EXCEPT ![l][s] = outcome]
    /\ reported' = IF outcome = "spam" THEN reported \cup {<<phone[l], s>>} ELSE reported
    /\ UNCHANGED <<pc, phone, list, records, clientGone, queryCtx, answer, stored, queueVars,
                   closeVars, panicked, knownAtStart, cacheRead>>

Saves(l) == SpamRows(l) # {} /\ ~DisableCache

(* LookupAll returns once every goroutine has.  The answers become records *)
(* and the spam ones are handed to saveRecords.                            *)
Collect(l) ==
    /\ pc[l] = "await"
    /\ \A s \in EnabledSources : replies[l][s] # "pending"
    /\ records' = [records EXCEPT ![l] =
            [s \in EnabledSources |->
                IF replies[l][s] \in {"spam", "clean"} THEN replies[l][s] ELSE records[l][s]]]
    /\ pc' = [pc EXCEPT ![l] =
            IF ~Saves(l) THEN "select" ELSE IF SyncWrites THEN "sync_save" ELSE "rlock"]
    /\ UNCHANGED <<phone, list, replies, clientGone, queryCtx, answer, stored, queueVars,
                   closeVars, panicked, historyVars>>

(* SaveBatch of the repository: an upsert by number and source, in one     *)
(* transaction.                                                            *)
Upsert(rows) == stored \cup rows

(* saveRecords in the synchronous mode: one transaction under the context  *)
(* of the request (not of the upstream queries), whose error is only       *)
(* logged.                                                                 *)
SyncSave(l) ==
    /\ pc[l] = "sync_save"
    /\ ~clientGone[l]
    /\ stored' = Upsert(SpamRows(l))
    /\ pc' = [pc EXCEPT ![l] = "select"]
    /\ UNCHANGED <<phone, list, records, replies, clientGone, queryCtx, answer, queueVars,
                   closeVars, panicked, historyVars>>

SyncSaveFails(l) ==
    /\ pc[l] = "sync_save"
    /\ pc' = [pc EXCEPT ![l] = "select"]
    /\ UNCHANGED <<phone, list, records, replies, clientGone, queryCtx, answer, stored,
                   queueVars, closeVars, panicked, historyVars>>

----------------------------------------------------------------------------
(* enqueueSave, under the read lock of saveMu.  A closer that waits for    *)
(* the write lock keeps new readers out, as sync.RWMutex does.             *)

(* Defect: Close keeps the lock while it waits for the writer. *)
CanRLockAfterWait ==
    locker = None /\ \A c \in Closers : closerPc[c] \notin {"lock", "wait"}

CanRLock == locker = None /\ \A c \in Closers : closerPc[c] # "lock"

RLock(l) ==
    /\ pc[l] = "rlock"
    /\ CanRLock
    /\ readers' = readers \cup {l}
    /\ pc' = [pc EXCEPT ![l] = "check"]
    /\ UNCHANGED <<phone, list, records, replies, clientGone, queryCtx, answer, stored,
                   queueVars, closed, locker, once, closerPc, panicked, historyVars>>

CheckClosed(l) ==
    /\ pc[l] = "check"
    /\ IF closed
       THEN readers' = readers \ {l} /\ pc' = [pc EXCEPT ![l] = "select"]
       ELSE readers' = readers /\ pc' = [pc EXCEPT ![l] = "send"]
    /\ UNCHANGED <<phone, list, records, replies, clientGone, queryCtx, answer, stored,
                   queueVars, closed, locker, once, closerPc, panicked, historyVars>>

HasRoom == Len(queue) < QueueSize

(* The send never blocks: a full queue drops the batch. *)
Send(l) ==
    /\ pc[l] = "send"
    /\ panicked' = (panicked \/ chClosed)
    /\ queue' = IF ~chClosed /\ HasRoom
                THEN Append(queue, SpamRows(l)) ELSE queue
    /\ readers' = readers \ {l}
    /\ pc' = [pc EXCEPT ![l] = "select"]
    /\ UNCHANGED <<phone, list, records, replies, clientGone, queryCtx, answer, stored,
                   chClosed, writer, inHand, closed, locker, once, closerPc, historyVars>>

(* The end of lookupWithMode. *)
Finish(l) ==
    /\ pc[l] = "select"
    /\ Return(l, IF Available(list[l], records[l])
                 THEN RecordOf(l)
                 ELSE [error |-> LookupError(queryCtx[l], Failures(l))])
    /\ UNCHANGED <<phone, list, records, replies, clientGone, queryCtx, stored, queueVars,
                   closeVars, panicked, historyVars>>

(* The client disconnects; the two-second query timeout fires. *)
ClientLeaves(l) ==
    /\ l \in Impatient
    /\ pc[l] \notin {"idle", "done"}
    /\ ~clientGone[l]
    /\ clientGone' = [clientGone EXCEPT ![l] = TRUE]
    /\ queryCtx' = [queryCtx EXCEPT ![l] = IF @ = "live" THEN "canceled" ELSE @]
    /\ UNCHANGED <<pc, phone, list, records, replies, answer, stored, queueVars, closeVars,
                   panicked, historyVars>>

QueryTimeout(l) ==
    /\ l \in Impatient
    /\ pc[l] \notin {"idle", "done"}
    /\ queryCtx[l] = "live"
    /\ queryCtx' = [queryCtx EXCEPT ![l] = "deadline"]
    /\ UNCHANGED <<pc, phone, list, records, replies, clientGone, answer, stored, queueVars,
                   closeVars, panicked, historyVars>>

----------------------------------------------------------------------------
(* asyncWriter *)

Receive ==
    /\ writer = "recv"
    /\ queue # <<>>
    /\ inHand' = Head(queue)
    /\ queue' = Tail(queue)
    /\ writer' = "saving"
    /\ UNCHANGED <<lookupVars, stored, chClosed, closeVars, panicked, historyVars>>

(* Defect: the writer ends at the first batch it cannot save. *)
StopsOnFailure == "exited"

AfterFailure == "recv"

(* saveSafe: an error is logged and a panic is recovered; either way the   *)
(* writer goes on with the next batch.                                     *)
SaveBatch ==
    /\ writer = "saving"
    /\ stored' = Upsert(inHand)
    /\ inHand' = {}
    /\ writer' = "recv"
    /\ UNCHANGED <<lookupVars, queue, chClosed, closeVars, panicked, historyVars>>

SaveBatchFails ==
    /\ writer = "saving"
    /\ inHand' = {}
    /\ writer' = AfterFailure
    /\ UNCHANGED <<lookupVars, stored, queue, chClosed, closeVars, panicked, historyVars>>

(* Defect: the writer stops as soon as the channel is closed. *)
ClosedUndrained == chClosed

(* A range over a channel ends when it is closed and empty. *)
Drained == queue = <<>> /\ chClosed

WriterExit ==
    /\ writer = "recv"
    /\ Drained
    /\ writer' = "exited"
    /\ UNCHANGED <<lookupVars, stored, queue, chClosed, inHand, closeVars, panicked,
                   historyVars>>

----------------------------------------------------------------------------
(* Close, by several goroutines: sync.Once runs it in the first of them    *)
(* and holds the others until it has ended.                                *)

CallClose(c) ==
    /\ closerPc[c] = "idle"
    /\ IF once = "new"
       THEN once' = "running" /\ closerPc' = [closerPc EXCEPT ![c] = "lock"]
       ELSE once' = once /\ closerPc' = [closerPc EXCEPT ![c] = "once"]
    /\ UNCHANGED <<lookupVars, stored, queueVars, closed, readers, locker, panicked,
                   historyVars>>

(* Defect: an exclusive lock of its own, that readers do not take. *)
CanLockOverReaders == locker = None

CanLock == readers = {} /\ locker = None

LockForClose(c) ==
    /\ closerPc[c] = "lock"
    /\ CanLock
    /\ locker' = c
    /\ closerPc' = [closerPc EXCEPT ![c] = "closing"]
    /\ UNCHANGED <<lookupVars, stored, queueVars, closed, readers, once, panicked,
                   historyVars>>

(* Defect: only the flag is set. *)
LeavesChannelOpen == FALSE

ClosesChannel == ~SyncWrites

(* The body under the lock, to the Unlock; without a writer there is no    *)
(* channel to close and nothing to wait for.                               *)
CloseChannel(c) ==
    /\ closerPc[c] = "closing"
    /\ closed' = TRUE
    /\ chClosed' = (chClosed \/ ClosesChannel)
    /\ panicked' = (panicked \/ (chClosed /\ ClosesChannel))
    /\ locker' = None
    /\ closerPc' = [closerPc EXCEPT ![c] = IF SyncWrites THEN "end" ELSE "wait"]
    /\ UNCHANGED <<lookupVars, stored, queue, writer, inHand, readers, once, historyVars>>

WaitWriter(c) ==
    /\ closerPc[c] = "wait"
    /\ writer = "exited"
    /\ closerPc' = [closerPc EXCEPT ![c] = "end"]
    /\ UNCHANGED <<lookupVars, stored, queueVars, closed, readers, locker, once, panicked,
                   historyVars>>

ReturnClose(c) ==
    /\ \/ closerPc[c] = "end" /\ once' = "done"
       \/ closerPc[c] = "once" /\ once = "done" /\ once' = once
    /\ closerPc' = [closerPc EXCEPT ![c] = "returned"]
    /\ UNCHANGED <<lookupVars, stored, queueVars, closed, readers, locker, panicked,
                   historyVars>>

----------------------------------------------------------------------------
Requested == ClientLists \cup {DefaultList}

LookupStep(l) ==
    \/ ReadCache(l) \/ CacheFails(l)
    \/ AnswerFromCache(l) \/ Dispatch(l) \/ Collect(l)
    \/ SyncSave(l) \/ SyncSaveFails(l)
    \/ RLock(l) \/ CheckClosed(l) \/ Send(l)
    \/ Finish(l)

SourceStep(l, s) == \E outcome \in SourceOutcomes : Reply(l, s, outcome)

WriterStep == Receive \/ SaveBatch \/ SaveBatchFails \/ WriterExit

CloserStep(c) == LockForClose(c) \/ CloseChannel(c) \/ WaitWriter(c) \/ ReturnClose(c)

ClientStep(l) ==
    \/ \E p \in Phones, requested \in Requested : Begin(l, p, requested)
    \/ ClientLeaves(l)
    \/ QueryTimeout(l)

Next ==
    \/ \E l \in Lookups : ClientStep(l) \/ LookupStep(l)
    \/ \E l \in Lookups, s \in EnabledSources : SourceStep(l, s)
    \/ WriterStep
    \/ \E c \in Closers : CallClose(c) \/ CloserStep(c)

Spec == Init /\ [][Next]_vars

(* Goroutines that can run do run; a source answers because its request    *)
(* carries the query context, whose timeout always fires.  Nothing obliges *)
(* a client to ask or to leave, or anyone to call Close, and a save in the *)
(* background may hang for ever: that it does not is assumed only by the   *)
(* properties that need it.                                                *)
StuckWriterFairness ==
    /\ \A l \in Lookups : WF_vars(LookupStep(l))
    /\ \A l \in Lookups, s \in EnabledSources : WF_vars(SourceStep(l, s))
    /\ \A c \in Closers : WF_vars(CloserStep(c))

StuckWriterSpec == Spec /\ StuckWriterFairness

WriterRuns == WF_vars(WriterStep)

----------------------------------------------------------------------------
(* Every variable stays within the values its Go type and the code allow;  *)
(* the queue never exceeds the capacity of the channel.                    *)
TypeOK ==
    /\ pc \in [Lookups -> LookupStates]
    /\ phone \in [Lookups -> Phones \cup {None}]
    /\ list \in [Lookups -> Requested]
    /\ records \in [Lookups -> [EnabledSources -> Verdicts]]
    /\ replies \in [Lookups -> [EnabledSources -> Replies]]
    /\ clientGone \in [Lookups -> BOOLEAN]
    /\ queryCtx \in [Lookups -> {"none", "live", "deadline", "canceled"}]
    /\ answer \in [Lookups -> Answers]
    /\ stored \subseteq Rows
    /\ queue \in Seq(SUBSET Rows) /\ Len(queue) <= QueueSize
    /\ chClosed \in BOOLEAN
    /\ writer \in {"absent", "recv", "saving", "exited"}
    /\ inHand \subseteq Rows
    /\ closed \in BOOLEAN
    /\ readers \subseteq Lookups
    /\ locker \in Closers \cup {None}
    /\ once \in {"new", "running", "done"}
    /\ closerPc \in [Closers -> {"idle", "once", "lock", "closing", "wait", "end", "returned"}]
    /\ panicked \in BOOLEAN
    /\ reported \subseteq Rows
    /\ knownAtStart \in [Lookups -> SUBSET Rows]
    /\ cacheRead \in [Lookups -> {"none", "ok", "error"}]

(* The closer that is inside closeOnce, from the lock to the last wait. *)
InOnce(c) == closerPc[c] \in {"lock", "closing", "wait", "end"}

(* What keeps Close and the lookups apart, in the parts an inductive       *)
(* argument needs.                                                         *)
LockInv ==
    /\ readers = {l \in Lookups : pc[l] \in {"check", "send"}}
    /\ \A c \in Closers : closerPc[c] = "closing" <=> locker = c
    /\ locker # None => readers = {}

OnceInv ==
    /\ \A c, d \in Closers : InOnce(c) /\ InOnce(d) => c = d
    /\ (\E c \in Closers : InOnce(c)) => once = "running"
    /\ once = "new" => ~closed
    /\ \A c \in Closers : closerPc[c] \in {"lock", "closing"} => ~closed
    /\ \A c \in Closers : closerPc[c] = "returned" => once = "done"

ChannelInv ==
    /\ chClosed = (closed /\ ~SyncWrites)
    /\ \A l \in Lookups : pc[l] = "send" => ~closed
    /\ ~panicked

DrainInv ==
    /\ inHand # {} => writer = "saving"
    /\ writer = "exited" => chClosed /\ queue = <<>>
    /\ \A c \in Closers : closerPc[c] = "wait" => ~SyncWrites
    /\ \A c \in Closers : closerPc[c] = "end" => SyncWrites \/ writer = "exited"
    /\ once = "done" => SyncWrites \/ writer = "exited"

CloseInv == LockInv /\ OnceInv /\ ChannelInv /\ DrainInv

(* closeOnce is busy only while somebody is inside, and who waits for the  *)
(* writer has told it to end.                                              *)
BusyInv ==
    /\ once = "running" => \E c \in Closers : InOnce(c)
    /\ once = "new" => \A c \in Closers : closerPc[c] = "idle"
    /\ \A c \in Closers : closerPc[c] = "wait" => closed
    /\ ~SyncWrites => writer # "absent"

(* The goroutines that wait for nobody but a source or the repository.     *)
LookupRuns(l) == pc[l] \in LookupStates \ {"idle", "done", "rlock"}

CloserRuns(c) ==
    \/ closerPc[c] \in {"closing", "end"}
    \/ closerPc[c] = "lock" /\ CanLock

WriterRunsOn == writer = "saving" \/ (writer = "recv" /\ (queue # <<>> \/ chClosed))

(* saveMu, closeOnce and the wait for the writer never form a circle: a    *)
(* closer waits for lookups that hold the read lock and run, or for the    *)
(* writer, which the closed channel lets run to its end; a lookup waits    *)
(* for such a closer that has not got to the wait yet; and a second closer *)
(* waits for one that is inside (service.go Close, async_writer.go).       *)
WaitsAreGrounded ==
    /\ \A l \in Lookups : pc[l] = "rlock" =>
          \/ CanRLock
          \/ \E c \in Closers : CloserRuns(c)
          \/ \E k \in readers : LookupRuns(k)
    /\ \A c \in Closers :
          /\ closerPc[c] = "lock" => CanLock \/ \E k \in readers : LookupRuns(k)
          /\ closerPc[c] = "wait" => writer = "exited" \/ WriterRunsOn
          /\ closerPc[c] = "once" => once = "done" \/ \E d \in Closers : InOnce(d)

(* The queue is never sent to after it is closed and never closed twice,   *)
(* whatever lookups are in flight when Close is called: either would end   *)
(* the process (async_writer.go enqueueSave against service.go Close).     *)
NoChannelPanic == ~panicked

(* When a call of Close has returned, the first or any other, the writer   *)
(* has stopped and every batch that was accepted has been tried: the       *)
(* caller may close the repository (service.go Close, wg.Wait).            *)
CloseDrains ==
    \A c \in Closers : closerPc[c] = "returned" /\ ~SyncWrites =>
        writer = "exited" /\ queue = <<>> /\ inHand = {}

Answered(l) == pc[l] = "done"

HasVerdict(l) == Answered(l) /\ "verdict" \in DOMAIN answer[l]

(* An answer never skips a source of higher priority: before a spam        *)
(* verdict is returned, every source placed before its own has itself      *)
(* answered or failed in this lookup without reporting spam, and a clean   *)
(* verdict is returned only when all sources have (selection.go).          *)
NoSourceSkipped ==
    \A l \in Lookups : HasVerdict(l) =>
        \A i, j \in Enabled(list[l]) :
            /\ NameAt(list[l], j) = answer[l].source
            /\ i < j \/ answer[l].verdict = "clean"
            => replies[l][NameAt(list[l], i)] \in {"clean"} \cup FailureClasses

(* What the repository held when a lookup began counts, unless the read    *)
(* failed: the lookup ends with a spam verdict of that source or of one    *)
(* before it, even though writers and other lookups go on meanwhile.       *)
StickySpam ==
    \A l \in Lookups : Answered(l) /\ cacheRead[l] = "ok" =>
        \A i \in Enabled(list[l]) : <<phone[l], NameAt(list[l], i)>> \in knownAtStart[l] =>
            /\ HasVerdict(l)
            /\ answer[l].verdict = "spam"
            /\ \E j \in Enabled(list[l]) : j <= i /\ NameAt(list[l], j) = answer[l].source

(* A source whose verdict was stored before the lookup began is not asked  *)
(* again, nor any source placed behind it when it stands first: the cache  *)
(* spares the upstream quota.                                              *)
KnownSourceNotAsked ==
    \A l \in Lookups : cacheRead[l] = "ok" =>
        \A s \in EnabledSources :
            /\ <<phone[l], s>> \in knownAtStart[l]
            /\ \E i \in Enabled(list[l]) : NameAt(list[l], i) = s
            => /\ replies[l][s] = "none"
               /\ s = NameAt(list[l], First(Enabled(list[l]))) => replies[l] = NoReplies

(* Only what a source reported as spam is ever queued, stored or answered  *)
(* as spam, for the number it was reported for; with the cache disabled    *)
(* nothing is stored at all.                                               *)
OnlyReportedSpam ==
    /\ stored \subseteq Preloaded \cup reported
    /\ DisableCache => stored = Preloaded
    /\ \A k \in DOMAIN queue : queue[k] \subseteq reported
    /\ \A l \in Lookups : HasVerdict(l) /\ answer[l].verdict = "spam" =>
            <<phone[l], answer[l].source>> \in Preloaded \cup reported

(* A lookup fails only when every source it may use has failed in it, and  *)
(* then with an error that tells the client something true: never with     *)
(* ErrNotFound, with "canceled" only when the client has gone, with a rate *)
(* limit exactly when some source was limited.                             *)
TruthfulErrors ==
    \A l \in Lookups : Answered(l) /\ "error" \in DOMAIN answer[l] =>
        /\ \A i \in Enabled(list[l]) : replies[l][NameAt(list[l], i)] \in FailureClasses
        /\ answer[l].error # "not_found"
        /\ answer[l].error = "canceled" => clientGone[l]
        /\ answer[l].error = "rate_limited" <=> "rate_limited" \in Failures(l)

(* What a lookup knows at each of its steps: which source has answered,    *)
(* which record stems from the cache, and that neither is lost.            *)
Gathered == {"sync_save", "rlock", "check", "send", "select"}

RecordInv(l) ==
    /\ pc[l] \in {"idle", "cache", "decide"} =>
          \A s \in EnabledSources : replies[l][s] = "none" /\ records[l][s] # "clean"
    /\ pc[l] = "await" =>
          \A s \in Used(l) : /\ records[l][s] # "clean"
                             /\ replies[l][s] = "none" <=> records[l][s] = "spam"
    /\ pc[l] \in Gathered =>
          \A s \in Used(l) :
              /\ replies[l][s] = "none" => records[l][s] = "spam"
              /\ replies[l][s] \in {"spam", "clean"} => records[l][s] = replies[l][s]
              /\ replies[l][s] \in FailureClasses => records[l][s] = "none"
              /\ replies[l][s] # "pending"

ContextInv(l) ==
    /\ queryCtx[l] = "canceled" => clientGone[l]
    /\ \A s \in EnabledSources : replies[l][s] = "canceled" => clientGone[l]

(* Only sources in use are ever asked, and a known one is not. *)
KnownInv(l) ==
    /\ knownAtStart[l] \subseteq stored
    /\ pc[l] \in {"idle", "cache"} => cacheRead[l] # "ok"
    /\ \A s \in EnabledSources : replies[l][s] # "none" => s \in Used(l)
    /\ cacheRead[l] = "ok" /\ pc[l] # "done" =>
          \A s \in Used(l) : <<phone[l], s>> \in knownAtStart[l] =>
              records[l][s] = "spam" /\ replies[l][s] = "none"

LookupInv == \A l \in Lookups : RecordInv(l) /\ ContextInv(l) /\ KnownInv(l)

(* Every spam verdict anywhere can be traced to a report. *)
ReportInv ==
    /\ stored \subseteq Preloaded \cup reported
    /\ \A k \in DOMAIN queue : queue[k] \subseteq reported
    /\ inHand \subseteq reported
    /\ \A l \in Lookups, s \in EnabledSources :
          /\ replies[l][s] = "spam" => <<phone[l], s>> \in reported
          /\ records[l][s] = "spam" => <<phone[l], s>> \in Preloaded \cup reported
    /\ \A l \in Lookups : HasVerdict(l) /\ answer[l].verdict = "spam" =>
          <<phone[l], answer[l].source>> \in Preloaded \cup reported
    /\ DisableCache => /\ stored = Preloaded /\ queue = <<>> /\ inHand = {}
                       /\ \A l \in Lookups :
                             pc[l] \notin {"sync_save", "rlock", "check", "send"}

(* Every lookup returns, even if the background save hangs: the queue is   *)
(* the only thing the two share, and a full queue drops (async_writer.go). *)
EveryLookupReturns ==
    \A l \in Lookups : pc[l] \notin {"idle", "done"} ~> pc[l] = "done"

(* Close returns when saves do, though lookups go on: none of them can add *)
(* to the queue the writer has to drain (service.go Close).                *)
CloseReturns ==
    WriterRuns => \A c \in Closers : closerPc[c] # "idle" ~> closerPc[c] = "returned"

(* A batch that was accepted is tried when saves return, whether or not    *)
(* Close is called and whatever becomes of the batches before it           *)
(* (async_writer.go asyncWriter, saveSafe).                                *)
AcceptedIsTried ==
    WriterRuns => \A p \in Phones, s \in EnabledSources :
        (\E k \in DOMAIN queue : <<p, s>> \in queue[k]) ~> <<p, s>> \in inHand

----------------------------------------------------------------------------
Ledger == INSTANCE SpamLedger WITH
    Clients <- Lookups, Sources <- EnabledSources, Excuses <- FailureClasses,
    FirstBook <- Preloaded, WritesBook <- ~DisableCache,
    book <- stored, said <- reported, question <- phone, heard <- replies

(* The service keeps the promises of the ledger: through its cache, its    *)
(* queue, the background writer and Close, no stored verdict is lost or    *)
(* made up, nothing is stored with the cache disabled, and every answer    *)
(* follows from the repository or from what the sources said in this       *)
(* lookup (service.go lookupWithMode, async_writer.go).                    *)
ServesTheLedger == Ledger!Spec
=============================================================================
