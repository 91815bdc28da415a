------------------------- MODULE QueryServiceProofs -------------------------
(* Type correctness of QueryService, and the safety of Close against the   *)
(* lookups in flight, for every value of the constants.                    *)
EXTENDS QueryService, WellFoundedInduction, SequenceTheorems, TLAPS

----------------------------------------------------------------------------
(* The choice of a record, for every list of sources and all records.      *)

(* A non-empty set of positions has a first one. *)
LEMMA FirstProperties ==
    ASSUME NEW P, P \subseteq Nat, P # {}
    PROVE  /\ First(P) \in P
           /\ \A j \in P : First(P) <= j
<1>1. \E x \in P : \A y \in P : ~ (<<y, x>> \in OpToRel(<, Nat))
  BY NatLessThanWellFounded, WFMin
<1>2. PICK x \in P : \A y \in P : ~ (<<y, x>> \in OpToRel(<, Nat))
  BY <1>1
<1>3. \A y \in P : x <= y
  <2> TAKE y \in P
  <2>1. ~ (y < x)
    BY <1>2 DEF OpToRel
  <2> QED BY <2>1
<1> QED BY <1>3 DEF First

(* The positions in use are positions of the list, and name enabled        *)
(* sources.                                                                *)
LEMMA EnabledProperties ==
    ASSUME NEW l \in Seq(Spellings)
    PROVE  /\ Enabled(l) \subseteq Nat
           /\ \A i \in Enabled(l) : NameAt(l, i) \in EnabledSources
BY DEF Enabled, Normalized

LEMMA NoRecordsType == NoRecords \in [EnabledSources -> Verdicts]
BY DEF NoRecords, Verdicts

(* What is selected is an enabled source that has a record, and a clean    *)
(* one only when no record is spam (selectAvailableResult).                *)
LEMMA SelectedProperties ==
    ASSUME NEW l \in Seq(Spellings),
           NEW recs \in [EnabledSources -> Verdicts],
           Available(l, recs)
    PROVE  LET s == Selected(l, recs)
           IN  /\ s \in EnabledSources
               /\ recs[s] \in {"spam", "clean"}
               /\ \E i \in Enabled(l) :
                    /\ NameAt(l, i) = s
                    /\ \A j \in Enabled(l) :
                         recs[NameAt(l, j)] = "spam" => recs[s] = "spam" /\ i <= j
<1> DEFINE spam == WithVerdict(l, recs, {"spam"})
           any  == WithVerdict(l, recs, {"spam", "clean"})
           used == IF spam # {} THEN spam ELSE any
<1>1. used \subseteq any /\ any \subseteq Enabled(l) /\ used # {}
  BY DEF Available, WithVerdict
<1>2. First(used) \in used /\ \A j \in used : First(used) <= j
  BY <1>1, EnabledProperties, FirstProperties
<1>3. Selected(l, recs) = NameAt(l, First(used))
  BY DEF Selected
<1> HIDE DEF used
<1>4. First(used) \in any /\ First(used) \in Enabled(l)
  BY <1>1, <1>2
<1>5. recs[NameAt(l, First(used))] \in {"spam", "clean"}
  BY <1>4 DEF any, WithVerdict
<1>6. ASSUME NEW j \in Enabled(l), recs[NameAt(l, j)] = "spam"
      PROVE  recs[NameAt(l, First(used))] = "spam" /\ First(used) <= j
  <2>1. j \in spam
    BY <1>6 DEF WithVerdict
  <2>2. used = spam
    BY <2>1 DEF used
  <2> QED BY <2>1, <2>2, <1>2 DEF WithVerdict
<1> QED BY <1>3, <1>4, <1>5, <1>6, EnabledProperties

----------------------------------------------------------------------------
(* The types of QueryService.                                              *)

LEMMA RequestedType == \A r \in Requested : r \in Seq(Spellings)
BY DefaultListAssumption, ClientListsAssumption DEF Requested

LEMMA EffectiveListType == \A r \in Requested : EffectiveList(r) \in Requested
BY DEF EffectiveList, Requested

LEMMA NoRepliesType == NoReplies \in [EnabledSources -> Replies]
BY DEF NoReplies, Replies

LEMMA LookupErrorType ==
    ASSUME NEW ctx, NEW failures PROVE LookupError(ctx, failures) \in ErrorClasses
BY DEF LookupError, ErrorClasses, FailureClasses

LEMMA CachedType ==
    ASSUME NEW l \in Lookups PROVE Cached(l) \in [EnabledSources -> Verdicts]
BY DEF Cached, Verdicts

(* A lookup that has a record to return returns an answer. *)
LEMMA RecordOfType ==
    ASSUME TypeOK, NEW l \in Lookups, Available(list[l], records[l])
    PROVE  RecordOf(l) \in Answers
<1>1. list[l] \in Seq(Spellings) /\ records[l] \in [EnabledSources -> Verdicts]
  BY RequestedType DEF TypeOK
<1>2. /\ Selected(list[l], records[l]) \in EnabledSources
      /\ records[l][Selected(list[l], records[l])] \in {"spam", "clean"}
  BY <1>1, SelectedProperties
<1> QED BY <1>2 DEF RecordOf, Answers, Results

(* A lookup is ready only when it has a record. *)
LEMMA ReadyIsAvailable ==
    ASSUME NEW lst \in Seq(Spellings), NEW recs \in [EnabledSources -> Verdicts],
           Ready(lst, recs)
    PROVE  Available(lst, recs)
<1>1. ASSUME WithVerdict(lst, recs, {"spam"}) # {} PROVE Available(lst, recs)
  BY <1>1 DEF Available, WithVerdict
<1>2. ASSUME WithVerdict(lst, recs, {"spam"}) = {} PROVE Available(lst, recs)
  <2>1. PICK i \in Enabled(lst) : i \notin WithVerdict(lst, recs, {"none"})
    BY <1>2 DEF Ready
  <2>2. recs[NameAt(lst, i)] \in {"spam", "clean"}
    BY <2>1, EnabledProperties DEF WithVerdict, Verdicts
  <2> QED BY <2>1, <2>2 DEF Available, WithVerdict
<1> QED BY <1>1, <1>2

LEMMA SpamRowsType ==
    ASSUME NEW l \in Lookups, phone[l] \in Phones PROVE SpamRows(l) \subseteq Rows
BY DEF SpamRows, Rows

----------------------------------------------------------------------------
(* A lookup that has begun has a number. *)
PhoneInv == \A l \in Lookups : pc[l] # "idle" => phone[l] \in Phones

TypeInv == TypeOK /\ PhoneInv

LEMMA TypeInit == Init => TypeInv
<1> SUFFICES ASSUME Init PROVE TypeInv
  OBVIOUS
<1>1. PhoneInv
  BY DEF Init, PhoneInv
<1>2. queue \in Seq(SUBSET Rows) /\ Len(queue) <= QueueSize
  BY QueueSizeAssumption, EmptySeq DEF Init
<1>3. DefaultList \in Requested
  BY DEF Requested
<1> QED
  BY <1>1, <1>2, <1>3, NoRecordsType, NoRepliesType, PreloadedAssumption, ModeAssumption
  DEF Init, TypeInv, TypeOK, LookupStates, Answers

LEMMA TypeNext == TypeInv /\ [Next]_vars => TypeInv'
<1> SUFFICES ASSUME TypeInv, [Next]_vars PROVE TypeInv'
  OBVIOUS
<1> USE DEF TypeInv, PhoneInv, TypeOK, LookupStates
<1>1. ASSUME NEW l \in Lookups, NEW p \in Phones, NEW r \in Requested, Begin(l, p, r)
      PROVE TypeInv'
  <2>1. None \in Answers
    BY DEF Answers
  <2> QED
    BY <1>1, <2>1, EffectiveListType, NoRecordsType, NoRepliesType
    DEF Begin, queueVars, closeVars
<1>2. ASSUME NEW l \in Lookups, ClientLeaves(l) PROVE TypeInv'
  BY <1>2 DEF ClientLeaves, queueVars, closeVars, historyVars
<1>3. ASSUME NEW l \in Lookups, QueryTimeout(l) PROVE TypeInv'
  BY <1>3 DEF QueryTimeout, queueVars, closeVars, historyVars
<1>4. ASSUME NEW l \in Lookups, ReadCache(l) PROVE TypeInv'
  BY <1>4, CachedType DEF ReadCache, queueVars, closeVars
<1>5. ASSUME NEW l \in Lookups, CacheFails(l) PROVE TypeInv'
  BY <1>5 DEF CacheFails, queueVars, closeVars
<1>6. ASSUME NEW l \in Lookups, AnswerFromCache(l) PROVE TypeInv'
  <2>1. RecordOf(l) \in Answers
    BY <1>6, RequestedType, ReadyIsAvailable, RecordOfType DEF AnswerFromCache
  <2> QED BY <1>6, <2>1 DEF AnswerFromCache, Return, queueVars, closeVars, historyVars
<1>7. ASSUME NEW l \in Lookups, Dispatch(l) PROVE TypeInv'
  BY <1>7 DEF Dispatch, Replies, queueVars, closeVars, historyVars
<1>8. ASSUME NEW l \in Lookups, NEW s \in EnabledSources, NEW o \in SourceOutcomes,
             Reply(l, s, o)
      PROVE TypeInv'
  <2>1. o \in Replies
    BY OutcomesAssumption DEF Replies
  <2>2. <<phone[l], s>> \in Rows
    BY <1>8 DEF Reply, Rows
  <2> QED BY <1>8, <2>1, <2>2 DEF Reply, queueVars, closeVars
<1>9. ASSUME NEW l \in Lookups, Collect(l) PROVE TypeInv'
  <2>1. records' \in [Lookups -> [EnabledSources -> Verdicts]]
    BY <1>9 DEF Collect, Verdicts
  <2> QED BY <1>9, <2>1 DEF Collect, queueVars, closeVars, historyVars
<1>10. ASSUME NEW l \in Lookups, SyncSave(l) PROVE TypeInv'
  <2>1. stored' \subseteq Rows
    BY <1>10, SpamRowsType DEF SyncSave, Upsert
  <2> QED BY <1>10, <2>1 DEF SyncSave, queueVars, closeVars, historyVars
<1>11. ASSUME NEW l \in Lookups, SyncSaveFails(l) PROVE TypeInv'
  BY <1>11 DEF SyncSaveFails, queueVars, closeVars, historyVars
<1>12. ASSUME NEW l \in Lookups, RLock(l) PROVE TypeInv'
  BY <1>12 DEF RLock, queueVars, historyVars
<1>13. ASSUME NEW l \in Lookups, CheckClosed(l) PROVE TypeInv'
  BY <1>13 DEF CheckClosed, queueVars, historyVars
<1>14. ASSUME NEW l \in Lookups, Send(l) PROVE TypeInv'
  <2>1. SpamRows(l) \in SUBSET Rows
    BY <1>14, SpamRowsType DEF Send
  <2>2. queue' \in Seq(SUBSET Rows) /\ Len(queue') <= QueueSize
    BY <1>14, <2>1, QueueSizeAssumption, AppendProperties, LenProperties
    DEF Send, HasRoom
  <2> QED BY <1>14, <2>2 DEF Send, historyVars
<1>15. ASSUME NEW l \in Lookups, Finish(l) PROVE TypeInv'
  <2>1. [error |-> LookupError(queryCtx[l], Failures(l))] \in Answers
    BY LookupErrorType DEF Answers, Results
  <2>2. (IF Available(list[l], records[l]) THEN RecordOf(l)
         ELSE [error |-> LookupError(queryCtx[l], Failures(l))]) \in Answers
    BY <2>1, RecordOfType
  <2> QED BY <1>15, <2>2 DEF Finish, Return, queueVars, closeVars, historyVars
<1>16. ASSUME Receive PROVE TypeInv'
  <2>1. /\ queue' \in Seq(SUBSET Rows) /\ Len(queue') <= QueueSize
        /\ inHand' \subseteq Rows
    BY <1>16, HeadTailProperties, LenProperties, QueueSizeAssumption DEF Receive
  <2> QED BY <1>16, <2>1 DEF Receive, lookupVars, closeVars, historyVars
<1>17. ASSUME SaveBatch PROVE TypeInv'
  <2>1. stored' \subseteq Rows
    BY <1>17 DEF SaveBatch, Upsert
  <2> QED BY <1>17, <2>1 DEF SaveBatch, lookupVars, closeVars, historyVars
<1>18. ASSUME SaveBatchFails PROVE TypeInv'
  BY <1>18 DEF SaveBatchFails, AfterFailure, lookupVars, closeVars, historyVars
<1>19. ASSUME WriterExit PROVE TypeInv'
  BY <1>19 DEF WriterExit, lookupVars, closeVars, historyVars
<1>20. ASSUME NEW c \in Closers, CallClose(c) PROVE TypeInv'
  BY <1>20 DEF CallClose, lookupVars, queueVars, historyVars
<1>21. ASSUME NEW c \in Closers, LockForClose(c) PROVE TypeInv'
  BY <1>21 DEF LockForClose, lookupVars, queueVars, historyVars
<1>22. ASSUME NEW c \in Closers, CloseChannel(c) PROVE TypeInv'
  BY <1>22, ModeAssumption DEF CloseChannel, ClosesChannel, lookupVars, historyVars
<1>23. ASSUME NEW c \in Closers, WaitWriter(c) PROVE TypeInv'
  BY <1>23 DEF WaitWriter, lookupVars, queueVars, historyVars
<1>24. ASSUME NEW c \in Closers, ReturnClose(c) PROVE TypeInv'
  BY <1>24 DEF ReturnClose, lookupVars, queueVars, historyVars
<1>25. ASSUME UNCHANGED vars PROVE TypeInv'
  BY <1>25 DEF vars, lookupVars, queueVars, closeVars, historyVars
<1> QED
  BY <1>1, <1>2, <1>3, <1>4, <1>5, <1>6, <1>7, <1>8, <1>9, <1>10, <1>11, <1>12, <1>13,
     <1>14, <1>15, <1>16, <1>17, <1>18, <1>19, <1>20, <1>21, <1>22, <1>23, <1>24, <1>25
  DEF Next, ClientStep, LookupStep, SourceStep, WriterStep, CloserStep

(* Type correctness: in particular the queue never exceeds the capacity of *)
(* the channel, and every answer is a verdict of an enabled source or one  *)
(* of the errors of query/domain.                                          *)
THEOREM TypeCorrect == Spec => []TypeOK
<1>1. Spec => []TypeInv
  BY TypeInit, TypeNext, PTL DEF Spec
<1> QED BY <1>1, PTL DEF TypeInv

----------------------------------------------------------------------------
(* Close against the lookups.  The read lock is what makes "checked, then  *)
(* sent" safe: while a lookup stands between the two, no closer can be     *)
(* inside the write lock, and once one has been, the flag is set.          *)

LEMMA CloseInit == Init => CloseInv
<1> SUFFICES ASSUME Init PROVE CloseInv
  OBVIOUS
<1>1. LockInv
  BY NoneAssumption DEF Init, LockInv
<1>2. OnceInv
  BY DEF Init, OnceInv, InOnce
<1>3. ChannelInv
  BY ModeAssumption DEF Init, ChannelInv
<1>4. DrainInv
  BY DEF Init, DrainInv
<1> QED BY <1>1, <1>2, <1>3, <1>4 DEF CloseInv

(* A step that leaves alone everything CloseInv speaks of keeps it, as     *)
(* long as the lookup it moves neither enters nor leaves the lock.         *)
LEMMA CloseFrame ==
    ASSUME CloseInv, UNCHANGED <<queueVars, closeVars, panicked>>,
           pc' \in [Lookups -> LookupStates],
           \A l \in Lookups : pc'[l] # pc[l] =>
               /\ pc[l] \notin {"check", "send"}
               /\ pc'[l] \notin {"check", "send"}
    PROVE  CloseInv'
BY DEF CloseInv, LockInv, OnceInv, ChannelInv, DrainInv, InOnce, queueVars, closeVars

LEMMA CloseNext == TypeOK /\ TypeOK' /\ CloseInv /\ [Next]_vars => CloseInv'
<1> SUFFICES ASSUME TypeOK, TypeOK', CloseInv, [Next]_vars PROVE CloseInv'
  OBVIOUS
<1>t. /\ pc \in [Lookups -> LookupStates]
      /\ pc' \in [Lookups -> LookupStates]
      /\ closerPc \in [Closers -> {"idle", "once", "lock", "closing", "wait", "end",
                                   "returned"}]
      /\ locker \in Closers \cup {None}
      /\ readers \subseteq Lookups
  BY DEF TypeOK
<1>1. ASSUME NEW l \in Lookups, NEW p \in Phones, NEW r \in Requested, Begin(l, p, r)
      PROVE CloseInv'
  BY <1>1, <1>t, CloseFrame DEF Begin
<1>2. ASSUME NEW l \in Lookups,
             \/ ClientLeaves(l) \/ QueryTimeout(l)
             \/ ReadCache(l) \/ CacheFails(l) \/ AnswerFromCache(l) \/ Dispatch(l)
             \/ \E s \in EnabledSources, o \in SourceOutcomes : Reply(l, s, o)
      PROVE CloseInv'
  BY <1>2, <1>t, CloseFrame
  DEF ClientLeaves, QueryTimeout, ReadCache, CacheFails, AnswerFromCache, Dispatch, Reply,
      Return
<1>3. ASSUME NEW l \in Lookups,
             Collect(l) \/ SyncSave(l) \/ SyncSaveFails(l) \/ Finish(l)
      PROVE CloseInv'
  BY <1>3, <1>t, CloseFrame DEF Collect, SyncSave, SyncSaveFails, Finish, Return
<1>4. ASSUME NEW l \in Lookups, RLock(l) PROVE CloseInv'
  <2>1. LockInv'
    BY <1>4, <1>t DEF RLock, CanRLock, CloseInv, LockInv
  <2>2. OnceInv' /\ ChannelInv' /\ DrainInv'
    BY <1>4, <1>t
    DEF RLock, CloseInv, OnceInv, ChannelInv, DrainInv, InOnce, queueVars
  <2> QED BY <2>1, <2>2 DEF CloseInv
<1>5. ASSUME NEW l \in Lookups, CheckClosed(l) PROVE CloseInv'
  <2>1. LockInv'
    BY <1>5, <1>t DEF CheckClosed, CloseInv, LockInv
  <2>2. OnceInv' /\ ChannelInv' /\ DrainInv'
    BY <1>5, <1>t
    DEF CheckClosed, CloseInv, OnceInv, ChannelInv, DrainInv, InOnce, queueVars
  <2> QED BY <2>1, <2>2 DEF CloseInv
<1>6. ASSUME NEW l \in Lookups, Send(l) PROVE CloseInv'
  <2>1. ~closed /\ ~chClosed
    BY <1>6 DEF Send, CloseInv, ChannelInv
  <2>2. LockInv'
    BY <1>6, <1>t DEF Send, CloseInv, LockInv
  <2>3. OnceInv' /\ ChannelInv'
    BY <1>6, <1>t, <2>1 DEF Send, CloseInv, OnceInv, ChannelInv, InOnce
  <2>4. DrainInv'
    BY <1>6, <1>t, <2>1 DEF Send, CloseInv, DrainInv
  <2> QED BY <2>2, <2>3, <2>4 DEF CloseInv
<1>7. ASSUME WriterStep PROVE CloseInv'
  <2>1. LockInv' /\ OnceInv' /\ ChannelInv'
    BY <1>7
    DEF WriterStep, Receive, SaveBatch, SaveBatchFails, WriterExit, lookupVars, closeVars,
        CloseInv, LockInv, OnceInv, ChannelInv, InOnce
  <2>2. DrainInv'
    BY <1>7
    DEF WriterStep, Receive, SaveBatch, SaveBatchFails, WriterExit, Drained, AfterFailure,
        closeVars, CloseInv, DrainInv
  <2> QED BY <2>1, <2>2 DEF CloseInv
<1>8. ASSUME NEW c \in Closers, CallClose(c) PROVE CloseInv'
  <2>1. LockInv' /\ ChannelInv'
    BY <1>8, <1>t DEF CallClose, CloseInv, LockInv, ChannelInv, lookupVars, queueVars
  <2>2. OnceInv'
    BY <1>8, <1>t DEF CallClose, CloseInv, OnceInv, InOnce
  <2>3. DrainInv'
    BY <1>8, <1>t DEF CallClose, CloseInv, DrainInv, queueVars
  <2> QED BY <2>1, <2>2, <2>3 DEF CloseInv
<1>9. ASSUME NEW c \in Closers, LockForClose(c) PROVE CloseInv'
  <2>1. LockInv'
    BY <1>9, <1>t, NoneAssumption
    DEF LockForClose, CanLock, CloseInv, LockInv, lookupVars
  <2>2. OnceInv'
    BY <1>9, <1>t DEF LockForClose, CloseInv, OnceInv, InOnce
  <2>3. ChannelInv' /\ DrainInv'
    BY <1>9, <1>t
    DEF LockForClose, CloseInv, ChannelInv, DrainInv, lookupVars, queueVars
  <2> QED BY <2>1, <2>2, <2>3 DEF CloseInv
<1>10. ASSUME NEW c \in Closers, CloseChannel(c) PROVE CloseInv'
  <2>1. /\ locker = c /\ readers = {} /\ ~closed /\ ~chClosed
        /\ \A l \in Lookups : pc[l] \notin {"check", "send"}
    BY <1>10, NoneAssumption DEF CloseChannel, CloseInv, LockInv, OnceInv, ChannelInv
  <2>2. LockInv'
    BY <1>10, <1>t, <2>1, NoneAssumption DEF CloseChannel, CloseInv, LockInv, lookupVars
  <2>3. OnceInv'
    BY <1>10, <1>t DEF CloseChannel, CloseInv, OnceInv, InOnce
  <2>4. ChannelInv'
    BY <1>10, <2>1, ModeAssumption
    DEF CloseChannel, ClosesChannel, CloseInv, ChannelInv, lookupVars
  <2>5. DrainInv'
    BY <1>10, <1>t, <2>1, ModeAssumption
    DEF CloseChannel, ClosesChannel, CloseInv, DrainInv
  <2> QED BY <2>2, <2>3, <2>4, <2>5 DEF CloseInv
<1>11. ASSUME NEW c \in Closers, WaitWriter(c) \/ ReturnClose(c) PROVE CloseInv'
  <2>1. LockInv' /\ ChannelInv'
    BY <1>11, <1>t
    DEF WaitWriter, ReturnClose, CloseInv, LockInv, ChannelInv, lookupVars, queueVars
  <2>2. OnceInv'
    BY <1>11, <1>t DEF WaitWriter, ReturnClose, CloseInv, OnceInv, InOnce
  <2>3. DrainInv'
    BY <1>11, <1>t DEF WaitWriter, ReturnClose, CloseInv, DrainInv, queueVars
  <2> QED BY <2>1, <2>2, <2>3 DEF CloseInv
<1>12. ASSUME UNCHANGED vars PROVE CloseInv'
  BY <1>12, <1>t, CloseFrame DEF vars, lookupVars
<1> QED
  BY <1>1, <1>2, <1>3, <1>4, <1>5, <1>6, <1>7, <1>8, <1>9, <1>10, <1>11, <1>12
  DEF Next, ClientStep, LookupStep, SourceStep, CloserStep

THEOREM CloseInvariant == Spec => []CloseInv
BY TypeCorrect, CloseInit, CloseNext, PTL DEF Spec

(* No lookup in flight ever sends to the closed queue, and it is closed    *)
(* once, for any number of lookups and of callers of Close.                *)
THEOREM NeverSendsOnClosed == Spec => []NoChannelPanic
<1>1. CloseInv => NoChannelPanic
  BY DEF CloseInv, ChannelInv, NoChannelPanic
<1> QED BY <1>1, CloseInvariant, PTL

(* When any call of Close has returned, the writer has stopped with        *)
(* nothing left in the queue or in hand.                                   *)
THEOREM CloseIsComplete == Spec => []CloseDrains
<1>1. CloseInv => CloseDrains
  BY DEF CloseInv, OnceInv, DrainInv, CloseDrains
<1> QED BY <1>1, CloseInvariant, PTL

----------------------------------------------------------------------------
(* Who waits, and for whom.                                                *)
LEMMA BusyStep == ASSUME TypeOK, CloseInv, BusyInv, [Next]_vars PROVE BusyInv'
<1> USE DEF BusyInv, InOnce
<1>1. closerPc \in [Closers -> {"idle", "once", "lock", "closing", "wait", "end", "returned"}]
  BY DEF TypeOK
<1>2. ASSUME UNCHANGED <<once, closerPc, closed, writer>> PROVE BusyInv'
  BY <1>2
<1>3. ASSUME NEW l \in Lookups, ClientStep(l) \/ LookupStep(l) PROVE BusyInv'
  BY <1>2, <1>3
  DEF ClientStep, LookupStep, Begin, ClientLeaves, QueryTimeout, ReadCache, CacheFails,
      AnswerFromCache, Dispatch, Collect, SyncSave, SyncSaveFails, RLock, CheckClosed, Send,
      Finish, closeVars, queueVars
<1>4. ASSUME NEW l \in Lookups, NEW s \in EnabledSources, SourceStep(l, s) PROVE BusyInv'
  BY <1>2, <1>4 DEF SourceStep, Reply, closeVars, queueVars
<1>5. CASE WriterStep \/ UNCHANGED vars
  BY <1>5
  DEF WriterStep, Receive, SaveBatch, SaveBatchFails, AfterFailure, WriterExit, closeVars,
      queueVars, vars
<1>6. ASSUME NEW c \in Closers, CallClose(c) \/ LockForClose(c) \/ WaitWriter(c) PROVE BusyInv'
  BY <1>1, <1>6 DEF CallClose, LockForClose, WaitWriter, CloseInv, OnceInv, queueVars
<1>7. ASSUME NEW c \in Closers, CloseChannel(c) \/ ReturnClose(c) PROVE BusyInv'
  BY <1>1, <1>7 DEF CloseChannel, ReturnClose, CloseInv, OnceInv, queueVars
<1> QED BY <1>3, <1>4, <1>5, <1>6, <1>7 DEF Next, CloserStep

LEMMA WaitsFollow ==
    ASSUME TypeOK, CloseInv, BusyInv PROVE WaitsAreGrounded
<1> USE DEF CloseInv
<1>1. \A k \in readers : LookupRuns(k)
  BY DEF LockInv, LookupRuns, LookupStates
<1>2. locker # None => locker \in Closers /\ closerPc[locker] = "closing"
  BY DEF LockInv, TypeOK
<1>3. ASSUME NEW c \in Closers, closerPc[c] = "lock"
      PROVE  CanLock \/ \E k \in readers : LookupRuns(k)
  <2>1. locker = None
    <3>1. ASSUME locker # None PROVE locker = c
      BY <1>2, <1>3, <3>1 DEF OnceInv, InOnce
    <3> QED BY <1>2, <1>3, <3>1
  <2> QED BY <1>1, <2>1 DEF CanLock
<1>4. ASSUME NEW l \in Lookups, pc[l] = "rlock", ~CanRLock
      PROVE  (\E c \in Closers : CloserRuns(c)) \/ \E k \in readers : LookupRuns(k)
  <2>1. CASE locker # None
    BY <1>2, <2>1 DEF CloserRuns
  <2>2. CASE locker = None
    <3>1. PICK c \in Closers : closerPc[c] = "lock"
      BY <1>4, <2>2 DEF CanRLock
    <3> QED BY <1>3, <3>1 DEF CloserRuns
  <2> QED BY <2>1, <2>2
<1>5. ASSUME NEW c \in Closers, closerPc[c] = "wait" PROVE writer = "exited" \/ WriterRunsOn
  <2>1. ~SyncWrites /\ closed /\ writer # "absent"
    BY <1>5 DEF DrainInv, BusyInv
  <2> QED BY <2>1 DEF ChannelInv, WriterRunsOn, TypeOK
<1>6. ASSUME NEW c \in Closers, closerPc[c] = "once"
      PROVE  once = "done" \/ \E d \in Closers : InOnce(d)
  BY <1>6 DEF BusyInv, OnceInv, TypeOK
<1> QED BY <1>3, <1>4, <1>5, <1>6 DEF WaitsAreGrounded

(* Nobody waits in a circle, for any number of lookups and of callers of   *)
(* Close: EveryLookupReturns and CloseReturns, without what only fairness  *)
(* can say.                                                                *)
THEOREM NoCircleOfWaits == Spec => []WaitsAreGrounded
<1>1. Init => BusyInv
  BY DEF Init, BusyInv
<1>2. TypeOK /\ CloseInv /\ BusyInv /\ [Next]_vars => BusyInv'
  BY BusyStep
<1>3. TypeOK /\ CloseInv /\ BusyInv => WaitsAreGrounded
  BY WaitsFollow
<1> QED BY <1>1, <1>2, <1>3, TypeCorrect, CloseInvariant, PTL DEF Spec
=============================================================================
