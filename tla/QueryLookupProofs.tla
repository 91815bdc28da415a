-------------------------- MODULE QueryLookupProofs --------------------------
(* What a lookup returns, for every value of the constants: no source is   *)
(* skipped, what was stored counts, errors are true, and a spam verdict    *)
(* can be traced to a source that reported it.                             *)
EXTENDS QueryServiceProofs

(* The first spelling of a name is always kept, so that the list in use    *)
(* names at least one enabled source.                                      *)
LEMMA DefaultListIsUsable == Enabled(DefaultList) # {}
<1>1. PICK i \in DOMAIN DefaultList : TrimSpace[DefaultList[i]] # Blank
  BY DefaultListAssumption
<1> DEFINE P == {j \in DOMAIN DefaultList : NameAt(DefaultList, j) = NameAt(DefaultList, i)}
<1>2. DOMAIN DefaultList = 1..Len(DefaultList) /\ Len(DefaultList) \in Nat
  BY DefaultListAssumption, LenProperties
<1>3. P \subseteq Nat /\ P # {}
  BY <1>1, <1>2
<1>4. First(P) \in P /\ \A j \in P : First(P) <= j
  BY <1>3, FirstProperties
<1>5. First(P) \in Normalized(DefaultList)
  <2>1. ASSUME NEW j \in 1..(First(P) - 1)
        PROVE NameAt(DefaultList, j) # NameAt(DefaultList, First(P))
    <3>1. j \in DOMAIN DefaultList /\ First(P) \in Nat /\ j \in Nat /\ j < First(P)
      BY <1>2, <1>3, <1>4
    <3>2. j \notin P
      <4> HIDE DEF P
      <4> QED BY <1>3, <1>4, <3>1
    <3> QED BY <3>1, <3>2, <1>4
  <2>2. First(P) \in DOMAIN DefaultList /\ NameAt(DefaultList, First(P)) # Blank
    BY <1>4, <1>1 DEF NameAt
  <2> HIDE DEF P
  <2> QED BY <2>1, <2>2 DEF Normalized
<1> QED BY <1>5 DEF Enabled, EnabledSources

LEMMA EffectiveListIsUsable == ASSUME NEW r PROVE Enabled(EffectiveList(r)) # {}
BY DefaultListIsUsable DEF EffectiveList

(* No name is used twice, so that a source has one position. *)
LEMMA OnePosition ==
    ASSUME NEW lst \in Seq(Spellings), NEW i \in Enabled(lst), NEW j \in Enabled(lst),
           NameAt(lst, i) = NameAt(lst, j)
    PROVE  i = j
<1>1. i \in Nat /\ j \in Nat /\ i \in 1..Len(lst) /\ j \in 1..Len(lst)
  BY DEF Enabled, Normalized
<1>2. ~ (i < j)
  BY <1>1 DEF Enabled, Normalized
<1>3. ~ (j < i)
  BY <1>1 DEF Enabled, Normalized
<1> QED BY <1>1, <1>2, <1>3

LEMMA UsedIsEnabled ==
    ASSUME TypeOK, NEW l \in Lookups PROVE Used(l) \subseteq EnabledSources
BY EnabledProperties, RequestedType DEF TypeOK, Used

----------------------------------------------------------------------------
UsableInv == \A l \in Lookups : Enabled(list[l]) # {}

(* The four properties of an answer, for one lookup. *)
NotSkipped(l) ==
    HasVerdict(l) =>
        \A i, j \in Enabled(list[l]) :
            /\ NameAt(list[l], j) = answer[l].source
            /\ i < j \/ answer[l].verdict = "clean"
            => replies[l][NameAt(list[l], i)] \in {"clean"} \cup FailureClasses

KnownCounts(l) ==
    Answered(l) /\ cacheRead[l] = "ok" =>
        \A i \in Enabled(list[l]) : <<phone[l], NameAt(list[l], i)>> \in knownAtStart[l] =>
            /\ HasVerdict(l)
            /\ answer[l].verdict = "spam"
            /\ \E j \in Enabled(list[l]) : j <= i /\ NameAt(list[l], j) = answer[l].source

KnownSpared(l) ==
    cacheRead[l] = "ok" =>
        \A s \in EnabledSources :
            /\ <<phone[l], s>> \in knownAtStart[l]
            /\ \E i \in Enabled(list[l]) : NameAt(list[l], i) = s
            => /\ replies[l][s] = "none"
               /\ s = NameAt(list[l], First(Enabled(list[l]))) => replies[l] = NoReplies

TrueError(l) ==
    Answered(l) /\ "error" \in DOMAIN answer[l] =>
        /\ \A i \in Enabled(list[l]) : replies[l][NameAt(list[l], i)] \in FailureClasses
        /\ answer[l].error # "not_found"
        /\ answer[l].error = "canceled" => clientGone[l]
        /\ answer[l].error = "rate_limited" <=> "rate_limited" \in Failures(l)

OneLookupInv(l) ==
    /\ Enabled(list[l]) # {}
    /\ RecordInv(l) /\ ContextInv(l) /\ KnownInv(l)
    /\ NotSkipped(l) /\ KnownCounts(l) /\ KnownSpared(l) /\ TrueError(l)

ResultInv == \A l \in Lookups : OneLookupInv(l)

(* A lookup that a step does not move. *)
Same(l) ==
    /\ <<pc[l], phone[l], list[l], records[l], replies[l]>>'
         = <<pc[l], phone[l], list[l], records[l], replies[l]>>
    /\ <<clientGone[l], queryCtx[l], answer[l], knownAtStart[l], cacheRead[l]>>'
         = <<clientGone[l], queryCtx[l], answer[l], knownAtStart[l], cacheRead[l]>>

LEMMA SameKeepsInv ==
    ASSUME NEW l \in Lookups, OneLookupInv(l), Same(l), stored \subseteq stored'
    PROVE  OneLookupInv(l)'
<1> USE DEF Same
<1>1. (Enabled(list[l]) # {})' /\ RecordInv(l)' /\ ContextInv(l)'
  BY DEF OneLookupInv, RecordInv, ContextInv, Used
<1>2. KnownInv(l)'
  BY DEF OneLookupInv, KnownInv, Used
<1>3. NotSkipped(l)'
  BY DEF OneLookupInv, NotSkipped, HasVerdict, Answered
<1>4. KnownCounts(l)' /\ KnownSpared(l)'
  BY DEF OneLookupInv, KnownCounts, KnownSpared, HasVerdict, Answered
<1>5. TrueError(l)'
  BY DEF OneLookupInv, TrueError, Answered, Failures
<1> QED BY <1>1, <1>2, <1>3, <1>4, <1>5 DEF OneLookupInv

(* A step that moves one lookup between two steps of which neither ends    *)
(* it and leaves what it knows alone.                                      *)
Proceeds(l) ==
    /\ pc[l] \in Gathered /\ pc'[l] \in Gathered
    /\ <<phone[l], list[l], records[l], replies[l]>>'
         = <<phone[l], list[l], records[l], replies[l]>>
    /\ <<clientGone[l], queryCtx[l], knownAtStart[l], cacheRead[l]>>'
         = <<clientGone[l], queryCtx[l], knownAtStart[l], cacheRead[l]>>

LEMMA ProceedsKeepsInv ==
    ASSUME NEW l \in Lookups, OneLookupInv(l), Proceeds(l), stored \subseteq stored'
    PROVE  OneLookupInv(l)'
<1> USE DEF Proceeds, Gathered
<1>1. (Enabled(list[l]) # {})' /\ RecordInv(l)' /\ ContextInv(l)'
  BY DEF OneLookupInv, RecordInv, ContextInv, Used
<1>2. KnownInv(l)'
  BY DEF OneLookupInv, KnownInv, Used
<1>3. NotSkipped(l)' /\ KnownCounts(l)' /\ TrueError(l)'
  BY DEF NotSkipped, KnownCounts, TrueError, HasVerdict, Answered
<1>4. KnownSpared(l)'
  BY DEF OneLookupInv, KnownSpared
<1> QED BY <1>1, <1>2, <1>3, <1>4 DEF OneLookupInv

----------------------------------------------------------------------------
LEMMA ResultInit == Init => ResultInv
<1> SUFFICES ASSUME Init, NEW l \in Lookups PROVE OneLookupInv(l)
  BY DEF ResultInv
<1>1. Enabled(list[l]) # {}
  BY DefaultListIsUsable DEF Init
<1>2. RecordInv(l) /\ ContextInv(l) /\ KnownInv(l)
  BY DEF Init, RecordInv, ContextInv, KnownInv, NoReplies, NoRecords, Gathered
<1>3. NotSkipped(l) /\ KnownCounts(l) /\ KnownSpared(l) /\ TrueError(l)
  BY DEF Init, NotSkipped, KnownCounts, KnownSpared, TrueError, HasVerdict, Answered
<1> QED BY <1>1, <1>2, <1>3 DEF OneLookupInv

LEMMA BeginStep ==
    ASSUME TypeOK, NEW l \in Lookups, NEW p, NEW r \in Requested, Begin(l, p, r),
           OneLookupInv(l)
    PROVE  OneLookupInv(l)'
<1>1. /\ pc'[l] \in {"cache", "decide"} /\ list'[l] = EffectiveList(r)
      /\ records'[l] = NoRecords /\ replies'[l] = NoReplies
      /\ queryCtx'[l] = "none" /\ answer'[l] = None
      /\ knownAtStart'[l] \subseteq stored' /\ cacheRead'[l] = "none"
  BY DEF Begin, TypeOK
<1>2. (Enabled(list[l]) # {})'
  BY <1>1, EffectiveListIsUsable
<1>3. RecordInv(l)' /\ ContextInv(l)' /\ KnownInv(l)'
  BY <1>1 DEF RecordInv, ContextInv, KnownInv, NoReplies, NoRecords, Gathered
<1>4. NotSkipped(l)' /\ KnownCounts(l)' /\ KnownSpared(l)' /\ TrueError(l)'
  BY <1>1 DEF NotSkipped, KnownCounts, KnownSpared, TrueError, HasVerdict, Answered
<1> QED BY <1>2, <1>3, <1>4 DEF OneLookupInv

LEMMA ReadCacheStep ==
    ASSUME TypeOK, NEW l \in Lookups, ReadCache(l), OneLookupInv(l)
    PROVE  OneLookupInv(l)'
<1>1. /\ pc[l] = "cache" /\ pc'[l] = "decide" /\ records'[l] = Cached(l)
      /\ list' = list /\ replies' = replies /\ phone' = phone
      /\ clientGone' = clientGone /\ queryCtx' = queryCtx
      /\ knownAtStart' = knownAtStart /\ stored' = stored
  BY DEF ReadCache, TypeOK
<1>2. \A s \in EnabledSources : replies[l][s] = "none"
  BY <1>1 DEF OneLookupInv, RecordInv
<1>3. (Enabled(list[l]) # {})' /\ RecordInv(l)' /\ ContextInv(l)'
  BY <1>1, <1>2 DEF OneLookupInv, RecordInv, ContextInv, Gathered, Cached
<1>4. KnownInv(l)'
  <2>1. Used(l)' = Used(l) /\ Used(l) \subseteq EnabledSources
    BY <1>1, UsedIsEnabled DEF Used
  <2> QED BY <1>1, <1>2, <2>1 DEF OneLookupInv, KnownInv, Cached
<1>5. NotSkipped(l)' /\ KnownCounts(l)' /\ TrueError(l)'
  BY <1>1 DEF NotSkipped, KnownCounts, TrueError, HasVerdict, Answered
<1>6. KnownSpared(l)'
  <2>1. replies[l] = NoReplies
    BY <1>2 DEF TypeOK, NoReplies
  <2> QED BY <1>1, <1>2, <2>1 DEF KnownSpared
<1> QED BY <1>3, <1>4, <1>5, <1>6 DEF OneLookupInv

LEMMA CacheFailsStep ==
    ASSUME TypeOK, NEW l \in Lookups, CacheFails(l), OneLookupInv(l)
    PROVE  OneLookupInv(l)'
<1>1. /\ pc[l] = "cache" /\ pc'[l] = "decide" /\ cacheRead'[l] = "error"
      /\ list' = list /\ replies' = replies /\ phone' = phone /\ records' = records
      /\ clientGone' = clientGone /\ queryCtx' = queryCtx
      /\ knownAtStart' = knownAtStart /\ stored' = stored
  BY DEF CacheFails, TypeOK
<1>2. (Enabled(list[l]) # {})' /\ RecordInv(l)' /\ ContextInv(l)'
  BY <1>1 DEF OneLookupInv, RecordInv, ContextInv, Gathered
<1>3. KnownInv(l)'
  BY <1>1 DEF OneLookupInv, KnownInv, Used
<1>4. NotSkipped(l)' /\ KnownCounts(l)' /\ TrueError(l)' /\ KnownSpared(l)'
  BY <1>1 DEF NotSkipped, KnownCounts, KnownSpared, TrueError, HasVerdict, Answered
<1> QED BY <1>2, <1>3, <1>4 DEF OneLookupInv

LEMMA DispatchStep ==
    ASSUME TypeOK, NEW l \in Lookups, Dispatch(l), OneLookupInv(l)
    PROVE  OneLookupInv(l)'
<1> DEFINE missing == Missing(list[l], records[l])
<1>1. /\ pc[l] = "decide" /\ pc'[l] = "await" /\ ~Ready(list[l], records[l])
      /\ list' = list /\ phone' = phone /\ records' = records /\ clientGone' = clientGone
      /\ cacheRead' = cacheRead /\ knownAtStart' = knownAtStart /\ stored' = stored
      /\ queryCtx'[l] = IF clientGone[l] THEN "canceled" ELSE "live"
      /\ \A s \in EnabledSources :
            replies'[l][s] = IF s \in missing THEN "pending" ELSE "none"
  BY DEF Dispatch, TypeOK, historyVars
<1>2. \A s \in Used(l) : s \in missing <=> records[l][s] = "none"
  BY DEF Missing, WithVerdict, Used
<1>3. \A s \in EnabledSources : records[l][s] \in {"none", "spam"}
  BY <1>1 DEF OneLookupInv, RecordInv, TypeOK, Verdicts
<1>4. missing \subseteq Used(l) /\ Used(l) \subseteq EnabledSources
  BY UsedIsEnabled DEF Missing, WithVerdict, Used
<1> HIDE DEF missing
<1>5. (Enabled(list[l]) # {})'
  BY <1>1 DEF OneLookupInv
<1>6. RecordInv(l)'
  <2>1. Used(l)' = Used(l)
    BY <1>1 DEF Used
  <2>2. \A s \in Used(l) : /\ records[l][s] # "clean"
                           /\ replies'[l][s] = "none" <=> records[l][s] = "spam"
    BY <1>1, <1>2, <1>3, <1>4
  <2> QED BY <1>1, <2>1, <2>2 DEF RecordInv, Gathered
<1>7. ContextInv(l)'
  BY <1>1 DEF ContextInv
<1>8. KnownInv(l)'
  <2>1. Used(l)' = Used(l)
    BY <1>1 DEF Used
  <2> QED BY <1>1, <1>2, <1>4, <2>1 DEF OneLookupInv, KnownInv
<1>9. NotSkipped(l)' /\ KnownCounts(l)' /\ TrueError(l)'
  BY <1>1 DEF NotSkipped, KnownCounts, TrueError, HasVerdict, Answered
<1>10. KnownSpared(l)'
  <2> SUFFICES ASSUME cacheRead[l] = "ok", NEW s \in EnabledSources,
                      <<phone[l], s>> \in knownAtStart[l],
                      \E i \in Enabled(list[l]) : NameAt(list[l], i) = s
               PROVE  /\ replies'[l][s] = "none"
                      /\ s # NameAt(list[l], First(Enabled(list[l])))
    BY <1>1 DEF KnownSpared
  <2>1. s \in Used(l)
    BY DEF Used
  <2>2. records[l][s] = "spam"
    BY <1>1, <2>1 DEF OneLookupInv, KnownInv
  <2>3. replies'[l][s] = "none"
    BY <1>1, <1>2, <2>1, <2>2
  <2>4. ASSUME s = NameAt(list[l], First(Enabled(list[l]))) PROVE FALSE
    <3>1. list[l] \in Seq(Spellings)
      BY RequestedType DEF TypeOK
    <3> DEFINE E == Enabled(list[l])
               spam == WithVerdict(list[l], records[l], {"spam"})
               none == WithVerdict(list[l], records[l], {"none"})
    <3>2. E \subseteq Nat /\ E # {}
      BY <3>1, EnabledProperties DEF OneLookupInv
    <3>3. First(E) \in E /\ \A j \in E : First(E) <= j
      BY <3>2, FirstProperties
    <3>4. First(E) \in spam
      BY <3>3, <2>2, <2>4 DEF WithVerdict
    <3>5. spam \subseteq E /\ none \subseteq E
      BY DEF WithVerdict
    <3>6. First(spam) \in spam /\ \A j \in spam : First(spam) <= j
      BY <3>2, <3>4, <3>5, FirstProperties
    <3>7. First(spam) = First(E)
      BY <3>2, <3>3, <3>4, <3>5, <3>6
    <3>8. First(E) \notin none
      BY <2>2, <2>4 DEF WithVerdict
    <3>9. \A m \in none : First(spam) < m
      BY <3>2, <3>3, <3>5, <3>7, <3>8
    <3> QED BY <1>1, <3>4, <3>9 DEF Ready
  <2> QED BY <2>3, <2>4
<1> QED BY <1>5, <1>6, <1>7, <1>8, <1>9, <1>10 DEF OneLookupInv

LEMMA ReplyStep ==
    ASSUME TypeOK, NEW l \in Lookups, NEW s \in EnabledSources, NEW o \in SourceOutcomes,
           Reply(l, s, o), OneLookupInv(l)
    PROVE  OneLookupInv(l)'
<1>1. /\ pc[l] = "await" /\ pc' = pc /\ replies[l][s] = "pending"
      /\ list' = list /\ phone' = phone /\ records' = records /\ clientGone' = clientGone
      /\ cacheRead' = cacheRead /\ knownAtStart' = knownAtStart /\ stored' = stored
      /\ queryCtx' = queryCtx
      /\ o = "canceled" => queryCtx[l] = "canceled"
      /\ replies'[l][s] = o
      /\ \A u \in EnabledSources \ {s} : replies'[l][u] = replies[l][u]
  BY DEF Reply, TypeOK
<1>2. o \notin {"none", "pending"}
  BY OutcomesAssumption DEF FailureClasses
<1>3. Used(l)' = Used(l) /\ Used(l) \subseteq EnabledSources
  BY <1>1, UsedIsEnabled DEF Used
<1>4. \A u \in EnabledSources : replies'[l][u] = "none" <=> replies[l][u] = "none"
  BY <1>1, <1>2
<1>5. (Enabled(list[l]) # {})' /\ RecordInv(l)' /\ ContextInv(l)'
  BY <1>1, <1>3, <1>4 DEF OneLookupInv, RecordInv, ContextInv, Gathered
<1>6. KnownInv(l)'
  BY <1>1, <1>3, <1>4 DEF OneLookupInv, KnownInv
<1>7. NotSkipped(l)' /\ KnownCounts(l)' /\ TrueError(l)'
  BY <1>1 DEF NotSkipped, KnownCounts, TrueError, HasVerdict, Answered
<1>8. KnownSpared(l)'
  <2>1. replies[l] # NoReplies
    BY <1>1 DEF NoReplies
  <2> QED BY <1>1, <1>4, <2>1 DEF OneLookupInv, KnownSpared
<1> QED BY <1>5, <1>6, <1>7, <1>8 DEF OneLookupInv

LEMMA CollectStep ==
    ASSUME TypeOK, NEW l \in Lookups, Collect(l), OneLookupInv(l)
    PROVE  OneLookupInv(l)'
<1>1. /\ pc[l] = "await" /\ pc'[l] \in Gathered
      /\ list' = list /\ phone' = phone /\ replies' = replies /\ clientGone' = clientGone
      /\ cacheRead' = cacheRead /\ knownAtStart' = knownAtStart /\ stored' = stored
      /\ queryCtx' = queryCtx
      /\ \A s \in EnabledSources :
            /\ replies[l][s] # "pending"
            /\ records'[l][s] = IF replies[l][s] \in {"spam", "clean"}
                                THEN replies[l][s] ELSE records[l][s]
  BY DEF Collect, TypeOK, Gathered, historyVars
<1>2. Used(l)' = Used(l) /\ Used(l) \subseteq EnabledSources
  BY <1>1, UsedIsEnabled DEF Used
<1>3. \A s \in Used(l) : records[l][s] \in {"none", "spam"}
  BY <1>1, <1>2 DEF OneLookupInv, RecordInv, TypeOK, Verdicts
<1>4. \A s \in Used(l) : /\ replies[l][s] = "none" => records'[l][s] = "spam"
                         /\ replies[l][s] \in FailureClasses => records'[l][s] = "none"
  BY <1>1, <1>2, <1>3 DEF OneLookupInv, RecordInv, FailureClasses
<1>5. RecordInv(l)'
  BY <1>1, <1>2, <1>4 DEF RecordInv, Gathered
<1>6. (Enabled(list[l]) # {})' /\ ContextInv(l)'
  BY <1>1 DEF OneLookupInv, ContextInv
<1>7. KnownInv(l)'
  BY <1>1, <1>2 DEF OneLookupInv, KnownInv, Gathered
<1>8. NotSkipped(l)' /\ KnownCounts(l)' /\ TrueError(l)'
  BY <1>1 DEF NotSkipped, KnownCounts, TrueError, HasVerdict, Answered, Gathered
<1>9. KnownSpared(l)'
  BY <1>1 DEF OneLookupInv, KnownSpared
<1> QED BY <1>5, <1>6, <1>7, <1>8, <1>9 DEF OneLookupInv

LEMMA ContextStep ==
    ASSUME TypeOK, NEW l \in Lookups, ClientLeaves(l) \/ QueryTimeout(l), OneLookupInv(l)
    PROVE  OneLookupInv(l)'
<1>1. /\ pc[l] # "done" /\ pc' = pc /\ records' = records
      /\ list' = list /\ phone' = phone /\ replies' = replies
      /\ cacheRead' = cacheRead /\ knownAtStart' = knownAtStart /\ stored' = stored
      /\ clientGone[l] => clientGone'[l]
      /\ queryCtx'[l] = "canceled" => queryCtx[l] = "canceled" \/ clientGone'[l]
  BY DEF ClientLeaves, QueryTimeout, TypeOK, historyVars
<1>2. (Enabled(list[l]) # {})' /\ RecordInv(l)' /\ ContextInv(l)' /\ KnownInv(l)'
  BY <1>1 DEF OneLookupInv, RecordInv, ContextInv, KnownInv, Gathered, Used
<1>3. NotSkipped(l)' /\ KnownCounts(l)' /\ TrueError(l)' /\ KnownSpared(l)'
  BY <1>1 DEF OneLookupInv, NotSkipped, KnownCounts, TrueError, KnownSpared, HasVerdict,
              Answered
<1> QED BY <1>2, <1>3 DEF OneLookupInv

(* Both ways of returning a record, from what Selected promises. *)
LEMMA RecordStep ==
    ASSUME TypeOK, NEW l \in Lookups, OneLookupInv(l),
           Available(list[l], records[l]),
           \A s \in Used(l) : replies[l][s] = "spam" => records[l][s] = "spam",
           \A s \in Used(l) : replies[l][s] # "pending",
           \A s \in Used(l) : replies[l][s] = "none" =>
               \/ records[l][s] = "spam"
               \/ pc[l] = "decide" /\ Ready(list[l], records[l]),
           pc[l] \in {"decide", "select"},
           pc' = [pc EXCEPT ![l] = "done"], answer' = [answer EXCEPT ![l] = RecordOf(l)],
           UNCHANGED <<phone, list, records, replies, clientGone, queryCtx, stored,
                       historyVars>>
    PROVE  OneLookupInv(l)'
<1> DEFINE lst == list[l]
           rec == records[l]
           src == Selected(lst, rec)
<1>1. /\ pc'[l] = "done"
      /\ answer'[l] = [verdict |-> rec[src], source |-> src]
      /\ phone' = phone /\ list' = list /\ records' = records /\ replies' = replies
      /\ clientGone' = clientGone /\ queryCtx' = queryCtx /\ stored' = stored
      /\ knownAtStart' = knownAtStart /\ cacheRead' = cacheRead
  BY DEF TypeOK, RecordOf, historyVars
<1>2. lst \in Seq(Spellings) /\ rec \in [EnabledSources -> Verdicts]
  BY RequestedType DEF TypeOK
<1>3. PICK k \in Enabled(lst) :
        /\ NameAt(lst, k) = src
        /\ rec[src] \in {"spam", "clean"}
        /\ \A j \in Enabled(lst) : rec[NameAt(lst, j)] = "spam" => rec[src] = "spam" /\ k <= j
  BY <1>2, SelectedProperties
<1>4. Enabled(lst) \subseteq Nat /\ \A i \in Enabled(lst) : NameAt(lst, i) \in Used(l)
  BY <1>2, EnabledProperties DEF Used
<1>5. (Enabled(list[l]) # {})' /\ RecordInv(l)' /\ ContextInv(l)' /\ KnownInv(l)'
  BY <1>1 DEF OneLookupInv, RecordInv, ContextInv, KnownInv, Gathered, Used
<1>6. KnownSpared(l)' /\ TrueError(l)'
  BY <1>1 DEF OneLookupInv, KnownSpared, TrueError
<1>7. KnownCounts(l)'
  <2>1. ASSUME cacheRead[l] = "ok", NEW i \in Enabled(lst),
               <<phone[l], NameAt(lst, i)>> \in knownAtStart[l]
        PROVE  rec[src] = "spam" /\ k <= i
    <3>1. rec[NameAt(lst, i)] = "spam"
      BY <2>1, <1>4 DEF OneLookupInv, KnownInv
    <3> QED BY <3>1, <1>3
  <2> QED BY <1>1, <1>3, <2>1 DEF KnownCounts, HasVerdict, Answered
<1>8. NotSkipped(l)'
  <2> SUFFICES ASSUME NEW i \in Enabled(lst), NEW j \in Enabled(lst),
                      NameAt(lst, j) = src, i < j \/ rec[src] = "clean"
               PROVE  replies[l][NameAt(lst, i)] \in {"clean"} \cup FailureClasses
    BY <1>1 DEF NotSkipped, HasVerdict, Answered
  <2>1. j = k
    BY <1>2, <1>3, OnePosition
  <2>2. rec[NameAt(lst, i)] # "spam"
    BY <1>3, <1>4, <2>1
  <2>3. NameAt(lst, i) \in Used(l) /\ NameAt(lst, i) \in EnabledSources
    BY <1>2, <1>4, EnabledProperties
  <2>4. replies[l][NameAt(lst, i)] \notin {"spam", "pending"}
    BY <2>2, <2>3
  <2>5. replies[l][NameAt(lst, i)] # "none"
    <3> SUFFICES ASSUME pc[l] = "decide", Ready(lst, rec) PROVE FALSE
      BY <2>2, <2>3
    <3> DEFINE spam == WithVerdict(lst, rec, {"spam"})
               none == WithVerdict(lst, rec, {"none"})
    <3>1. \A s \in EnabledSources : rec[s] \in {"none", "spam"}
      BY <1>2 DEF OneLookupInv, RecordInv, Verdicts
    <3>2. i \in none
      BY <2>2, <2>3, <3>1 DEF WithVerdict
    <3>3. rec[src] = "spam" /\ k \in spam
      BY <1>2, <1>3, <3>1, SelectedProperties DEF WithVerdict
    <3>4. spam \subseteq Nat /\ spam # {}
      BY <1>4, <3>3 DEF WithVerdict
    <3>5. First(spam) \in spam /\ First(spam) <= k
      BY <3>3, <3>4, FirstProperties
    <3>6. First(spam) < i
      BY <3>2, <3>4 DEF Ready
    <3>7. k <= First(spam)
      BY <3>5, <1>3 DEF WithVerdict
    <3>8. i < k
      BY <3>3, <2>1
    <3>9. i \in Nat /\ k \in Nat /\ First(spam) \in Nat
      BY <1>4, <3>4, <3>5
    <3> QED BY <3>6, <3>7, <3>8, <3>9
  <2> QED BY <2>3, <2>4, <2>5 DEF TypeOK, Replies
<1> QED BY <1>5, <1>6, <1>7, <1>8 DEF OneLookupInv

LEMMA AnswerFromCacheStep ==
    ASSUME TypeOK, NEW l \in Lookups, AnswerFromCache(l), OneLookupInv(l)
    PROVE  OneLookupInv(l)'
<1>1. /\ pc[l] = "decide" /\ Ready(list[l], records[l])
      /\ pc' = [pc EXCEPT ![l] = "done"] /\ answer' = [answer EXCEPT ![l] = RecordOf(l)]
      /\ UNCHANGED <<phone, list, records, replies, clientGone, queryCtx, stored, historyVars>>
  BY DEF AnswerFromCache, Return
<1>2. Available(list[l], records[l])
  BY <1>1, RequestedType, ReadyIsAvailable DEF TypeOK
<1>3. \A s \in Used(l) : replies[l][s] = "none"
  BY <1>1, UsedIsEnabled DEF OneLookupInv, RecordInv
<1> QED BY <1>1, <1>2, <1>3, RecordStep

LEMMA FinishStep ==
    ASSUME TypeOK, NEW l \in Lookups, Finish(l), OneLookupInv(l)
    PROVE  OneLookupInv(l)'
<1>1. /\ pc[l] = "select" /\ pc' = [pc EXCEPT ![l] = "done"]
      /\ UNCHANGED <<phone, list, records, replies, clientGone, queryCtx, stored, historyVars>>
  BY DEF Finish, Return
<1>2. \A s \in Used(l) :
        /\ replies[l][s] = "none" => records[l][s] = "spam"
        /\ replies[l][s] \in {"spam", "clean"} => records[l][s] = replies[l][s]
        /\ replies[l][s] # "pending"
  BY <1>1 DEF OneLookupInv, RecordInv, Gathered
<1>3. CASE Available(list[l], records[l])
  <2>1. answer' = [answer EXCEPT ![l] = RecordOf(l)]
    BY <1>3 DEF Finish, Return
  <2> QED BY <1>1, <1>2, <1>3, <2>1, RecordStep
<1>4. CASE ~Available(list[l], records[l])
  <2> DEFINE err == LookupError(queryCtx[l], Failures(l))
  <2>1. /\ pc'[l] = "done" /\ answer'[l] = [error |-> err]
        /\ phone' = phone /\ list' = list /\ records' = records /\ replies' = replies
        /\ clientGone' = clientGone /\ queryCtx' = queryCtx /\ stored' = stored
        /\ knownAtStart' = knownAtStart /\ cacheRead' = cacheRead
    BY <1>1, <1>4 DEF Finish, Return, TypeOK, historyVars
  <2>2. Used(l) \subseteq EnabledSources
    BY UsedIsEnabled
  <2>3. \A s \in Used(l) : records[l][s] = "none"
    BY <1>4, <2>2 DEF Available, WithVerdict, Used, TypeOK, Verdicts
  <2>4. \A s \in Used(l) : replies[l][s] \in FailureClasses
    BY <1>2, <2>2, <2>3 DEF TypeOK, Replies
  <2>5. \A i \in Enabled(list[l]) : NameAt(list[l], i) \in Used(l)
    BY DEF Used
  <2>6. Failures(l) # {}
    BY <2>2, <2>4, <2>5 DEF OneLookupInv, Failures
  <2>7. /\ err # "not_found"
        /\ err = "canceled" => clientGone[l]
        /\ err = "rate_limited" <=> "rate_limited" \in Failures(l)
    <3>1. "canceled" \in Failures(l) => clientGone[l]
      BY DEF Failures, OneLookupInv, ContextInv
    <3>2. queryCtx[l] = "canceled" => clientGone[l]
      BY DEF OneLookupInv, ContextInv
    <3> QED BY <2>6, <3>1, <3>2 DEF LookupError
  <2>8. TrueError(l)'
    <3>1. Failures(l)' = Failures(l)
      BY <2>1 DEF Failures
    <3> QED BY <2>1, <2>4, <2>5, <2>7, <3>1 DEF TrueError, Answered
  <2>9. (Enabled(list[l]) # {})' /\ RecordInv(l)' /\ ContextInv(l)' /\ KnownInv(l)'
    BY <2>1 DEF OneLookupInv, RecordInv, ContextInv, KnownInv, Gathered, Used
  <2>10. NotSkipped(l)' /\ KnownSpared(l)'
    BY <2>1 DEF OneLookupInv, NotSkipped, KnownSpared, HasVerdict
  <2>11. KnownCounts(l)'
    BY <1>1, <2>1, <2>3, <2>5 DEF KnownCounts, OneLookupInv, KnownInv
  <2> QED BY <2>8, <2>9, <2>10, <2>11 DEF OneLookupInv
<1> QED BY <1>3, <1>4

----------------------------------------------------------------------------
LEMMA ResultNext == TypeOK /\ ResultInv /\ [Next]_vars => ResultInv'
<1> SUFFICES ASSUME TypeOK, ResultInv, [Next]_vars, NEW m \in Lookups
             PROVE  OneLookupInv(m)'
  BY DEF ResultInv
<1> OneLookupInv(m)
  BY DEF ResultInv
<1> SUFFICES ASSUME ~ (Same(m) /\ stored \subseteq stored') PROVE OneLookupInv(m)'
  BY SameKeepsInv
<1>1. ASSUME NEW l \in Lookups, NEW p \in Phones, NEW r \in Requested, Begin(l, p, r)
      PROVE OneLookupInv(m)'
  <2>1. l = m
    BY <1>1 DEF Begin, Same, TypeOK
  <2> QED BY <1>1, <2>1, BeginStep
<1>2. ASSUME NEW l \in Lookups, ClientLeaves(l) \/ QueryTimeout(l) PROVE OneLookupInv(m)'
  <2>1. l = m
    BY <1>2 DEF ClientLeaves, QueryTimeout, Same, TypeOK, historyVars
  <2> QED BY <1>2, <2>1, ContextStep
<1>3. ASSUME NEW l \in Lookups, ReadCache(l) PROVE OneLookupInv(m)'
  <2>1. l = m
    BY <1>3 DEF ReadCache, Same, TypeOK
  <2> QED BY <1>3, <2>1, ReadCacheStep
<1>4. ASSUME NEW l \in Lookups, CacheFails(l) PROVE OneLookupInv(m)'
  <2>1. l = m
    BY <1>4 DEF CacheFails, Same, TypeOK
  <2> QED BY <1>4, <2>1, CacheFailsStep
<1>5. ASSUME NEW l \in Lookups, AnswerFromCache(l) PROVE OneLookupInv(m)'
  <2>1. l = m
    BY <1>5 DEF AnswerFromCache, Return, Same, TypeOK, historyVars
  <2> QED BY <1>5, <2>1, AnswerFromCacheStep
<1>6. ASSUME NEW l \in Lookups, Dispatch(l) PROVE OneLookupInv(m)'
  <2>1. l = m
    BY <1>6 DEF Dispatch, Same, TypeOK, historyVars
  <2> QED BY <1>6, <2>1, DispatchStep
<1>7. ASSUME NEW l \in Lookups, NEW s \in EnabledSources, NEW o \in SourceOutcomes,
             Reply(l, s, o)
      PROVE OneLookupInv(m)'
  <2>1. l = m
    BY <1>7 DEF Reply, Same, TypeOK
  <2> QED BY <1>7, <2>1, ReplyStep
<1>8. ASSUME NEW l \in Lookups, Collect(l) PROVE OneLookupInv(m)'
  <2>1. l = m
    BY <1>8 DEF Collect, Same, TypeOK, historyVars
  <2> QED BY <1>8, <2>1, CollectStep
<1>9. ASSUME NEW l \in Lookups,
             \/ SyncSave(l) \/ SyncSaveFails(l) \/ RLock(l) \/ CheckClosed(l) \/ Send(l)
      PROVE OneLookupInv(m)'
  <2>1. /\ pc[l] \in Gathered /\ pc'[l] \in Gathered
        /\ \A k \in Lookups \ {l} : pc'[k] = pc[k]
        /\ UNCHANGED <<phone, list, records, replies, clientGone, queryCtx, answer,
                       knownAtStart, cacheRead>>
        /\ stored \subseteq stored'
    BY <1>9 DEF SyncSave, SyncSaveFails, RLock, CheckClosed, Send, Upsert, TypeOK, Gathered,
                historyVars
  <2>2. l = m
    BY <2>1 DEF Same
  <2>3. Proceeds(m)
    BY <2>1, <2>2 DEF Proceeds
  <2> QED BY <2>1, <2>3, ProceedsKeepsInv
<1>10. ASSUME NEW l \in Lookups, Finish(l) PROVE OneLookupInv(m)'
  <2>1. l = m
    BY <1>10 DEF Finish, Return, Same, TypeOK, historyVars
  <2> QED BY <1>10, <2>1, FinishStep
<1>11. ASSUME WriterStep PROVE OneLookupInv(m)'
  BY <1>11
  DEF WriterStep, Receive, SaveBatch, SaveBatchFails, WriterExit, Upsert, lookupVars,
      historyVars, Same
<1>12. ASSUME NEW c \in Closers, CallClose(c) \/ CloserStep(c) PROVE OneLookupInv(m)'
  BY <1>12
  DEF CallClose, CloserStep, LockForClose, CloseChannel, WaitWriter, ReturnClose,
      lookupVars, historyVars, Same
<1>13. ASSUME UNCHANGED vars PROVE OneLookupInv(m)'
  BY <1>13 DEF vars, lookupVars, historyVars, Same
<1> QED
  BY <1>1, <1>2, <1>3, <1>4, <1>5, <1>6, <1>7, <1>8, <1>9, <1>10, <1>11, <1>12, <1>13
  DEF Next, ClientStep, LookupStep, SourceStep

THEOREM ResultInvariant == Spec => []ResultInv
BY TypeCorrect, ResultInit, ResultNext, PTL DEF Spec

(* The order of priority is respected: no answer is given over a source of *)
(* higher priority that has not itself answered or failed in this lookup.  *)
THEOREM PriorityIsRespected == Spec => []NoSourceSkipped
<1>1. ResultInv => NoSourceSkipped
  BY DEF ResultInv, OneLookupInv, NotSkipped, NoSourceSkipped
<1> QED BY <1>1, ResultInvariant, PTL

(* A verdict stored before a lookup began decides it, whatever other       *)
(* lookups, the writer and Close do meanwhile.                             *)
THEOREM StoredVerdictCounts == Spec => []StickySpam
<1>1. ResultInv => StickySpam
  BY DEF ResultInv, OneLookupInv, KnownCounts, StickySpam
<1> QED BY <1>1, ResultInvariant, PTL

(* The cache spares the upstream: a stored verdict is not asked for again. *)
THEOREM StoredVerdictIsNotAsked == Spec => []KnownSourceNotAsked
<1>1. ResultInv => KnownSourceNotAsked
  BY DEF ResultInv, OneLookupInv, KnownSpared, KnownSourceNotAsked
<1> QED BY <1>1, ResultInvariant, PTL

(* ErrNotFound never leaves lookupWithMode, "canceled" goes only to a      *)
(* client that left, and a lookup fails only when all its sources did.     *)
THEOREM ErrorsAreTrue == Spec => []TruthfulErrors
<1>1. ResultInv => TruthfulErrors
  BY DEF ResultInv, OneLookupInv, TrueError, TruthfulErrors
<1> QED BY <1>1, ResultInvariant, PTL

----------------------------------------------------------------------------
(* Where a spam verdict can stem from, for one lookup. *)
Traced(l) ==
    /\ \A s \in EnabledSources :
          /\ replies[l][s] = "spam" => <<phone[l], s>> \in reported
          /\ records[l][s] = "spam" => <<phone[l], s>> \in Preloaded \cup reported
    /\ HasVerdict(l) /\ answer[l].verdict = "spam" =>
          <<phone[l], answer[l].source>> \in Preloaded \cup reported
    /\ DisableCache => pc[l] \notin {"sync_save", "rlock", "check", "send"}

Kept ==
    /\ stored \subseteq Preloaded \cup reported
    /\ \A k \in DOMAIN queue : queue[k] \subseteq reported
    /\ inHand \subseteq reported
    /\ DisableCache => stored = Preloaded /\ queue = <<>> /\ inHand = {}

LEMMA ReportInvParts == ReportInv <=> Kept /\ \A l \in Lookups : Traced(l)
BY DEF ReportInv, Kept, Traced

LEMMA SpamRowsAreReported ==
    ASSUME NEW l \in Lookups, Traced(l) PROVE SpamRows(l) \subseteq reported
BY DEF Traced, SpamRows

(* A lookup a step does not move stays traced, as reports are kept. *)
LEMMA SameKeepsTraced ==
    ASSUME NEW l \in Lookups, Traced(l), Same(l), reported \subseteq reported'
    PROVE  Traced(l)'
BY DEF Same, Traced, HasVerdict, Answered

LEMMA TracedStep ==
    ASSUME TypeOK, NEW l \in Lookups, Kept, Traced(l),
           \/ \E p \in Phones, r \in Requested : Begin(l, p, r)
           \/ ClientStep(l) /\ pc'[l] = pc[l] /\ pc[l] # "done" /\ phone' = phone
              /\ replies' = replies /\ records' = records /\ reported' = reported
           \/ LookupStep(l)
           \/ \E s \in EnabledSources : SourceStep(l, s)
    PROVE  Traced(l)'
<1>1. ASSUME NEW p \in Phones, NEW r \in Requested, Begin(l, p, r) PROVE Traced(l)'
  BY <1>1 DEF Begin, Traced, TypeOK, NoReplies, NoRecords, HasVerdict, Answered
<1>2. ASSUME ClientStep(l), pc'[l] = pc[l], pc[l] # "done", phone' = phone,
             replies' = replies, records' = records, reported' = reported
      PROVE Traced(l)'
  BY <1>2 DEF Traced, HasVerdict, Answered
<1>3. ASSUME ReadCache(l) PROVE Traced(l)'
  <2>1. /\ pc'[l] = "decide" /\ phone' = phone /\ replies' = replies /\ reported' = reported
        /\ records'[l] = Cached(l)
    BY <1>3 DEF ReadCache, TypeOK
  <2>2. \A s \in EnabledSources : Cached(l)[s] = "spam" => <<phone[l], s>> \in stored
    BY DEF Cached
  <2> QED BY <2>1, <2>2 DEF Traced, Kept, HasVerdict, Answered
<1>4. ASSUME CacheFails(l) PROVE Traced(l)'
  BY <1>4 DEF CacheFails, Traced, TypeOK, HasVerdict, Answered
<1>5. ASSUME NEW src \in EnabledSources, records[l][src] = RecordOf(l).verdict,
             RecordOf(l).source = src, Return(l, RecordOf(l)),
             UNCHANGED <<phone, records, replies, reported>>
      PROVE Traced(l)'
  <2>1. pc'[l] = "done" /\ answer'[l] = RecordOf(l)
    BY <1>5 DEF Return, TypeOK
  <2> QED BY <1>5, <2>1 DEF Traced, HasVerdict, Answered
<1>6. ASSUME Available(list[l], records[l])
      PROVE /\ RecordOf(l).source \in EnabledSources
            /\ records[l][RecordOf(l).source] = RecordOf(l).verdict
  <2>1. list[l] \in Seq(Spellings) /\ records[l] \in [EnabledSources -> Verdicts]
    BY RequestedType DEF TypeOK
  <2>2. Selected(list[l], records[l]) \in EnabledSources
    BY <1>6, <2>1, SelectedProperties, EnabledProperties
  <2> QED BY <2>2 DEF RecordOf
<1>7. ASSUME AnswerFromCache(l) PROVE Traced(l)'
  <2>1. Available(list[l], records[l])
    BY <1>7, RequestedType, ReadyIsAvailable DEF TypeOK, AnswerFromCache
  <2> QED BY <1>5, <1>6, <1>7, <2>1 DEF AnswerFromCache, historyVars
<1>8. ASSUME Dispatch(l) PROVE Traced(l)'
  BY <1>8 DEF Dispatch, Traced, TypeOK, HasVerdict, Answered, historyVars
<1>9. ASSUME Collect(l) PROVE Traced(l)'
  <2>1. /\ pc'[l] \in {"select", "sync_save", "rlock"}
        /\ DisableCache => pc'[l] = "select"
        /\ phone' = phone /\ replies' = replies /\ reported' = reported
        /\ \A s \in EnabledSources :
              records'[l][s] = IF replies[l][s] \in {"spam", "clean"}
                               THEN replies[l][s] ELSE records[l][s]
    BY <1>9 DEF Collect, TypeOK, Saves, historyVars
  <2> QED BY <2>1 DEF Traced, HasVerdict, Answered
<1>10. ASSUME SyncSave(l) \/ SyncSaveFails(l) \/ RLock(l) \/ CheckClosed(l) \/ Send(l)
       PROVE Traced(l)'
  <2>1. /\ pc'[l] \in {"select", "check", "send"} /\ ~DisableCache
        /\ UNCHANGED <<phone, records, replies, reported>>
    BY <1>10 DEF SyncSave, SyncSaveFails, RLock, CheckClosed, Send, TypeOK, Traced, historyVars
  <2> QED BY <2>1 DEF Traced, HasVerdict, Answered
<1>11. ASSUME Finish(l) PROVE Traced(l)'
  <2>1. CASE Available(list[l], records[l])
    BY <1>5, <1>6, <1>11, <2>1 DEF Finish, historyVars
  <2>2. CASE ~Available(list[l], records[l])
    <3>1. /\ pc'[l] = "done" /\ "verdict" \notin DOMAIN answer'[l]
          /\ UNCHANGED <<phone, records, replies, reported>>
      BY <1>11, <2>2 DEF Finish, Return, TypeOK, historyVars
    <3> QED BY <3>1 DEF Traced, HasVerdict
  <2> QED BY <2>1, <2>2
<1>12. ASSUME NEW s \in EnabledSources, SourceStep(l, s) PROVE Traced(l)'
  <2>1. PICK o \in SourceOutcomes : Reply(l, s, o)
    BY <1>12 DEF SourceStep
  <2>2. /\ pc[l] = "await" /\ pc' = pc /\ phone' = phone /\ records' = records
        /\ replies'[l][s] = o
        /\ \A u \in EnabledSources \ {s} : replies'[l][u] = replies[l][u]
        /\ reported \subseteq reported'
        /\ o = "spam" => <<phone[l], s>> \in reported'
    BY <2>1 DEF Reply, TypeOK
  <2> QED BY <2>2 DEF Traced, HasVerdict, Answered
<1> QED
  BY <1>1, <1>2, <1>3, <1>4, <1>7, <1>8, <1>9, <1>10, <1>11, <1>12 DEF LookupStep

(* The rows in the repository, in the queue and with the writer. *)
LEMMA KeptStep == TypeOK /\ ReportInv /\ [Next]_vars => Kept'
<1> SUFFICES ASSUME TypeOK, ReportInv, [Next]_vars PROVE Kept'
  OBVIOUS
<1> Kept /\ \A l \in Lookups : Traced(l)
  BY ReportInvParts
<1>1. ASSUME UNCHANGED <<stored, queue, inHand>>, reported \subseteq reported' PROVE Kept'
  BY <1>1 DEF Kept
<1>2. ASSUME NEW l \in Lookups, ClientStep(l) PROVE Kept'
  BY <1>1, <1>2 DEF ClientStep, Begin, ClientLeaves, QueryTimeout, queueVars, historyVars
<1>3. ASSUME NEW l \in Lookups, LookupStep(l), ~SyncSave(l), ~Send(l) PROVE Kept'
  BY <1>1, <1>3
  DEF LookupStep, ReadCache, CacheFails, AnswerFromCache, Dispatch, Collect, SyncSaveFails,
      RLock, CheckClosed, Finish, queueVars, historyVars
<1>4. ASSUME NEW l \in Lookups, SyncSave(l) PROVE Kept'
  <2>1. /\ stored' = stored \cup SpamRows(l) /\ SpamRows(l) \subseteq reported
        /\ UNCHANGED <<queue, inHand, reported>> /\ ~DisableCache
    BY <1>4, SpamRowsAreReported DEF SyncSave, Upsert, queueVars, historyVars, Traced
  <2> QED BY <2>1 DEF Kept
<1>5. ASSUME NEW l \in Lookups, Send(l) PROVE Kept'
  <2>1. /\ queue' = queue \/ queue' = Append(queue, SpamRows(l))
        /\ SpamRows(l) \subseteq reported /\ ~DisableCache
        /\ UNCHANGED <<stored, inHand, reported>>
    BY <1>5, SpamRowsAreReported DEF Send, historyVars, Traced
  <2>2. queue \in Seq(SUBSET Rows) /\ SpamRows(l) \in SUBSET Rows
    BY <2>1 DEF TypeOK
  <2>3. CASE queue' = Append(queue, SpamRows(l))
    <3>1. ASSUME NEW k \in DOMAIN queue' PROVE queue'[k] \subseteq reported
      BY <2>1, <2>2, <2>3, AppendProperties DEF Kept
    <3> QED BY <2>1, <3>1 DEF Kept
  <2> QED BY <1>1, <2>1, <2>3
<1>6. ASSUME NEW l \in Lookups, NEW s \in EnabledSources, SourceStep(l, s) PROVE Kept'
  BY <1>1, <1>6 DEF SourceStep, Reply, queueVars
<1>7. ASSUME Receive PROVE Kept'
  <2>1. /\ queue # <<>> /\ queue' = Tail(queue) /\ inHand' = Head(queue)
        /\ stored' = stored /\ reported' = reported
    BY <1>7 DEF Receive, historyVars
  <2>2. queue \in Seq(SUBSET Rows)
    BY DEF TypeOK
  <2>3. 1 \in DOMAIN queue /\ Head(queue) = queue[1]
    BY <2>1, <2>2
  <2>4. ASSUME NEW k \in DOMAIN queue' PROVE queue'[k] \subseteq reported
    <3>1. k + 1 \in DOMAIN queue /\ queue'[k] = queue[k + 1]
      BY <2>1, <2>2, <2>4, HeadTailProperties
    <3> QED BY <3>1 DEF Kept
  <2> QED BY <2>1, <2>3, <2>4 DEF Kept
<1>8. ASSUME SaveBatch \/ SaveBatchFails \/ WriterExit PROVE Kept'
  BY <1>8 DEF SaveBatch, SaveBatchFails, WriterExit, Upsert, historyVars, Kept
<1>9. ASSUME NEW c \in Closers, CallClose(c) \/ CloserStep(c) PROVE Kept'
  BY <1>1, <1>9
  DEF CallClose, CloserStep, LockForClose, CloseChannel, WaitWriter, ReturnClose, queueVars,
      historyVars
<1>10. ASSUME UNCHANGED vars PROVE Kept'
  BY <1>1, <1>10 DEF vars, queueVars, historyVars
<1> QED
  BY <1>2, <1>3, <1>4, <1>5, <1>6, <1>7, <1>8, <1>9, <1>10 DEF Next, WriterStep

LEMMA TracedNext ==
    ASSUME TypeOK, ReportInv, [Next]_vars, NEW m \in Lookups PROVE Traced(m)'
<1> Kept /\ \A l \in Lookups : Traced(l)
  BY ReportInvParts
<1> SUFFICES ASSUME ~ (Same(m) /\ reported \subseteq reported') PROVE Traced(m)'
  BY SameKeepsTraced
<1>1. ASSUME NEW l \in Lookups, NEW p \in Phones, NEW r \in Requested, Begin(l, p, r)
      PROVE Traced(m)'
  <2>1. l = m
    BY <1>1 DEF Begin, Same, TypeOK
  <2> QED BY <1>1, <2>1, TracedStep
<1>2. ASSUME NEW l \in Lookups, ClientLeaves(l) \/ QueryTimeout(l) PROVE Traced(m)'
  <2>1. l = m
    BY <1>2 DEF ClientLeaves, QueryTimeout, Same, TypeOK, historyVars
  <2>2. /\ pc'[l] = pc[l] /\ pc[l] # "done" /\ phone' = phone
        /\ replies' = replies /\ records' = records /\ reported' = reported
    BY <1>2 DEF ClientLeaves, QueryTimeout, historyVars
  <2> QED BY <1>2, <2>1, <2>2, TracedStep DEF ClientStep
<1>3. ASSUME NEW l \in Lookups, LookupStep(l) PROVE Traced(m)'
  <2>1. l = m
    BY <1>3
    DEF LookupStep, ReadCache, CacheFails, AnswerFromCache, Dispatch, Collect, SyncSave,
        SyncSaveFails, RLock, CheckClosed, Send, Finish, Return, Same, TypeOK, historyVars
  <2> QED BY <1>3, <2>1, TracedStep
<1>4. ASSUME NEW l \in Lookups, NEW s \in EnabledSources, SourceStep(l, s) PROVE Traced(m)'
  <2>1. l = m
    BY <1>4 DEF SourceStep, Reply, Same, TypeOK
  <2> QED BY <1>4, <2>1, TracedStep
<1>5. ASSUME WriterStep PROVE Traced(m)'
  BY <1>5
  DEF WriterStep, Receive, SaveBatch, SaveBatchFails, WriterExit, lookupVars, historyVars, Same
<1>6. ASSUME NEW c \in Closers, CallClose(c) \/ CloserStep(c) PROVE Traced(m)'
  BY <1>6
  DEF CallClose, CloserStep, LockForClose, CloseChannel, WaitWriter, ReturnClose,
      lookupVars, historyVars, Same
<1>7. ASSUME UNCHANGED vars PROVE Traced(m)'
  BY <1>7 DEF vars, lookupVars, historyVars, Same
<1> QED BY <1>1, <1>2, <1>3, <1>4, <1>5, <1>6, <1>7 DEF Next, ClientStep

LEMMA ReportInit == Init => ReportInv
BY DEF Init, ReportInv, NoReplies, NoRecords, HasVerdict, Answered

LEMMA ReportNext == TypeOK /\ ReportInv /\ [Next]_vars => ReportInv'
<1>1. (Kept /\ \A l \in Lookups : Traced(l))' => ReportInv'
  BY DEF ReportInv, Kept, Traced
<1> QED BY <1>1, KeptStep, TracedNext

(* No verdict is made up: what is queued, stored or answered as spam was   *)
(* reported for that number by that source, or was in the repository from  *)
(* the start; with the cache disabled nothing is ever stored.              *)
THEOREM SpamWasReported == Spec => []OnlyReportedSpam
<1>1. ReportInv => OnlyReportedSpam
  BY DEF ReportInv, OnlyReportedSpam
<1> QED BY <1>1, ReportInit, ReportNext, TypeCorrect, PTL DEF Spec

----------------------------------------------------------------------------
(* The refinement of SpamLedger.  What it needs of one lookup besides the  *)
(* invariants above: it has an answer exactly when it is done, and a spam  *)
(* record that no source has just given is a row of the repository.        *)
LedgerInv(l) ==
    /\ pc[l] = "idle" => phone[l] = None
    /\ pc[l] = "done" => answer[l] \in Results
    /\ pc[l] # "done" => answer[l] = None
    /\ \A s \in EnabledSources :
          records[l][s] = "spam" => replies[l][s] = "spam" \/ <<phone[l], s>> \in stored

RefinementInv ==
    TypeInv /\ ResultInv /\ ReportInv /\ \A l \in Lookups : LedgerInv(l)

LEMMA LedgerInvInit == Init => \A l \in Lookups : LedgerInv(l)
BY DEF Init, LedgerInv, NoRecords

LEMMA SameKeepsLedger ==
    ASSUME NEW l \in Lookups, LedgerInv(l), Same(l), stored \subseteq stored'
    PROVE  LedgerInv(l)'
BY DEF Same, LedgerInv

(* The step that answers a lookup, from the cache or at its end. *)
LEMMA AnswerStep ==
    ASSUME TypeOK, NEW l \in Lookups, AnswerFromCache(l) \/ Finish(l), OneLookupInv(l)
    PROVE  /\ pc[l] \in {"decide", "select"}
           /\ pc' = [pc EXCEPT ![l] = "done"]
           /\ \E r \in Results : answer' = [answer EXCEPT ![l] = r]
           /\ UNCHANGED <<phone, list, records, replies, stored, reported>>
<1>1. CASE Available(list[l], records[l])
  <2>1. Finish(l) => answer' = [answer EXCEPT ![l] = RecordOf(l)]
    BY <1>1 DEF Finish, Return
  <2>2. AnswerFromCache(l) => answer' = [answer EXCEPT ![l] = RecordOf(l)]
    BY DEF AnswerFromCache, Return
  <2>3. RecordOf(l) \in Results
    <3>1. list[l] \in Seq(Spellings) /\ records[l] \in [EnabledSources -> Verdicts]
      BY RequestedType DEF TypeOK
    <3>2. /\ Selected(list[l], records[l]) \in EnabledSources
          /\ records[l][Selected(list[l], records[l])] \in {"spam", "clean"}
      BY <1>1, <3>1, SelectedProperties
    <3> QED BY <3>2 DEF RecordOf, Results
  <2> QED BY <2>1, <2>2, <2>3 DEF AnswerFromCache, Finish, Return, historyVars
<1>2. CASE ~Available(list[l], records[l])
  <2>1. ~AnswerFromCache(l)
    BY <1>2, RequestedType, ReadyIsAvailable DEF TypeOK, AnswerFromCache
  <2>2. answer' = [answer EXCEPT ![l] =
                     [error |-> LookupError(queryCtx[l], Failures(l))]]
    BY <1>2, <2>1 DEF Finish, Return
  <2>3. [error |-> LookupError(queryCtx[l], Failures(l))] \in Results
    BY LookupErrorType DEF Results
  <2> QED BY <2>1, <2>2, <2>3 DEF Finish, Return, historyVars
<1> QED BY <1>1, <1>2

LEMMA LedgerInvNext ==
    ASSUME TypeOK, ResultInv, \A l \in Lookups : LedgerInv(l), [Next]_vars, NEW m \in Lookups
    PROVE  LedgerInv(m)'
<1> LedgerInv(m) /\ OneLookupInv(m)
  BY DEF ResultInv
<1> SUFFICES ASSUME ~ (Same(m) /\ stored \subseteq stored') PROVE LedgerInv(m)'
  BY SameKeepsLedger
<1>1. ASSUME NEW l \in Lookups, NEW p \in Phones, NEW r \in Requested, Begin(l, p, r)
      PROVE LedgerInv(m)'
  <2>1. l = m
    BY <1>1 DEF Begin, Same, TypeOK
  <2> QED BY <1>1, <2>1 DEF Begin, LedgerInv, TypeOK, NoRecords
<1>2. ASSUME NEW l \in Lookups, ClientLeaves(l) \/ QueryTimeout(l) PROVE LedgerInv(m)'
  BY <1>2 DEF ClientLeaves, QueryTimeout, LedgerInv
<1>3. ASSUME NEW l \in Lookups, ReadCache(l) PROVE LedgerInv(m)'
  <2>1. l = m
    BY <1>3 DEF ReadCache, Same, TypeOK
  <2>2. /\ pc[m] = "cache" /\ pc'[m] = "decide" /\ records'[m] = Cached(m)
        /\ UNCHANGED <<phone, replies, answer, stored>>
    BY <1>3, <2>1 DEF ReadCache, TypeOK
  <2> QED BY <2>2 DEF Cached, LedgerInv
<1>4. ASSUME NEW l \in Lookups, CacheFails(l) PROVE LedgerInv(m)'
  <2>1. l = m
    BY <1>4 DEF CacheFails, Same, TypeOK
  <2> QED BY <1>4, <2>1 DEF CacheFails, LedgerInv, TypeOK
<1>5. ASSUME NEW l \in Lookups, AnswerFromCache(l) \/ Finish(l) PROVE LedgerInv(m)'
  <2>1. l = m
    BY <1>5 DEF AnswerFromCache, Finish, Return, Same, TypeOK, historyVars
  <2> QED BY <1>5, <2>1, AnswerStep DEF LedgerInv, TypeOK
<1>6. ASSUME NEW l \in Lookups, Dispatch(l) PROVE LedgerInv(m)'
  <2>1. l = m
    BY <1>6 DEF Dispatch, Same, TypeOK, historyVars
  <2>2. /\ pc[m] = "decide" /\ pc'[m] = "await"
        /\ UNCHANGED <<phone, records, answer, stored>>
    BY <1>6, <2>1 DEF Dispatch, TypeOK
  <2>3. \A s \in EnabledSources : replies[m][s] = "none"
    BY <2>2 DEF OneLookupInv, RecordInv
  <2> QED BY <2>2, <2>3 DEF LedgerInv
<1>7. ASSUME NEW l \in Lookups, NEW s \in EnabledSources, NEW o \in SourceOutcomes,
             Reply(l, s, o)
      PROVE LedgerInv(m)'
  <2>1. l = m
    BY <1>7 DEF Reply, Same, TypeOK
  <2>2. /\ replies[m][s] = "pending"
        /\ \A u \in EnabledSources \ {s} : replies'[m][u] = replies[m][u]
        /\ UNCHANGED <<pc, phone, records, answer, stored>>
    BY <1>7, <2>1 DEF Reply, TypeOK
  <2>3. \A u \in EnabledSources : replies[m][u] = "spam" => replies'[m][u] = "spam"
    BY <2>2
  <2> QED BY <2>2, <2>3 DEF LedgerInv
<1>8. ASSUME NEW l \in Lookups, Collect(l) PROVE LedgerInv(m)'
  <2>1. l = m
    BY <1>8 DEF Collect, Same, TypeOK, historyVars
  <2>2. /\ pc[m] = "await" /\ pc'[m] \in {"select", "sync_save", "rlock"}
        /\ UNCHANGED <<phone, replies, answer, stored>>
        /\ \A s \in EnabledSources :
              records'[m][s] = IF replies[m][s] \in {"spam", "clean"}
                               THEN replies[m][s] ELSE records[m][s]
    BY <1>8, <2>1 DEF Collect, TypeOK
  <2> QED BY <2>2 DEF LedgerInv
<1>9. ASSUME NEW l \in Lookups,
             \/ SyncSave(l) \/ SyncSaveFails(l) \/ RLock(l) \/ CheckClosed(l) \/ Send(l)
      PROVE LedgerInv(m)'
  <2>1. /\ pc[l] # "done" /\ pc'[l] \in Gathered
        /\ \A k \in Lookups \ {l} : pc'[k] = pc[k]
        /\ UNCHANGED <<phone, records, replies, answer>>
        /\ stored \subseteq stored'
    BY <1>9 DEF SyncSave, SyncSaveFails, RLock, CheckClosed, Send, Upsert, TypeOK, Gathered,
                historyVars
  <2> QED BY <2>1 DEF LedgerInv, Gathered
<1>10. ASSUME WriterStep PROVE LedgerInv(m)'
  BY <1>10
  DEF WriterStep, Receive, SaveBatch, SaveBatchFails, WriterExit, Upsert, lookupVars,
      historyVars, Same
<1>11. ASSUME NEW c \in Closers, CallClose(c) \/ CloserStep(c) PROVE LedgerInv(m)'
  BY <1>11
  DEF CallClose, CloserStep, LockForClose, CloseChannel, WaitWriter, ReturnClose,
      lookupVars, historyVars, Same
<1>12. ASSUME UNCHANGED vars PROVE LedgerInv(m)'
  BY <1>12 DEF vars, lookupVars, historyVars, Same
<1> QED
  BY <1>1, <1>2, <1>3, <1>4, <1>5, <1>6, <1>7, <1>8, <1>9, <1>10, <1>11, <1>12
  DEF Next, ClientStep, LookupStep, SourceStep

LEMMA RefinementInvNext == RefinementInv /\ [Next]_vars => RefinementInv'
<1> SUFFICES ASSUME RefinementInv, [Next]_vars PROVE RefinementInv'
  OBVIOUS
<1>1. TypeOK /\ TypeInv'
  BY TypeNext DEF RefinementInv, TypeInv
<1>2. ResultInv' /\ ReportInv'
  BY <1>1, ResultNext, ReportNext DEF RefinementInv
<1>3. (\A l \in Lookups : LedgerInv(l))'
  BY <1>1, LedgerInvNext DEF RefinementInv
<1> QED BY <1>1, <1>2, <1>3 DEF RefinementInv

THEOREM RefinementInvariant == Spec => []RefinementInv
<1>1. Init => RefinementInv
  BY TypeInit, ResultInit, ReportInit, LedgerInvInit DEF RefinementInv
<1> QED BY <1>1, RefinementInvNext, PTL DEF Spec

----------------------------------------------------------------------------
(* A lookup that has begun and not returned waits, in the ledger. *)
LEMMA WaitingInLedger ==
    ASSUME RefinementInv, NEW l \in Lookups
    PROVE  Ledger!Waiting(l) <=> pc[l] \notin {"idle", "done"}
<1>1. LedgerInv(l) /\ (pc[l] # "idle" => phone[l] \in Phones)
  BY DEF RefinementInv, TypeInv, PhoneInv
<1>2. None \notin Phones /\ None \notin Results
  BY NoneAssumption
<1> QED BY <1>1, <1>2 DEF LedgerInv, Ledger!Waiting

LEMMA BeginInLedger ==
    ASSUME RefinementInv, NEW l \in Lookups, NEW p \in Phones, NEW r \in Requested,
           Begin(l, p, r)
    PROVE  Ledger!Next
<1>1. ~Ledger!Waiting(l)
  BY WaitingInLedger DEF Begin
<1>2. Ledger!Ask(l, p)
  BY <1>1 DEF Begin, Ledger!Ask, NoReplies
<1> QED BY <1>2 DEF Ledger!Next

LEMMA DispatchInLedger ==
    ASSUME RefinementInv, NEW l \in Lookups, Dispatch(l) PROVE Ledger!Next
<1> DEFINE asked == Missing(list[l], records[l]) \cap EnabledSources
<1>1. Ledger!Waiting(l) /\ pc[l] = "decide"
  BY WaitingInLedger DEF Dispatch
<1>2. \A s \in EnabledSources : replies[l][s] = "none"
  BY <1>1 DEF RefinementInv, ResultInv, OneLookupInv, RecordInv
<1>3. Ledger!Consult(l, asked)
  <2>1. replies' = [replies EXCEPT ![l] =
            [s \in EnabledSources |-> IF s \in asked THEN "pending" ELSE "none"]]
    BY DEF Dispatch
  <2> QED BY <1>1, <1>2, <2>1 DEF Dispatch, historyVars, Ledger!Consult
<1>4. asked \in SUBSET EnabledSources
  OBVIOUS
<1> QED BY <1>3, <1>4 DEF Ledger!Next

LEMMA ReplyInLedger ==
    ASSUME NEW l \in Lookups, NEW s \in EnabledSources, SourceStep(l, s)
    PROVE  Ledger!Next
<1>1. PICK o \in SourceOutcomes : Reply(l, s, o)
  BY DEF SourceStep
<1>2. o \in {"spam", "clean"} \cup FailureClasses
  BY OutcomesAssumption
<1>3. Ledger!Hear(l, s, o)
  BY <1>1 DEF Reply, Ledger!Hear
<1> QED BY <1>2, <1>3 DEF Ledger!Next

LEMMA SaveInLedger ==
    ASSUME RefinementInv, NEW rows, rows \subseteq reported, stored' = Upsert(rows),
           ~DisableCache, UNCHANGED <<reported, phone, replies, answer>>
    PROVE  Ledger!Next
<1>1. Ledger!WriteDown(rows)
  BY DEF Upsert, Ledger!WriteDown
<1>2. rows \in SUBSET reported
  OBVIOUS
<1> QED BY <1>1, <1>2 DEF Ledger!Next

(* What is answered from a record: a clean one only when no source and no  *)
(* row says spam.                                                          *)
LEMMA RecordInLedger ==
    ASSUME RefinementInv, NEW l \in Lookups, AnswerFromCache(l) \/ Finish(l),
           Available(list[l], records[l])
    PROVE  Ledger!Next
<1> DEFINE src == Selected(list[l], records[l])
<1>1. /\ TypeOK /\ LedgerInv(l) /\ OneLookupInv(l) /\ pc[l] \in {"decide", "select"}
  BY DEF RefinementInv, TypeInv, ResultInv, AnswerFromCache, Finish
<1>2. list[l] \in Seq(Spellings) /\ records[l] \in [EnabledSources -> Verdicts]
  BY <1>1, RequestedType DEF TypeOK
<1>3. PICK k \in Enabled(list[l]) :
        /\ NameAt(list[l], k) = src
        /\ records[l][src] \in {"spam", "clean"}
        /\ \A j \in Enabled(list[l]) :
              records[l][NameAt(list[l], j)] = "spam" => records[l][src] = "spam"
  BY <1>2, SelectedProperties
<1>4. src \in EnabledSources /\ src \in Used(l)
  BY <1>2, <1>3, SelectedProperties DEF Used
<1>5. Ledger!Waiting(l)
  BY <1>1, WaitingInLedger
<1>6. \A s \in EnabledSources : replies[l][s] # "pending"
  BY <1>1 DEF OneLookupInv, RecordInv, KnownInv, Gathered
<1>7. Ledger!Tell(l, [verdict |-> records[l][src], source |-> src])
  <2>1. answer' = [answer EXCEPT ![l] = [verdict |-> records[l][src], source |-> src]]
    BY <1>1, RequestedType DEF AnswerFromCache, Finish, Return, RecordOf
  <2> QED BY <1>5, <1>6, <2>1
      DEF AnswerFromCache, Finish, historyVars, Ledger!Tell, Ledger!Said
<1>8. CASE records[l][src] = "spam"
  <2>1. Ledger!TellSpam(l, src)
    BY <1>1, <1>4, <1>7, <1>8 DEF LedgerInv, Ledger!TellSpam
  <2> QED BY <1>4, <2>1 DEF Ledger!Next
<1>9. CASE records[l][src] = "clean"
  <2>1. pc[l] = "select"
    BY <1>1, <1>4, <1>9 DEF OneLookupInv, RecordInv
  <2>2. replies[l][src] = "clean"
    BY <1>1, <1>2, <1>4, <1>6, <1>9, <2>1 DEF OneLookupInv, RecordInv, Gathered, TypeOK, Replies
  <2>3. ASSUME NEW s \in EnabledSources, replies[l][s] = "spam" PROVE FALSE
    <3>1. s \in Used(l)
      BY <1>1, <2>3 DEF OneLookupInv, KnownInv
    <3>2. records[l][s] = "spam"
      BY <1>1, <2>1, <2>3, <3>1 DEF OneLookupInv, RecordInv, Gathered
    <3>3. PICK j \in Enabled(list[l]) : NameAt(list[l], j) = s
      BY <3>1 DEF Used
    <3> QED BY <1>3, <1>9, <3>2, <3>3
  <2>4. Ledger!TellClean(l, src)
    BY <1>7, <1>9, <2>2, <2>3 DEF Ledger!TellClean, Ledger!Said
  <2> QED BY <1>4, <2>4 DEF Ledger!Next
<1> QED BY <1>3, <1>8, <1>9

(* What is answered without a record: some source failed, and none of them *)
(* has given a verdict.                                                    *)
LEMMA ErrorInLedger ==
    ASSUME RefinementInv, NEW l \in Lookups, AnswerFromCache(l) \/ Finish(l),
           ~Available(list[l], records[l])
    PROVE  Ledger!Next
<1> DEFINE err == LookupError(queryCtx[l], Failures(l))
<1>1. TypeOK /\ OneLookupInv(l)
  BY DEF RefinementInv, TypeInv, ResultInv
<1>2. Finish(l) /\ pc[l] = "select"
  BY <1>1, RequestedType, ReadyIsAvailable DEF TypeOK, AnswerFromCache, Finish
<1>3. Used(l) \subseteq EnabledSources /\ Used(l) # {}
  BY <1>1, UsedIsEnabled DEF OneLookupInv, Used
<1>4. \A s \in Used(l) : records[l][s] = "none"
  BY <1>1, <1>3 DEF Available, WithVerdict, Used, TypeOK, Verdicts
<1>5. \A s \in Used(l) : replies[l][s] \in FailureClasses
  BY <1>1, <1>2, <1>3, <1>4 DEF OneLookupInv, RecordInv, Gathered, TypeOK, Replies
<1>6. \A s \in EnabledSources : replies[l][s] \notin {"spam", "clean", "pending"}
  BY <1>1, <1>5 DEF OneLookupInv, KnownInv, FailureClasses
<1>7. Failures(l) # {}
  BY <1>3, <1>5 DEF Failures
<1>8. err \in FailureClasses
  BY <1>7 DEF LookupError, FailureClasses
<1>9. Ledger!Tell(l, [error |-> err])
  <2>1. answer' = [answer EXCEPT ![l] = [error |-> err]]
    BY <1>2 DEF Finish, Return
  <2>2. Ledger!Waiting(l)
    BY <1>2, WaitingInLedger
  <2> QED BY <1>2, <1>6, <2>1, <2>2 DEF Finish, historyVars, Ledger!Tell, Ledger!Said
<1>10. Ledger!TellError(l, err)
  <2>1. \E f \in FailureClasses : Ledger!Said(l, f)
    BY <1>3, <1>5 DEF Ledger!Said
  <2> QED BY <1>6, <1>9, <2>1 DEF Ledger!TellError, Ledger!Said
<1> QED BY <1>8, <1>10 DEF Ledger!Next

LEMMA LedgerNext ==
    RefinementInv /\ [Next]_vars => [Ledger!Next]_(Ledger!ledgerVars)
<1> SUFFICES ASSUME RefinementInv, [Next]_vars
             PROVE  Ledger!Next \/ UNCHANGED <<stored, reported, phone, replies, answer>>
  BY DEF Ledger!ledgerVars
<1> Kept /\ \A l \in Lookups : Traced(l)
  BY ReportInvParts DEF RefinementInv
<1>1. ASSUME NEW l \in Lookups, NEW p \in Phones, NEW r \in Requested, Begin(l, p, r)
      PROVE Ledger!Next
  BY <1>1, BeginInLedger
<1>2. ASSUME NEW l \in Lookups,
             \/ ClientLeaves(l) \/ QueryTimeout(l) \/ ReadCache(l) \/ CacheFails(l)
             \/ Collect(l) \/ SyncSaveFails(l) \/ RLock(l) \/ CheckClosed(l) \/ Send(l)
      PROVE UNCHANGED <<stored, reported, phone, replies, answer>>
  BY <1>2
  DEF ClientLeaves, QueryTimeout, ReadCache, CacheFails, Collect, SyncSaveFails, RLock,
      CheckClosed, Send, historyVars
<1>3. ASSUME NEW l \in Lookups, AnswerFromCache(l) \/ Finish(l) PROVE Ledger!Next
  BY <1>3, RecordInLedger, ErrorInLedger
<1>4. ASSUME NEW l \in Lookups, Dispatch(l) PROVE Ledger!Next
  BY <1>4, DispatchInLedger
<1>5. ASSUME NEW l \in Lookups, NEW s \in EnabledSources, SourceStep(l, s) PROVE Ledger!Next
  BY <1>5, ReplyInLedger
<1>6. ASSUME NEW l \in Lookups, SyncSave(l) PROVE Ledger!Next
  <2>1. SpamRows(l) \subseteq reported /\ ~DisableCache
    BY <1>6, SpamRowsAreReported DEF SyncSave, Traced
  <2> QED BY <1>6, <2>1, SaveInLedger DEF SyncSave, historyVars
<1>7. ASSUME SaveBatch
      PROVE Ledger!Next \/ UNCHANGED <<stored, reported, phone, replies, answer>>
  <2>1. /\ stored' = Upsert(inHand) /\ inHand \subseteq reported
        /\ UNCHANGED <<reported, phone, replies, answer>>
    BY <1>7 DEF SaveBatch, Kept, lookupVars, historyVars
  <2>2. CASE DisableCache
    BY <2>1, <2>2 DEF Kept, Upsert
  <2>3. CASE ~DisableCache
    BY <2>1, <2>3, SaveInLedger
  <2> QED BY <2>2, <2>3
<1>8. ASSUME Receive \/ SaveBatchFails \/ WriterExit
      PROVE UNCHANGED <<stored, reported, phone, replies, answer>>
  BY <1>8 DEF Receive, SaveBatchFails, WriterExit, lookupVars, historyVars
<1>9. ASSUME NEW c \in Closers, CallClose(c) \/ CloserStep(c)
      PROVE UNCHANGED <<stored, reported, phone, replies, answer>>
  BY <1>9
  DEF CallClose, CloserStep, LockForClose, CloseChannel, WaitWriter, ReturnClose, lookupVars,
      historyVars
<1>10. CASE UNCHANGED vars
  BY <1>10 DEF vars, lookupVars, historyVars
<1> QED
  BY <1>1, <1>2, <1>3, <1>4, <1>5, <1>6, <1>7, <1>8, <1>9, <1>10
  DEF Next, ClientStep, LookupStep, WriterStep

(* QueryService implements SpamLedger: every step of a lookup, a source,   *)
(* the writer or Close is a step of the ledger or does not concern it.     *)
THEOREM ImplementsLedger == Spec => ServesTheLedger
<1>1. Init => Ledger!Init
  BY DEF Init, Ledger!Init, NoReplies
<1> QED
  BY <1>1, RefinementInvariant, LedgerNext, PTL DEF Spec, ServesTheLedger, Ledger!Spec
=============================================================================
