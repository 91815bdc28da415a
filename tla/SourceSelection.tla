-------------------------- MODULE SourceSelection --------------------------
(***************************************************************************)
(* The pure part of query/service: which of the sources a client named are *)
(* used, in which order, and which of their records answers the lookup.    *)
(*                                                                         *)
(* A list of sources is a sequence of spellings, as the client or the      *)
(* configuration wrote them.  The code copies the spellings it keeps into  *)
(* a new slice; here the list stays as it is and the positions kept are a  *)
(* set, whose order is the order of priority.                              *)
(*                                                                         *)
(* The records a lookup holds are a function on the enabled sources, with  *)
(* "none" for a source that has no entry in the code's map.                *)
(***************************************************************************)
EXTENDS Naturals, Sequences

CONSTANTS
    Spellings,    \* how a source may be written in a request
    Names,        \* the names that are left once the blanks are trimmed
    Blank,        \* the name of a spelling that is only blanks
    TrimSpace,    \* [Spellings -> Names \cup {Blank}]
    DefaultList   \* Options.DefaultSources, in the order of priority

ASSUME TrimSpaceAssumption ==
    /\ Blank \notin Names
    /\ TrimSpace \in [Spellings -> Names \cup {Blank}]

ASSUME DefaultListAssumption ==
    /\ DefaultList \in Seq(Spellings)
    /\ \E i \in DOMAIN DefaultList : TrimSpace[DefaultList[i]] # Blank

NameAt(list, i) == TrimSpace[list[i]]

(* normalizeSources: a blank entry and a repeated name are dropped. *)
Normalized(list) ==
    {i \in DOMAIN list : /\ NameAt(list, i) # Blank
                         /\ \A j \in 1..(i - 1) : NameAt(list, j) # NameAt(list, i)}

(* New: the default sources are the whitelist of the service. *)
EnabledSources == {NameAt(DefaultList, i) : i \in Normalized(DefaultList)}

Enabled(list) == {i \in Normalized(list) : NameAt(list, i) \in EnabledSources}

(* LookupWithSources: a request that names no enabled source falls back to *)
(* the default list.                                                       *)
EffectiveList(list) == IF Enabled(list) = {} THEN DefaultList ELSE list

Mode(list) == IF Enabled(list) = {} THEN "v1_fallback" ELSE "v2"

----------------------------------------------------------------------------
Verdicts == {"none", "spam", "clean"}

NoRecords == [s \in EnabledSources |-> "none"]

First(positions) == CHOOSE i \in positions : \A j \in positions : i <= j

WithVerdict(list, records, verdicts) ==
    {i \in Enabled(list) : records[NameAt(list, i)] \in verdicts}

(* Defect: every source is queried again, the cached ones too. *)
AllSources(list, records) == {NameAt(list, i) : i \in Enabled(list)}

(* collectMissingSources *)
Missing(list, records) ==
    {NameAt(list, i) : i \in WithVerdict(list, records, {"none"})}

(* Defect: a cached spam record is returned at once, over missing sources  *)
(* that stand before it.                                                   *)
ReadyOnAnySpam(list, records) ==
    \/ WithVerdict(list, records, {"spam"}) # {}
    \/ WithVerdict(list, records, {"none"}) = {} /\ Enabled(list) # {}

(* selectReadyResult: the first spam record counts only when no source     *)
(* before it is missing; a record that is not spam only when none is       *)
(* missing at all.                                                         *)
Ready(list, records) ==
    LET spam    == WithVerdict(list, records, {"spam"})
        missing == WithVerdict(list, records, {"none"})
    IN  IF spam # {} THEN \A m \in missing : First(spam) < m
                     ELSE missing = {} /\ Enabled(list) # {}

(* selectAvailableResult: the first spam record, or else the first record. *)
Available(list, records) == WithVerdict(list, records, {"spam", "clean"}) # {}

(* Defect: priority alone decides, so a clean verdict hides a spam one. *)
SelectedByPriority(list, records) ==
    NameAt(list, First(WithVerdict(list, records, {"spam", "clean"})))

Selected(list, records) ==
    LET spam == WithVerdict(list, records, {"spam"})
        any  == WithVerdict(list, records, {"spam", "clean"})
    IN  NameAt(list, First(IF spam # {} THEN spam ELSE any))

----------------------------------------------------------------------------
(* The classes of error a source can answer with, as firstLookupError      *)
(* tells them apart, and those a lookup can end with.                      *)
FailureClasses == {"rate_limited", "timeout", "canceled", "unavailable"}

ErrorClasses == FailureClasses \cup {"not_found"}

(* Defect: the state of the context hides a rate limit. *)
ContextErrorFirst(ctx, failures) ==
    IF ctx = "deadline" THEN "timeout"
    ELSE IF ctx = "canceled" THEN "canceled"
    ELSE IF "rate_limited" \in failures THEN "rate_limited"
    ELSE IF failures = {} THEN "not_found" ELSE "unavailable"

(* firstLookupError: the error of a lookup whose sources failed with       *)
(* `failures` and whose query context is in the state `ctx`; "not_found"   *)
(* when there is no error at all, which lookupWithMode then returns.       *)
LookupError(ctx, failures) ==
    IF "rate_limited" \in failures THEN "rate_limited"
    ELSE IF ctx = "deadline" THEN "timeout"
    ELSE IF ctx = "canceled" THEN "canceled"
    ELSE IF "timeout" \in failures THEN "timeout"
    ELSE IF "canceled" \in failures THEN "canceled"
    ELSE IF failures = {} THEN "not_found" ELSE "unavailable"
=============================================================================
