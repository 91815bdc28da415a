----------------------------- MODULE AnswerPath -----------------------------
(***************************************************************************)
(* A query that the cache cannot answer, from the pages of the sources to  *)
(* the response of the client: LookupAll, the choice among what the        *)
(* sources said, errorStatus, and the location of the number               *)
(* (httpapi/handler.go queryV2).  It composes ProviderExchange, the        *)
(* operators of SourceSelection and PhoneSearch.                           *)
(***************************************************************************)
EXTENDS ProviderExchange, PhoneSearch

CONSTANT Order  \* the sources by priority

ASSUME OrderAssumption == Order \in {<<"sogou", "360">>, <<"360", "sogou">>}

VARIABLES
    status,  \* the response: a status code, 0 before it
    verdict  \* what it says of the number

vars == <<exchangeVars, searchVars, status, verdict>>

Selection == INSTANCE SourceSelection WITH
    Spellings <- Providers, Names <- Providers, Blank <- "",
    TrimSpace <- [s \in Providers |-> s], DefaultList <- Order

Init ==
    /\ ExchangeInit /\ SearchInit
    /\ status = 0
    /\ verdict = "none"

Records ==
    [s \in Providers |-> IF outcome[s] \in {"spam", "clean"} THEN outcome[s] ELSE "none"]

Failures == {outcome[s] : s \in Providers} \cap Selection!FailureClasses

(* Defect: an error no case names. *)
PlainStatus(error) == IF error = "rate_limited" THEN 429 ELSE 503

(* errorStatus *)
ErrorStatus(error) ==
    CASE error = "rate_limited" -> 429
      [] error = "timeout" -> 504
      [] error \in {"unavailable", "not_found"} -> 503
      [] OTHER -> 500

(* LookupAll has returned: an error is the response; a record still needs  *)
(* the location.                                                           *)
Choose(digits, searchable) ==
    /\ \A s \in Providers : at[s] = "done"
    /\ status = 0 /\ search = "off"
    /\ IF Selection!Available(Order, Records)
       THEN /\ verdict' = Records[Selection!Selected(Order, Records)]
            /\ Find(digits, searchable)
            /\ UNCHANGED status
       ELSE /\ status' = ErrorStatus(Selection!LookupError(ctx, Failures))
            /\ UNCHANGED <<verdict, searchVars>>
    /\ UNCHANGED exchangeVars

Locate == Look /\ UNCHANGED <<exchangeVars, status, verdict>>

Respond200 ==
    /\ search \in {"found", "none", "unsearchable"} /\ status = 0
    /\ status' = 200
    /\ UNCHANGED <<exchangeVars, searchVars, verdict>>

Query(s) == Exchange(s) /\ UNCHANGED <<searchVars, status, verdict>>

(* The client leaves, or the two seconds are over. *)
TheContextEnds(how) == ContextEnds(how) /\ UNCHANGED <<searchVars, status, verdict>>

Answer ==
    \/ \E digits \in Prefixes, searchable \in BOOLEAN : Choose(digits, searchable)
    \/ Locate
    \/ Respond200

Next ==
    \/ \E s \in Providers : Query(s)
    \/ TheContextEnds("canceled") \/ TheContextEnds("deadline")
    \/ Answer

Spec == Init /\ [][Next]_vars

(* The goroutines run and the query timeout fires; a client may stay.  A   *)
(* request under a context that has ended fails if nothing else happens,   *)
(* and no lookup waits for its source for ever (SourceRuntime's            *)
(* EveryLookupReturns).                                                    *)
FairSpec ==
    /\ Spec
    /\ \A s \in Providers : WF_vars(Query(s))
    /\ WF_vars(Answer)

----------------------------------------------------------------------------
(* Every variable stays within the values its Go type and use allow. *)
TypeOK ==
    /\ ExchangeTypeOK /\ SearchTypeOK
    /\ status \in {0, 200, 429, 500, 503, 504}
    /\ verdict \in {"none", "spam", "clean"}

(* The page of a source showed the number of the query, or, at 360, digits *)
(* that contain it.                                                        *)
ShowedNumber(s, marks) ==
    \E card \in shown[s] :
        card.mark \in marks /\ (card.number = "own" \/ (s = "360" /\ card.number = "within"))

(* "Not spam" is said only if the page of some source showed the number    *)
(* without a label of its own, and no page showed the number's own card    *)
(* with its label; "spam" only if a page that showed it had a label.  No   *)
(* refusal, error, empty answer or unreadable page counts as either        *)
(* (so360.go:90, DEPLOY.md:359), whatever the other source says and the    *)
(* priority.                                                               *)
CleanWasShown ==
    /\ verdict = "clean" =>
           /\ \E s \in Providers : ShowedNumber(s, {"none", "empty", "elsewhere"})
           /\ \A s \in Providers : [number |-> "own", mark |-> "label"] \notin shown[s]
    /\ verdict = "spam" => \E s \in Providers : ShowedNumber(s, {"label", "elsewhere"})

(* The status says why there is no verdict: 200 exactly if a source gave   *)
(* one; otherwise 429 exactly after a refusal, of this query or one that   *)
(* still holds; 504 only after a timeout, 503 only if every source was     *)
(* unavailable, 500 only to a client that left (response.go errorStatus,   *)
(* selection.go firstLookupError).                                         *)
StatusTellsWhy ==
    LET answered == \E s \in Providers : outcome[s] \in {"spam", "clean"}
        limited(s) == Refused(s) \/ ("withheld" \in seen[s] /\ outcome[s] = "rate_limited")
    IN  /\ status # 0 => (status = 200 <=> answered)
        /\ status # 0 /\ ~answered => (status = 429 <=> \E s \in Providers : limited(s))
        /\ status = 504 => ctx = "deadline" \/ \E s \in Providers : outcome[s] = "timeout"
        /\ status = 503 => \A s \in Providers : outcome[s] = "unavailable"
        /\ status = 500 => ctx = "canceled"

(* What is left to a source and to the search.                             *)
QueryLeft(s) ==
    CASE at[s] = "queued"  -> MaxRedirects + 2
      [] at[s] = "request" -> MaxRedirects + 2 - Len(sent[s])
      [] at[s] = "page"    -> 1
      [] at[s] = "done"    -> 0

Width == right - left + 1

(* Every step counts: a source that redirects may do so only so often, and *)
(* each look at the index halves what is left of it (client.go             *)
(* CheckRedirect, phone_data.go Find).                                     *)
EveryStepCounts ==
    [][/\ \A s \in Providers : Query(s) => QueryLeft(s)' \in 0..QueryLeft(s) - 1
       /\ Locate /\ search' = "searching" => Width' \in 0..Width \div 2]_vars

(* A query that was asked gets a response, whatever the sources do: none   *)
(* redirects for ever, and the search of the index ends.                   *)
EveryQueryEnds == <>(status # 0)
=============================================================================
