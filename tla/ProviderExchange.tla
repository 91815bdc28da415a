-------------------------- MODULE ProviderExchange --------------------------
(***************************************************************************)
(* One query of each web source (provider/sogou.go, so360.go, client.go):  *)
(* the request, its redirects, the page, and what sourceRuntime.lookup     *)
(* makes of it (normalizeProviderError) or returns without a request.  A   *)
(* page counts by its status, by whether it asks for a captcha, and by     *)
(* what card it shows.  The sources are external: they answer with         *)
(* anything.  What was seen of a query is recorded where it arrives and    *)
(* apart from what the code concludes from it.                             *)
(***************************************************************************)
EXTENDS Integers, Sequences

CONSTANT MaxRedirects  \* the requests of one query, the first one included

ASSUME RedirectsAssumption == MaxRedirects \in Nat \ {0}

Providers == {"sogou", "360"}

VARIABLES
    ctx,      \* the context of the queries: live, canceled or past its deadline
    at,       \* where the query of each source is
    sent,     \* the schemes of the requests it has made
    head,     \* status and Retry-After of the page it reads
    outcome,  \* its end: a verdict or a class of error
    cooldown, \* how long a rate limit asks to wait
    seen,     \* history: what arrived of the query, or kept it from being made
    shown     \* history: the card of the page, if it came with success and no captcha

exchangeVars == <<ctx, at, sent, head, outcome, cooldown, seen, shown>>

----------------------------------------------------------------------------
Schemes == {"https", "http"}

(* Retry-After: absent or invalid, in the future, in the past. *)
RetryAfters == {"absent", "later", "past"}

(* 403 and 429; another status that is not 2xx, as a redirect without a    *)
(* location is.                                                            *)
Statuses == {"ok", "refused", "other"}

Heads == [status: Statuses, retryAfter: RetryAfters]

NoHead == [status |-> "other", retryAfter |-> "absent"]

(* What a page shows: the number of the query itself, only longer digits   *)
(* that contain it, or neither (also nothing that can be parsed); and      *)
(* whether the card of that number has no mark, an empty one, a label, or  *)
(* the label of another card stands on the page.                           *)
Cards == [number: {"own", "within", "absent"}, mark: {"none", "empty", "label", "elsewhere"}]

(* 403 or 429, another failing status, a Retry-After in the future, a      *)
(* redirect to the antispider page, a captcha that was read, a body that   *)
(* could not be read, a query that was not made.                           *)
Facts == {"refused", "error", "asks", "challenge", "captcha", "cut", "withheld"}

HeadFacts(h) ==
    {f \in {"refused", "error", "asks"} :
        \/ f = "refused" /\ h.status = "refused"
        \/ f = "error" /\ h.status = "other"
        \/ f = "asks" /\ h.retryAfter = "later"}

Outcomes == {"none", "spam", "clean", "rate_limited", "timeout", "canceled", "unavailable"}

Cooldowns == {"none", "asked", "default"}

ExchangeInit ==
    /\ ctx = "live"
    /\ at = [s \in Providers |-> "queued"]
    /\ sent = [s \in Providers |-> <<>>]
    /\ head = [s \in Providers |-> NoHead]
    /\ outcome = [s \in Providers |-> "none"]
    /\ cooldown = [s \in Providers |-> "none"]
    /\ seen = [s \in Providers |-> {}]
    /\ shown = [s \in Providers |-> {}]

ContextEnds(how) ==
    /\ ctx = "live"
    /\ ctx' = how
    /\ UNCHANGED <<at, sent, head, outcome, cooldown, seen, shown>>

----------------------------------------------------------------------------
(* The end of a query: its result, the facts that arrive with it and the   *)
(* cards it was read from.                                                 *)
End(s, how, wait, facts, cards) ==
    /\ at' = [at EXCEPT ![s] = "done"]
    /\ outcome' = [outcome EXCEPT ![s] = how]
    /\ cooldown' = [cooldown EXCEPT ![s] = wait]
    /\ seen' = [seen EXCEPT ![s] = @ \cup facts]
    /\ shown' = [shown EXCEPT ![s] = cards]
    /\ sent' = [sent EXCEPT ![s] = <<>>]
    /\ head' = [head EXCEPT ![s] = NoHead]
    /\ UNCHANGED ctx

(* sourceRuntime returns without a request: with the error of a cooldown,  *)
(* a rate limit, or of an open circuit, the failure that opened it; or as  *)
(* the context ends while it waits for a permit or its turn.               *)
Withhold(s) ==
    /\ at[s] = "queued"
    /\ \E how \in {"rate_limited", "timeout", "unavailable", "canceled"} :
           /\ how = "canceled" => ctx = "canceled"
           /\ End(s, how, "none", {"withheld"}, {})

Ask(s) ==
    /\ at[s] = "queued"
    /\ at' = [at EXCEPT ![s] = "request"]
    /\ sent' = [sent EXCEPT ![s] = <<"https">>]
    /\ UNCHANGED <<ctx, head, outcome, cooldown, seen, shown>>

(* Defect: the default of 30 seconds is forgotten. *)
OnlyWhatIsAsked(s, retryAfter) == IF retryAfter = "later" THEN "asked" ELSE "none"

(* rateLimitError, and sogouRateLimitError with its default. *)
Wait(s, retryAfter) ==
    IF retryAfter = "later" THEN "asked" ELSE IF s = "sogou" THEN "default" ELSE "none"

(* doRequestWithLimit fails before there is a page that was read: on the   *)
(* way, in decompression or at the size limit; as a timeout if the         *)
(* transport says so, and under a context that has ended as that context.  *)
Fails(s) ==
    /\ at[s] \in {"request", "page"}
    /\ \E how \in {"timeout", "unavailable", "canceled"} :
           /\ how = "canceled" => ctx = "canceled"
           /\ End(s, how, "none", {"cut"}, {})

(* CheckRedirect of newHTTPClient; Len(sent) is len(via). *)
MayFollow(s, scheme) ==
    /\ Len(sent[s]) < MaxRedirects
    /\ sent[s][Len(sent[s])] = "https" => scheme = "https"

(* A redirect to the captcha page of sogou counts before the policy all    *)
(* sources share, which may refuse it.                                     *)
Redirect(s, scheme, challenge, retryAfter) ==
    /\ at[s] = "request"
    /\ IF s = "sogou" /\ challenge
       THEN LET asks == IF retryAfter = "later" THEN {"asks"} ELSE {}
            IN  End(s, "rate_limited", Wait(s, retryAfter), {"challenge"} \cup asks, {})
       ELSE IF ~MayFollow(s, scheme) THEN End(s, "unavailable", "none", {}, {})
       ELSE /\ sent' = [sent EXCEPT ![s] = Append(@, scheme)]
            /\ UNCHANGED <<ctx, at, head, outcome, cooldown, seen, shown>>

Respond(s, h) ==
    /\ at[s] = "request"
    /\ at' = [at EXCEPT ![s] = "page"]
    /\ head' = [head EXCEPT ![s] = h]
    /\ seen' = [seen EXCEPT ![s] = HeadFacts(h)]
    /\ UNCHANGED <<ctx, sent, outcome, cooldown, shown>>

(* 360 looks for a captcha under any status, sogou only in a page that     *)
(* came with success.                                                      *)
Refuses(s, h, captcha) ==
    h.status = "refused" \/ (captcha /\ (s = "360" \/ h.status = "ok"))

(* Defect: a page without the card of the number counts as not marked. *)
AnyPage(s, card) == IF card.mark = "label" THEN "spam" ELSE "clean"

(* parseSogouCard: a card is a title and the element around it, the number *)
(* one run of digits in it, the label that title's.  parseSo360Card: the   *)
(* number may be part of the digits of a card joined together, the label   *)
(* is the first mark on the page, and an empty mark is an error.           *)
Verdict(s, card) ==
    CASE s = "sogou" /\ card.number = "own" ->
             IF card.mark = "label" THEN "spam" ELSE "clean"
      [] s = "360" /\ card.number # "absent" /\ card.mark # "empty" ->
             IF card.mark = "none" THEN "clean" ELSE "spam"
      [] OTHER -> "unavailable"

(* Lookup of both sources, once the page is read. *)
Read(s, captcha, card) ==
    LET h == head[s]
        facts == IF captcha THEN {"captcha"} ELSE {}
        cards == IF h.status = "ok" /\ ~captcha THEN {card} ELSE {}
    IN  /\ at[s] = "page"
        /\ IF Refuses(s, h, captcha)
           THEN End(s, "rate_limited", Wait(s, h.retryAfter), facts, cards)
           ELSE IF h.status # "ok" THEN End(s, "unavailable", "none", facts, cards)
           ELSE End(s, Verdict(s, card), "none", facts, cards)

Exchange(s) ==
    \/ Withhold(s) \/ Ask(s) \/ Fails(s)
    \/ \E scheme \in Schemes, challenge \in BOOLEAN, wait \in RetryAfters :
           Redirect(s, scheme, challenge, wait)
    \/ \E h \in Heads : Respond(s, h)
    \/ \E captcha \in BOOLEAN, card \in Cards : Read(s, captcha, card)

ExchangeTypeOK ==
    /\ ctx \in {"live", "canceled", "deadline"}
    /\ at \in [Providers -> {"queued", "request", "page", "done"}]
    /\ sent \in [Providers -> Seq(Schemes)]
    /\ head \in [Providers -> Heads]
    /\ outcome \in [Providers -> Outcomes]
    /\ cooldown \in [Providers -> Cooldowns]
    /\ seen \in [Providers -> SUBSET Facts]
    /\ shown \in [Providers -> SUBSET Cards]

(* However a source redirects, the number is never sent in the clear once  *)
(* it was sent encrypted, and no query makes more than its number of       *)
(* requests, also with the policy sogou puts before the shared one         *)
(* (client.go CheckRedirect, sogou.go newSogouProvider).                   *)
AlwaysEncrypted ==
    \A s \in Providers :
        /\ Len(sent[s]) \in 0..MaxRedirects
        /\ \A i \in 1..Len(sent[s]) : sent[s][i] = "https"

(* A source refused by its status or a captcha on a page that was read, or *)
(* by its redirect.  sogou does not look for a captcha in an error page.   *)
Refused(s) ==
    \/ "challenge" \in seen[s]
    \/ /\ "cut" \notin seen[s]
       /\ \/ "refused" \in seen[s]
          \/ "captcha" \in seen[s] /\ ~(s = "sogou" /\ "error" \in seen[s])

(* Nothing else counts as a rate limit than what a source sent as one, or  *)
(* an earlier one that still holds; and a refusal that was read is always  *)
(* followed by the time it asks for, with sogou by 30 seconds if it asks   *)
(* for none (sogou.go sogouRateLimitError, so360.go Lookup, DEPLOY.md:359).*)
RefusalBacksOff ==
    \A s \in Providers : at[s] = "done" =>
        /\ Refused(s) => outcome[s] = "rate_limited"
        /\ outcome[s] = "rate_limited" => Refused(s) \/ "withheld" \in seen[s]
        /\ cooldown[s] = IF ~Refused(s) THEN "none"
                         ELSE IF "asks" \in seen[s] THEN "asked"
                         ELSE IF s = "sogou" THEN "default" ELSE "none"
=============================================================================
