-------------------------- MODULE AnswerPathProofs --------------------------
(***************************************************************************)
(* The properties of AnswerPath for every index, every priority and every  *)
(* number of redirects.                                                    *)
(***************************************************************************)
EXTENDS AnswerPath, TLAPS

USE DEF Providers

(* The loop of Find: everything before `left` is smaller than the prefix,  *)
(* everything after `right` is larger.                                     *)
Bounds ==
    /\ left \in 0..Len(Table)
    /\ right \in -1..Len(Table)
    /\ \A i \in 1..Len(Table) : i <= left => Table[i] < prefix
    /\ \A i \in 1..Len(Table) : i - 1 > right => Table[i] > prefix

SearchInv ==
    /\ prefix \in Nat /\ search \in SearchStates
    /\ search = "searching" => Bounds
    /\ LocationFound

LEMMA IndexType ==
    /\ Table \in Seq(Nat) /\ Len(Table) \in Nat
    /\ \A i \in 1..Len(Table) : Table[i] \in Nat
    /\ \A i, j \in 1..Len(Table) : i < j => Table[i] < Table[j]
BY TableAssumption

LEMMA HalfType ==
    ASSUME NEW l \in Nat, NEW r \in Int, r >= -1, l <= r
    PROVE  /\ (l + r) \div 2 \in Nat
           /\ l <= (l + r) \div 2 /\ (l + r) \div 2 <= r
OBVIOUS

LEMMA FindKeeps ==
    ASSUME SearchInv, NEW digits \in Prefixes, NEW searchable \in BOOLEAN,
           Find(digits, searchable)
    PROVE  SearchInv'
<1>1. digits \in Nat
  BY PrefixesAssumption
<1>2. CASE searchable
  <2>1. left' = 0 /\ right' = Len(Table) /\ search' = "searching" /\ prefix' = digits
    BY <1>2 DEF Find, PastTheEnd
  <2>2. Bounds'
    BY <2>1, IndexType DEF Bounds
  <2> QED BY <1>1, <2>1, <2>2 DEF SearchInv, LocationFound, SearchStates
<1>3. CASE ~searchable
  BY <1>1, <1>3 DEF Find, SearchInv, LocationFound, SearchStates
<1> QED BY <1>2, <1>3

(* The binary search looks in the right half, whatever the index. *)
LEMMA LookKeeps ==
    ASSUME SearchInv, Look
    PROVE  SearchInv'
<1> DEFINE m == Middle
<1>1. /\ Bounds /\ prefix \in Nat /\ prefix' = prefix
      /\ left \in Nat /\ right \in Int /\ right >= -1
  BY IndexType DEF SearchInv, Look, Bounds
<1>2. CASE left > right /\ Ends("none")
  <2>1. \A i \in 1..Len(Table) : Table[i] # prefix
    <3>1. SUFFICES ASSUME NEW i \in 1..Len(Table) PROVE Table[i] # prefix
      OBVIOUS
    <3>2. i <= left \/ i - 1 > right
      BY <1>1, <1>2, IndexType
    <3> QED BY <3>2, <1>1, IndexType DEF Bounds
  <2> QED BY <2>1, <1>1, <1>2 DEF SearchInv, LocationFound, SearchStates, Ends
<1>3. CASE left <= right /\ Middle >= Len(Table) /\ Ends("none")
  <2>1. left = Len(Table)
    <3>1. m \in Nat /\ m <= right /\ left <= m
      BY <1>1, <1>3, HalfType DEF Middle
    <3>2. right <= Len(Table) /\ left <= Len(Table) /\ m >= Len(Table)
      BY <1>1, <1>3, IndexType DEF Bounds
    <3>3. m = Len(Table) /\ right = Len(Table)
      BY <3>1, <3>2, <1>1, IndexType
    <3> QED BY <3>3, <3>2, <1>1, IndexType DEF Middle
  <2>2. \A i \in 1..Len(Table) : Table[i] # prefix
    <3>1. SUFFICES ASSUME NEW i \in 1..Len(Table) PROVE Table[i] # prefix
      OBVIOUS
    <3>2. Table[i] < prefix
      BY <2>1, <1>1, IndexType DEF Bounds
    <3> QED BY <3>2, <1>1, IndexType
  <2> QED BY <2>2, <1>1, <1>3 DEF SearchInv, LocationFound, SearchStates, Ends
<1>4. ASSUME left <= right, Middle < Len(Table)
      PROVE  m \in Nat /\ m + 1 \in 1..Len(Table) /\ Entry(m) = Table[m + 1]
             /\ left <= m /\ m <= right /\ Table[m + 1] \in Nat
  <2>1. m \in Nat /\ left <= m /\ m <= right
    BY <1>1, <1>4, HalfType DEF Middle
  <2>2. m + 1 \in 1..Len(Table)
    BY <2>1, <1>4, IndexType
  <2> QED BY <2>1, <2>2, IndexType DEF Entry
<1>5. CASE /\ left <= right /\ Middle < Len(Table)
           /\ Entry(Middle) > prefix /\ right' = Middle - 1 /\ UNCHANGED <<left, search>>
  <2>1. \A i \in 1..Len(Table) : i - 1 > right' => Table[i] > prefix
    <3>1. SUFFICES ASSUME NEW i \in 1..Len(Table), i - 1 > m - 1
                   PROVE  Table[i] > prefix
      BY <1>5
    <3>2. i = m + 1 \/ m + 1 < i
      BY <3>1, <1>4, <1>5, IndexType
    <3>3. Table[m + 1] > prefix
      BY <1>4, <1>5
    <3>4. CASE m + 1 < i
      <4>1. Table[m + 1] < Table[i]
        BY <3>4, <1>4, <1>5, IndexType
      <4> QED BY <4>1, <3>3, <1>1, <1>4, <1>5, IndexType
    <3> QED BY <3>2, <3>3, <3>4
  <2>2. right' \in -1..Len(Table)
    BY <1>4, <1>5, IndexType
  <2>3. Bounds'
    BY <2>1, <2>2, <1>1, <1>5 DEF Bounds
  <2>4. search = "searching" /\ search' = "searching"
    BY <1>5 DEF Look
  <2> QED BY <2>3, <2>4, <1>1 DEF SearchInv, LocationFound, SearchStates
<1>6. CASE /\ left <= right /\ Middle < Len(Table)
           /\ Entry(Middle) < prefix /\ left' = Above /\ UNCHANGED <<right, search>>
  <2>1. \A i \in 1..Len(Table) : i <= left' => Table[i] < prefix
    <3>1. SUFFICES ASSUME NEW i \in 1..Len(Table), i <= m + 1
                   PROVE  Table[i] < prefix
      BY <1>6 DEF Above
    <3>2. i = m + 1 \/ i < m + 1
      BY <3>1, <1>4, <1>6, IndexType
    <3>3. Table[m + 1] < prefix
      BY <1>4, <1>6
    <3>4. CASE i < m + 1
      <4>1. Table[i] < Table[m + 1]
        BY <3>4, <1>4, <1>6, IndexType
      <4> QED BY <4>1, <3>3, <1>1, <1>4, <1>6, IndexType
    <3> QED BY <3>2, <3>3, <3>4
  <2>2. left' \in 0..Len(Table)
    BY <1>4, <1>6, IndexType DEF Above
  <2>3. Bounds'
    BY <2>1, <2>2, <1>1, <1>6 DEF Bounds
  <2>4. search = "searching" /\ search' = "searching"
    BY <1>6 DEF Look
  <2> QED BY <2>3, <2>4, <1>1 DEF SearchInv, LocationFound, SearchStates
<1>7. CASE /\ left <= right /\ Middle < Len(Table)
           /\ Entry(Middle) = prefix
           /\ Ends(IF prefix \in Unreadable THEN "none" ELSE "found")
  <2>1. m + 1 \in 1..Len(Table) /\ Table[m + 1] = prefix
    BY <1>4, <1>7
  <2>2. CASE prefix \in Unreadable
    BY <2>2, <1>1, <1>7 DEF SearchInv, LocationFound, SearchStates, Ends
  <2>3. CASE prefix \notin Unreadable
    BY <2>1, <2>3, <1>1, <1>7 DEF SearchInv, LocationFound, SearchStates, Ends
  <2> QED BY <2>2, <2>3
<1> QED BY <1>2, <1>3, <1>5, <1>6, <1>7 DEF Look

----------------------------------------------------------------------------
(* With two sources the choice is a matter of cases. *)
Verdicts == {"none", "spam", "clean"}

LEMMA OrderFacts ==
    /\ DOMAIN Order = {1, 2}
    /\ {Order[1], Order[2]} = Providers /\ Order[1] # Order[2]
    /\ Selection!Enabled(Order) = {1, 2}
    /\ \A i \in {1, 2} : Selection!NameAt(Order, i) = Order[i]
<1>1. /\ DOMAIN Order = {1, 2}
      /\ {Order[1], Order[2]} = Providers /\ Order[1] # Order[2]
  BY OrderAssumption
<1>2. \A i \in {1, 2} : Selection!NameAt(Order, i) = Order[i]
  BY <1>1 DEF Selection!NameAt
<1>3. Selection!Normalized(Order) = {1, 2}
  <2>1. \A j \in 1..0 : FALSE
    OBVIOUS
  <2>2. 1..(2 - 1) = {1} /\ 1..(1 - 1) = {}
    OBVIOUS
  <2>3. Order[1] # "" /\ Order[2] # ""
    BY <1>1
  <2> QED BY <1>1, <1>2, <2>2, <2>3 DEF Selection!Normalized
<1>4. Selection!EnabledSources = Providers
  BY <1>1, <1>2, <1>3 DEF Selection!EnabledSources
<1>5. Selection!Enabled(Order) = {1, 2}
  BY <1>1, <1>2, <1>3, <1>4 DEF Selection!Enabled
<1> QED BY <1>1, <1>2, <1>5

LEMMA FirstOfTwo ==
    ASSUME NEW P, P \subseteq {1, 2}, P # {}
    PROVE  Selection!First(P) \in P
<1>1. \E i \in P : \A j \in P : i <= j
  <2>1. CASE 1 \in P
    BY <2>1
  <2>2. CASE 1 \notin P
    <3>1. P = {2}
      BY <2>2
    <3> QED BY <3>1
  <2> QED BY <2>1, <2>2
<1> QED BY <1>1 DEF Selection!First

LEMMA ChoiceOfTwo ==
    ASSUME NEW records \in [Providers -> Verdicts]
    PROVE  /\ Selection!Available(Order, records) <=> \E s \in Providers : records[s] # "none"
           /\ Selection!Available(Order, records) =>
                  records[Selection!Selected(Order, records)] =
                      IF \E s \in Providers : records[s] = "spam" THEN "spam" ELSE "clean"
<1> DEFINE W(v) == Selection!WithVerdict(Order, records, v)
<1>1. \A v : W(v) = {i \in {1, 2} : records[Order[i]] \in v}
  BY OrderFacts DEF Selection!WithVerdict
<1>2. \A i \in {1, 2} : Order[i] \in Providers /\ records[Order[i]] \in Verdicts
  BY OrderFacts
<1>3. \A s \in Providers : \E i \in {1, 2} : s = Order[i]
  BY OrderFacts
<1>4. Selection!Available(Order, records) <=> \E s \in Providers : records[s] # "none"
  BY <1>1, <1>2, <1>3 DEF Selection!Available, Verdicts
<1>5. W({"spam"}) # {} <=> \E s \in Providers : records[s] = "spam"
  BY <1>1, <1>2, <1>3
<1>6. \A P : P \subseteq {1, 2} /\ P # {} =>
            /\ Selection!First(P) \in P
            /\ Selection!NameAt(Order, Selection!First(P)) = Order[Selection!First(P)]
  BY FirstOfTwo, OrderFacts
<1>7. CASE W({"spam"}) # {}
  <2>1. Selection!Selected(Order, records) = Order[Selection!First(W({"spam"}))]
    BY <1>1, <1>6, <1>7 DEF Selection!Selected
  <2> QED BY <2>1, <1>1, <1>4, <1>5, <1>6, <1>7
<1>8. CASE W({"spam"}) = {}
  <2>1. ASSUME Selection!Available(Order, records)
        PROVE  records[Selection!Selected(Order, records)] = "clean"
    <3>1. W({"spam", "clean"}) # {}
      BY <2>1 DEF Selection!Available
    <3>2. Selection!Selected(Order, records) = Order[Selection!First(W({"spam", "clean"}))]
      BY <1>1, <1>6, <1>8, <3>1 DEF Selection!Selected
    <3> QED BY <3>1, <3>2, <1>1, <1>6, <1>8
  <2> QED BY <2>1, <1>4, <1>5, <1>8
<1> QED BY <1>7, <1>8

----------------------------------------------------------------------------
(* The queries. *)

(* What each source makes of a page. *)
LEMMA CardFacts ==
    ASSUME NEW s \in Providers, NEW card \in Cards
    PROVE  /\ Verdict(s, card) \in {"spam", "clean", "unavailable"}
           /\ Verdict(s, card) \in {"spam", "clean"} =>
                  card.number = "own" \/ (s = "360" /\ card.number = "within")
           /\ Verdict(s, card) = "spam" => card.mark \in {"label", "elsewhere"}
           /\ Verdict(s, card) = "clean" => card.mark \in {"none", "empty", "elsewhere"}
           /\ card = [number |-> "own", mark |-> "label"] => Verdict(s, card) = "spam"
BY DEF Verdict, Cards

(* Refused and RefusalBacksOff, of the facts of one source. *)
RefusedBy(s, facts) ==
    \/ "challenge" \in facts
    \/ /\ "cut" \notin facts
       /\ \/ "refused" \in facts
          \/ "captcha" \in facts /\ ~(s = "sogou" /\ "error" \in facts)

BacksOffBy(s, how, wait, facts) ==
    /\ RefusedBy(s, facts) => how = "rate_limited"
    /\ how = "rate_limited" => RefusedBy(s, facts) \/ "withheld" \in facts
    /\ wait = IF ~RefusedBy(s, facts) THEN "none"
              ELSE IF "asks" \in facts THEN "asked"
              ELSE IF s = "sogou" THEN "default" ELSE "none"

LEMMA OfEachSource ==
    RefusalBacksOff <=>
        \A s \in Providers : at[s] = "done" => BacksOffBy(s, outcome[s], cooldown[s], seen[s])
BY DEF RefusalBacksOff, Refused, BacksOffBy, RefusedBy

(* What a source said is what its page showed, and nothing is known of a   *)
(* query before its page.                                                  *)
EndsAgree ==
    \A s \in Providers :
        /\ at[s] = "done" <=> outcome[s] # "none"
        /\ \A card \in shown[s] : outcome[s] = Verdict(s, card)
        /\ outcome[s] \in {"spam", "clean"} => shown[s] # {}
        /\ outcome[s] = "canceled" => ctx = "canceled"
        /\ at[s] \in {"queued", "request"} => seen[s] = {}
        /\ at[s] = "page" => seen[s] = HeadFacts(head[s])
        /\ at[s] = "request" => Len(sent[s]) >= 1

ExchangeInv == ExchangeTypeOK /\ AlwaysEncrypted /\ RefusalBacksOff /\ EndsAgree

LEMMA ExchangeStays ==
    ASSUME ExchangeInv, UNCHANGED exchangeVars PROVE ExchangeInv'
BY DEF exchangeVars, ExchangeInv, ExchangeTypeOK, AlwaysEncrypted, RefusalBacksOff, Refused,
       EndsAgree, HeadFacts, Verdict

(* Every query that ends leaves an outcome that agrees with what was seen. *)
LEMMA EndKeeps ==
    ASSUME ExchangeInv, NEW s \in Providers,
           NEW how \in Outcomes \ {"none"}, NEW wait \in Cooldowns,
           NEW facts \in SUBSET Facts, NEW cards \in SUBSET Cards,
           End(s, how, wait, facts, cards),
           BacksOffBy(s, how, wait, seen[s] \cup facts),
           \A card \in cards : how = Verdict(s, card),
           how \in {"spam", "clean"} => cards # {},
           how = "canceled" => ctx = "canceled"
    PROVE  ExchangeInv'
<1>1. ExchangeTypeOK'
  <2>1. <<>> \in Seq(Schemes) /\ NoHead \in Heads
    BY DEF NoHead, Heads, Statuses, RetryAfters
  <2> QED BY <2>1 DEF ExchangeInv, ExchangeTypeOK, End
<1>2. /\ at'[s] = "done" /\ outcome'[s] = how /\ cooldown'[s] = wait /\ shown'[s] = cards
      /\ seen'[s] = seen[s] \cup facts /\ sent'[s] = <<>> /\ ctx' = ctx
      /\ \A o \in Providers \ {s} :
            /\ at'[o] = at[o] /\ outcome'[o] = outcome[o] /\ cooldown'[o] = cooldown[o]
            /\ shown'[o] = shown[o] /\ seen'[o] = seen[o] /\ sent'[o] = sent[o]
            /\ head'[o] = head[o]
  BY DEF ExchangeInv, ExchangeTypeOK, End
<1>3. AlwaysEncrypted'
  BY <1>2, RedirectsAssumption DEF ExchangeInv, AlwaysEncrypted
<1>4. RefusalBacksOff'
  <2>1. \A o \in Providers :
            at'[o] = "done" => BacksOffBy(o, outcome'[o], cooldown'[o], seen'[o])
    BY <1>2, OfEachSource DEF ExchangeInv
  <2> QED BY <2>1 DEF RefusalBacksOff, Refused, BacksOffBy, RefusedBy
<1>5. EndsAgree'
  <2>1. \A o \in Providers \ {s} :
            /\ at'[o] = "done" <=> outcome'[o] # "none"
            /\ \A card \in shown'[o] : outcome'[o] = Verdict(o, card)
            /\ outcome'[o] \in {"spam", "clean"} => shown'[o] # {}
            /\ outcome'[o] = "canceled" => ctx' = "canceled"
            /\ at'[o] \in {"queued", "request"} => seen'[o] = {}
            /\ at'[o] = "page" => seen'[o] = HeadFacts(head'[o])
            /\ at'[o] = "request" => Len(sent'[o]) >= 1
    BY <1>2 DEF ExchangeInv, EndsAgree
  <2>2. /\ at'[s] = "done" /\ outcome'[s] # "none"
        /\ \A card \in shown'[s] : outcome'[s] = Verdict(s, card)
        /\ outcome'[s] \in {"spam", "clean"} => shown'[s] # {}
        /\ outcome'[s] = "canceled" => ctx' = "canceled"
    BY <1>2
  <2> QED BY <2>1, <2>2 DEF EndsAgree, Verdict, HeadFacts
<1> QED BY <1>1, <1>3, <1>4, <1>5 DEF ExchangeInv

LEMMA WithholdKeeps ==
    ASSUME ExchangeInv, NEW s \in Providers, Withhold(s)
    PROVE  ExchangeInv'
<1>1. PICK how \in {"rate_limited", "timeout", "unavailable", "canceled"} :
          /\ how = "canceled" => ctx = "canceled"
          /\ End(s, how, "none", {"withheld"}, {})
  BY DEF Withhold
<1>2. /\ how \in Outcomes \ {"none"} /\ "none" \in Cooldowns
      /\ {"withheld"} \in SUBSET Facts /\ {} \in SUBSET Cards
      /\ how \notin {"spam", "clean"}
  BY DEF Outcomes, Cooldowns, Facts
<1>3. seen[s] = {}
  BY DEF Withhold, ExchangeInv, EndsAgree
<1>4. BacksOffBy(s, how, "none", seen[s] \cup {"withheld"})
  BY <1>3 DEF BacksOffBy, RefusedBy
<1> QED BY <1>1, <1>2, <1>4, EndKeeps

LEMMA AskKeeps ==
    ASSUME ExchangeInv, NEW s \in Providers, Ask(s)
    PROVE  ExchangeInv'
<1>1. <<"https">> \in Seq(Schemes) /\ Len(<<"https">>) = 1 /\ <<"https">>[1] = "https"
  BY DEF Schemes
<1>2. /\ at[s] = "queued" /\ at'[s] = "request" /\ sent'[s] = <<"https">>
      /\ UNCHANGED <<ctx, head, outcome, cooldown, seen, shown>>
      /\ \A o \in Providers \ {s} : at'[o] = at[o] /\ sent'[o] = sent[o]
  BY DEF Ask, ExchangeInv, ExchangeTypeOK
<1>3. ExchangeTypeOK'
  BY <1>1 DEF Ask, ExchangeInv, ExchangeTypeOK
<1>4. AlwaysEncrypted'
  <2>1. Len(sent'[s]) \in 0..MaxRedirects
    BY <1>1, <1>2, RedirectsAssumption
  <2>2. \A i \in 1..Len(sent'[s]) : sent'[s][i] = "https"
    <3>1. SUFFICES ASSUME NEW i \in 1..1 PROVE <<"https">>[i] = "https"
      BY <1>1, <1>2
    <3>2. i = 1
      OBVIOUS
    <3> QED BY <1>1, <3>2
  <2>3. \A o \in Providers \ {s} :
            /\ Len(sent'[o]) \in 0..MaxRedirects
            /\ \A i \in 1..Len(sent'[o]) : sent'[o][i] = "https"
    BY <1>2 DEF ExchangeInv, AlwaysEncrypted
  <2> QED BY <2>1, <2>2, <2>3 DEF AlwaysEncrypted
<1>5. RefusalBacksOff'
  BY <1>2 DEF ExchangeInv, RefusalBacksOff, Refused
<1>6. EndsAgree'
  BY <1>1, <1>2 DEF ExchangeInv, EndsAgree, Verdict, HeadFacts
<1> QED BY <1>3, <1>4, <1>5, <1>6 DEF ExchangeInv

LEMMA FailsKeeps ==
    ASSUME ExchangeInv, NEW s \in Providers, Fails(s)
    PROVE  ExchangeInv'
<1>1. PICK how \in {"timeout", "unavailable", "canceled"} :
          /\ how = "canceled" => ctx = "canceled"
          /\ End(s, how, "none", {"cut"}, {})
  BY DEF Fails
<1>2. /\ how \in Outcomes \ {"none"} /\ "none" \in Cooldowns
      /\ {"cut"} \in SUBSET Facts /\ {} \in SUBSET Cards
      /\ how \notin {"spam", "clean", "rate_limited"}
  BY DEF Outcomes, Cooldowns, Facts
<1>3. "challenge" \notin seen[s]
  BY DEF Fails, ExchangeInv, EndsAgree, HeadFacts
<1>4. BacksOffBy(s, how, "none", seen[s] \cup {"cut"})
  BY <1>2, <1>3 DEF BacksOffBy, RefusedBy
<1> QED BY <1>1, <1>2, <1>4, EndKeeps

LEMMA RedirectKeeps ==
    ASSUME ExchangeInv, NEW s \in Providers,
           NEW scheme \in Schemes, NEW challenge \in BOOLEAN, NEW wait \in RetryAfters,
           Redirect(s, scheme, challenge, wait)
    PROVE  ExchangeInv'
<1>1. at[s] = "request" /\ seen[s] = {} /\ Len(sent[s]) >= 1
  BY DEF Redirect, ExchangeInv, EndsAgree
<1>2. CASE s = "sogou" /\ challenge
  <2> DEFINE facts == {"challenge"} \cup (IF wait = "later" THEN {"asks"} ELSE {})
  <2>1. End(s, "rate_limited", Wait(s, wait), facts, {})
    BY <1>2 DEF Redirect
  <2>2. /\ "rate_limited" \in Outcomes \ {"none"} /\ Wait(s, wait) \in Cooldowns
        /\ facts \in SUBSET Facts /\ {} \in SUBSET Cards
    BY DEF Outcomes, Cooldowns, Facts, Wait
  <2>3. BacksOffBy(s, "rate_limited", Wait(s, wait), seen[s] \cup facts)
    BY <1>1, <1>2 DEF BacksOffBy, RefusedBy, Wait
  <2> QED BY <2>1, <2>2, <2>3, EndKeeps
<1>3. CASE End(s, "unavailable", "none", {}, {})
  <2>1. /\ "unavailable" \in Outcomes \ {"none"} /\ "none" \in Cooldowns
        /\ {} \in SUBSET Facts /\ {} \in SUBSET Cards
    BY DEF Outcomes, Cooldowns
  <2>2. BacksOffBy(s, "unavailable", "none", seen[s] \cup {})
    BY <1>1 DEF BacksOffBy, RefusedBy
  <2> QED BY <1>3, <2>1, <2>2, EndKeeps
<1>4. CASE /\ MayFollow(s, scheme)
           /\ sent' = [sent EXCEPT ![s] = Append(@, scheme)]
           /\ UNCHANGED <<ctx, at, head, outcome, cooldown, seen, shown>>
  <2>1. sent \in [Providers -> Seq(Schemes)] /\ sent[s] \in Seq(Schemes)
    BY DEF ExchangeInv, ExchangeTypeOK
  <2>2. ExchangeTypeOK'
    BY <1>4, <2>1 DEF ExchangeInv, ExchangeTypeOK
  <2>3. Len(sent[s]) \in 0..MaxRedirects /\ \A i \in 1..Len(sent[s]) : sent[s][i] = "https"
    BY DEF ExchangeInv, AlwaysEncrypted
  <2>4. scheme = "https" /\ Len(sent[s]) < MaxRedirects
    BY <1>1, <1>4, <2>1, <2>3, RedirectsAssumption DEF MayFollow
  <2>5. /\ sent'[s] = Append(sent[s], "https")
        /\ \A o \in Providers \ {s} : sent'[o] = sent[o]
    BY <1>4, <2>1, <2>4
  <2>6. /\ Len(sent'[s]) = Len(sent[s]) + 1
        /\ \A i \in 1..Len(sent[s]) + 1 : sent'[s][i] = "https"
    BY <2>1, <2>3, <2>5
  <2>7. Len(sent'[s]) \in 0..MaxRedirects /\ Len(sent'[s]) >= 1
    BY <2>1, <2>3, <2>4, <2>6, RedirectsAssumption
  <2>8. AlwaysEncrypted'
    BY <2>5, <2>6, <2>7 DEF ExchangeInv, AlwaysEncrypted
  <2>9. RefusalBacksOff'
    BY <1>4 DEF ExchangeInv, RefusalBacksOff, Refused
  <2>10. EndsAgree'
    BY <1>4, <2>5, <2>7 DEF ExchangeInv, EndsAgree, Verdict, HeadFacts
  <2> QED BY <2>2, <2>8, <2>9, <2>10 DEF ExchangeInv
<1> QED BY <1>2, <1>3, <1>4 DEF Redirect

LEMMA RespondKeeps ==
    ASSUME ExchangeInv, NEW s \in Providers, NEW h \in Heads, Respond(s, h)
    PROVE  ExchangeInv'
<1>1. /\ at[s] = "request" /\ at'[s] = "page" /\ head'[s] = h /\ seen'[s] = HeadFacts(h)
      /\ UNCHANGED <<ctx, sent, outcome, cooldown, shown>>
      /\ \A o \in Providers \ {s} : at'[o] = at[o] /\ head'[o] = head[o] /\ seen'[o] = seen[o]
  BY DEF Respond, ExchangeInv, ExchangeTypeOK
<1>2. ExchangeTypeOK'
  <2>1. HeadFacts(h) \in SUBSET Facts
    BY DEF HeadFacts, Facts
  <2> QED BY <2>1 DEF Respond, ExchangeInv, ExchangeTypeOK
<1>3. AlwaysEncrypted'
  BY <1>1 DEF ExchangeInv, AlwaysEncrypted
<1>4. RefusalBacksOff'
  BY <1>1 DEF ExchangeInv, RefusalBacksOff, Refused
<1>5. EndsAgree'
  <2>1. \A o \in Providers : at'[o] = "page" => seen'[o] = HeadFacts(head'[o])
    BY <1>1 DEF ExchangeInv, EndsAgree
  <2>2. \A o \in Providers :
            /\ at'[o] = "done" <=> outcome'[o] # "none"
            /\ \A card \in shown'[o] : outcome'[o] = Verdict(o, card)
            /\ outcome'[o] \in {"spam", "clean"} => shown'[o] # {}
            /\ outcome'[o] = "canceled" => ctx' = "canceled"
            /\ at'[o] \in {"queued", "request"} => seen'[o] = {}
            /\ at'[o] = "request" => Len(sent'[o]) >= 1
    BY <1>1 DEF ExchangeInv, EndsAgree
  <2> QED BY <2>1, <2>2 DEF EndsAgree, Verdict, HeadFacts
<1> QED BY <1>2, <1>3, <1>4, <1>5 DEF ExchangeInv

(* Read concludes from the head and the page what the facts say. *)
LEMMA ReadKeeps ==
    ASSUME ExchangeInv, NEW s \in Providers,
           NEW captcha \in BOOLEAN, NEW card \in Cards, Read(s, captcha, card)
    PROVE  ExchangeInv'
<1> DEFINE h == head[s]
           facts == IF captcha THEN {"captcha"} ELSE {}
           cards == IF h.status = "ok" /\ ~captcha THEN {card} ELSE {}
<1>1. /\ at[s] = "page" /\ seen[s] = HeadFacts(h)
      /\ h.status \in Statuses /\ h.retryAfter \in RetryAfters
      /\ facts \in SUBSET Facts /\ cards \in SUBSET Cards
  BY DEF Read, ExchangeInv, EndsAgree, ExchangeTypeOK, Heads, Facts
<1>2. /\ "refused" \in seen[s] \cup facts <=> h.status = "refused"
      /\ "error" \in seen[s] \cup facts <=> h.status = "other"
      /\ "asks" \in seen[s] \cup facts <=> h.retryAfter = "later"
      /\ "captcha" \in seen[s] \cup facts <=> captcha
      /\ "challenge" \notin seen[s] \cup facts /\ "cut" \notin seen[s] \cup facts
  BY <1>1 DEF HeadFacts
<1>3. RefusedBy(s, seen[s] \cup facts) <=> Refuses(s, h, captcha)
  BY <1>1, <1>2 DEF RefusedBy, Refuses, Statuses
<1>4. CASE Refuses(s, h, captcha)
  <2>1. End(s, "rate_limited", Wait(s, h.retryAfter), facts, cards)
    BY <1>4 DEF Read
  <2>2. "rate_limited" \in Outcomes \ {"none"} /\ Wait(s, h.retryAfter) \in Cooldowns
    BY DEF Outcomes, Cooldowns, Wait
  <2>3. cards = {}
    BY <1>4 DEF Refuses
  <2>4. BacksOffBy(s, "rate_limited", Wait(s, h.retryAfter), seen[s] \cup facts)
    BY <1>2, <1>3, <1>4 DEF BacksOffBy, Wait
  <2> HIDE DEF facts, cards
  <2> QED BY <1>1, <2>1, <2>2, <2>3, <2>4, EndKeeps
<1>5. CASE ~Refuses(s, h, captcha) /\ h.status # "ok"
  <2>1. End(s, "unavailable", "none", facts, cards)
    BY <1>5 DEF Read
  <2>2. "unavailable" \in Outcomes \ {"none"} /\ "none" \in Cooldowns
    BY DEF Outcomes, Cooldowns
  <2>3. cards = {}
    BY <1>5
  <2>4. BacksOffBy(s, "unavailable", "none", seen[s] \cup facts)
    BY <1>3, <1>5 DEF BacksOffBy
  <2> HIDE DEF facts, cards
  <2> QED BY <1>1, <2>1, <2>2, <2>3, <2>4, EndKeeps
<1>6. CASE ~Refuses(s, h, captcha) /\ h.status = "ok"
  <2>1. End(s, Verdict(s, card), "none", facts, cards)
    BY <1>6 DEF Read
  <2>2. /\ Verdict(s, card) \in Outcomes \ {"none"} /\ "none" \in Cooldowns
        /\ Verdict(s, card) \notin {"rate_limited", "canceled"}
    BY CardFacts DEF Outcomes, Cooldowns
  <2>3. cards = {card}
    BY <1>6 DEF Refuses
  <2>4. BacksOffBy(s, Verdict(s, card), "none", seen[s] \cup facts)
    BY <1>3, <1>6, <2>2 DEF BacksOffBy
  <2> HIDE DEF facts, cards
  <2> QED BY <1>1, <2>1, <2>2, <2>3, <2>4, EndKeeps
<1> QED BY <1>4, <1>5, <1>6

LEMMA ExchangeKeeps ==
    ASSUME ExchangeInv, NEW s \in Providers, Exchange(s)
    PROVE  ExchangeInv'
BY WithholdKeeps, AskKeeps, FailsKeeps, RedirectKeeps, RespondKeeps, ReadKeeps DEF Exchange

----------------------------------------------------------------------------
(* The whole path: a verdict and a status are given once every source has  *)
(* ended, and stay.                                                        *)
AllDone == \A s \in Providers : at[s] = "done"

ResponseInv ==
    /\ verdict # "none" => AllDone
    /\ status # 0 => AllDone
    /\ search # "off" => verdict # "none"
    /\ status = 200 => verdict # "none"
    /\ status # 0 /\ verdict # "none" => status = 200
    /\ verdict # "none" => \E s \in Providers : outcome[s] \in {"spam", "clean"}

IInv == TypeOK /\ ExchangeInv /\ SearchInv /\ ResponseInv /\ CleanWasShown /\ StatusTellsWhy

USE DEF AllDone

LEMMA InitHolds == Init => IInv
<1> SUFFICES ASSUME Init PROVE IInv
  OBVIOUS
<1>1. ExchangeInv
  <2>1. ExchangeTypeOK
    <3>1. <<>> \in Seq(Schemes) /\ NoHead \in Heads
      BY DEF Schemes, NoHead, Heads, Statuses, RetryAfters
    <3> QED BY <3>1 DEF Init, ExchangeInit, ExchangeTypeOK, Outcomes, Cooldowns
  <2>2. AlwaysEncrypted
    BY RedirectsAssumption DEF Init, ExchangeInit, AlwaysEncrypted
  <2>3. RefusalBacksOff /\ EndsAgree
    BY DEF Init, ExchangeInit, RefusalBacksOff, EndsAgree
  <2> QED BY <2>1, <2>2, <2>3 DEF ExchangeInv
<1>2. SearchInv /\ SearchTypeOK
  BY DEF Init, SearchInit, SearchInv, LocationFound, SearchStates, SearchTypeOK
<1>3. ResponseInv /\ CleanWasShown /\ StatusTellsWhy
  BY DEF Init, SearchInit, ResponseInv, CleanWasShown, StatusTellsWhy
<1> QED BY <1>1, <1>2, <1>3 DEF IInv, TypeOK, ExchangeInv, Init

(* A source that ends was not done before. *)
LEMMA QueryIsLive ==
    ASSUME IInv, NEW s \in Providers, Query(s)
    PROVE  ~AllDone
BY DEF Query, Exchange, Withhold, Ask, Fails, Redirect, Respond, Read

LEMMA QueryKeeps ==
    ASSUME IInv, NEW s \in Providers, Query(s)
    PROVE  IInv'
<1>1. ExchangeInv'
  BY ExchangeKeeps DEF IInv, Query
<1>2. SearchInv'
  BY DEF IInv, Query, SearchInv, Bounds, LocationFound, searchVars
<1>3. TypeOK'
  BY <1>1 DEF IInv, TypeOK, SearchTypeOK, Query, ExchangeInv, searchVars
<1>4. verdict = "none" /\ status = 0 /\ search = "off"
  BY QueryIsLive DEF IInv, ResponseInv
<1>5. verdict' = "none" /\ status' = 0 /\ search' = "off"
  BY <1>4 DEF Query, searchVars
<1>6. ResponseInv' /\ CleanWasShown' /\ StatusTellsWhy'
  BY <1>5 DEF ResponseInv, CleanWasShown, StatusTellsWhy
<1> QED BY <1>1, <1>2, <1>3, <1>6 DEF IInv

LEMMA ContextKeeps ==
    ASSUME IInv, NEW how \in {"canceled", "deadline"}, TheContextEnds(how)
    PROVE  IInv'
<1>1. /\ ctx = "live" /\ ctx' = how
      /\ UNCHANGED <<at, sent, head, outcome, cooldown, seen, shown>>
      /\ UNCHANGED <<prefix, left, right, search, status, verdict>>
  BY DEF TheContextEnds, ContextEnds, searchVars
<1>2. ExchangeInv'
  BY <1>1 DEF IInv, ExchangeInv, ExchangeTypeOK, AlwaysEncrypted, RefusalBacksOff, Refused,
              EndsAgree, Verdict, HeadFacts
<1>3. SearchInv' /\ ResponseInv' /\ CleanWasShown'
  BY <1>1 DEF IInv, SearchInv, Bounds, LocationFound, ResponseInv, CleanWasShown, ShowedNumber
<1>4. TypeOK'
  BY <1>1, <1>2 DEF IInv, TypeOK, SearchTypeOK, ExchangeInv
<1>5. StatusTellsWhy'
  BY <1>1 DEF IInv, StatusTellsWhy, Refused
<1> QED BY <1>2, <1>3, <1>4, <1>5 DEF IInv

(* What the sources said, by what their pages showed. *)
LEMMA VerdictsWereShown ==
    ASSUME ExchangeInv
    PROVE  /\ (\E s \in Providers : outcome[s] = "spam") =>
                  \E s \in Providers : ShowedNumber(s, {"label", "elsewhere"})
           /\ (\E s \in Providers : outcome[s] = "clean") =>
                  \E s \in Providers : ShowedNumber(s, {"none", "empty", "elsewhere"})
           /\ (\A s \in Providers : outcome[s] # "spam") =>
                  \A s \in Providers : [number |-> "own", mark |-> "label"] \notin shown[s]
<1>1. ASSUME NEW s \in Providers, outcome[s] \in {"spam", "clean"}
      PROVE  \E card \in shown[s] : card \in Cards /\ outcome[s] = Verdict(s, card)
  BY <1>1 DEF ExchangeInv, ExchangeTypeOK, EndsAgree
<1>2. ASSUME NEW s \in Providers, outcome[s] = "spam"
      PROVE  ShowedNumber(s, {"label", "elsewhere"})
  BY <1>1, <1>2, CardFacts DEF ShowedNumber
<1>3. ASSUME NEW s \in Providers, outcome[s] = "clean"
      PROVE  ShowedNumber(s, {"none", "empty", "elsewhere"})
  BY <1>1, <1>3, CardFacts DEF ShowedNumber
<1>4. ASSUME NEW s \in Providers, [number |-> "own", mark |-> "label"] \in shown[s]
      PROVE  outcome[s] = "spam"
  <2> DEFINE card == [number |-> "own", mark |-> "label"]
  <2>1. card \in Cards /\ outcome[s] = Verdict(s, card)
    BY <1>4 DEF ExchangeInv, ExchangeTypeOK, EndsAgree
  <2> QED BY <2>1, CardFacts
<1> QED BY <1>2, <1>3, <1>4

LEMMA ChooseKeeps ==
    ASSUME IInv, NEW digits \in Prefixes, NEW searchable \in BOOLEAN, Choose(digits, searchable)
    PROVE  IInv'
<1>1. /\ UNCHANGED <<ctx, at, sent, head, outcome, cooldown, seen, shown>>
      /\ AllDone /\ status = 0 /\ search = "off"
  BY DEF Choose, exchangeVars
<1>2. ExchangeInv'
  BY ExchangeStays DEF IInv, Choose
<1>3. /\ Records \in [Providers -> Verdicts]
      /\ \A s \in Providers : /\ Records[s] = "spam" <=> outcome[s] = "spam"
                              /\ Records[s] = "clean" <=> outcome[s] = "clean"
                              /\ Records[s] # "none" <=> outcome[s] \in {"spam", "clean"}
  BY DEF Records, Verdicts
<1>4. \A s \in Providers :
          /\ outcome[s] \in Outcomes \ {"none"}
          /\ outcome[s] = "rate_limited" <=>
                 Refused(s) \/ ("withheld" \in seen[s] /\ outcome[s] = "rate_limited")
          /\ outcome[s] = "canceled" => ctx = "canceled"
  BY <1>1 DEF IInv, ExchangeInv, ExchangeTypeOK, EndsAgree, RefusalBacksOff
<1> DEFINE R == Records
<1>5. /\ R \in [Providers -> Verdicts]
      /\ Selection!Available(Order, R) <=> \E s \in Providers : R[s] # "none"
      /\ Selection!Available(Order, R) =>
             R[Selection!Selected(Order, R)] =
                 IF \E s \in Providers : R[s] = "spam" THEN "spam" ELSE "clean"
  <2> HIDE DEF R
  <2>1. R \in [Providers -> Verdicts]
    BY <1>3 DEF R
  <2> QED BY <2>1, ChoiceOfTwo
<1>6. CASE Selection!Available(Order, Records)
  <2>1. /\ verdict' = Records[Selection!Selected(Order, Records)]
        /\ Find(digits, searchable) /\ status' = 0
    BY <1>1, <1>6 DEF Choose
  <2>2. /\ verdict' = IF \E s \in Providers : outcome[s] = "spam" THEN "spam" ELSE "clean"
        /\ \E s \in Providers : outcome[s] \in {"spam", "clean"}
    <3>1. \A s \in Providers : R[s] = "spam" <=> outcome[s] = "spam"
      BY <1>3
    <3>2. \E s \in Providers : outcome[s] \in {"spam", "clean"}
      BY <1>3, <1>5, <1>6
    <3>3. verdict' = IF \E s \in Providers : R[s] = "spam" THEN "spam" ELSE "clean"
      BY <1>5, <1>6, <2>1
    <3> HIDE DEF R
    <3> QED BY <3>1, <3>2, <3>3
  <2>3. SearchInv'
    BY <2>1, FindKeeps DEF IInv
  <2>4. SearchTypeOK'
    BY <2>1, IndexType DEF IInv, TypeOK, SearchTypeOK, Find, SearchStates, PastTheEnd
  <2>5. TypeOK'
    BY <1>2, <2>1, <2>2, <2>4 DEF TypeOK, ExchangeInv
  <2>6. CleanWasShown'
    <3>1. /\ verdict' = "spam" => \E s \in Providers : ShowedNumber(s, {"label", "elsewhere"})
          /\ verdict' = "clean" =>
                 /\ \E s \in Providers : ShowedNumber(s, {"none", "empty", "elsewhere"})
                 /\ \A s \in Providers : [number |-> "own", mark |-> "label"] \notin shown[s]
      BY <2>2, VerdictsWereShown DEF IInv
    <3> QED BY <1>1, <3>1 DEF CleanWasShown, ShowedNumber
  <2>7. ResponseInv' /\ StatusTellsWhy'
    BY <1>1, <2>1, <2>2 DEF ResponseInv, StatusTellsWhy
  <2> QED BY <1>2, <2>3, <2>5, <2>6, <2>7 DEF IInv
<1>7. CASE ~Selection!Available(Order, Records)
  <2>1. /\ status' = ErrorStatus(Selection!LookupError(ctx, Failures))
        /\ UNCHANGED <<verdict, prefix, left, right, search>>
    BY <1>7 DEF Choose, searchVars
  <2>2. \A s \in Providers : outcome[s] \notin {"spam", "clean"}
    BY <1>3, <1>5, <1>7
  <2>3. /\ \A s \in Providers : outcome[s] \in Selection!FailureClasses
        /\ Failures = {outcome[s] : s \in Providers}
    BY <1>4, <2>2 DEF Failures, Selection!FailureClasses, Outcomes
  <2>4. /\ "rate_limited" \in Failures <=> \E s \in Providers : outcome[s] = "rate_limited"
        /\ "timeout" \in Failures <=> \E s \in Providers : outcome[s] = "timeout"
        /\ "canceled" \in Failures => ctx = "canceled"
        /\ Failures # {}
        /\ Failures \cap {"rate_limited", "timeout", "canceled"} = {} =>
               \A s \in Providers : outcome[s] = "unavailable"
    BY <1>4, <2>3 DEF Selection!FailureClasses
  <2>5. /\ status' \in {429, 500, 503, 504}
        /\ status' = 429 <=> \E s \in Providers : outcome[s] = "rate_limited"
        /\ status' = 504 => ctx = "deadline" \/ \E s \in Providers : outcome[s] = "timeout"
        /\ status' = 503 => \A s \in Providers : outcome[s] = "unavailable"
        /\ status' = 500 => ctx = "canceled"
    <3> DEFINE e == Selection!LookupError(ctx, Failures)
    <3>1. /\ e \in {"rate_limited", "timeout", "canceled", "unavailable"}
          /\ e = "rate_limited" <=> "rate_limited" \in Failures
          /\ e = "timeout" => ctx = "deadline" \/ "timeout" \in Failures
          /\ e = "canceled" => ctx = "canceled" \/ "canceled" \in Failures
          /\ e = "unavailable" => Failures \cap {"rate_limited", "timeout", "canceled"} = {}
      BY <2>4 DEF Selection!LookupError
    <3>2. /\ e = "rate_limited" => status' = 429
          /\ e = "timeout" => status' = 504
          /\ e = "unavailable" => status' = 503
          /\ e = "canceled" => status' = 500
      BY <2>1 DEF ErrorStatus
    <3> HIDE DEF e
    <3> QED BY <2>4, <3>1, <3>2
  <2>6. SearchInv'
    BY <2>1 DEF IInv, SearchInv, Bounds, LocationFound
  <2>7. TypeOK'
    BY <1>2, <2>1, <2>5 DEF IInv, TypeOK, SearchTypeOK, ExchangeInv
  <2>8. verdict = "none"
    BY <2>2 DEF IInv, ResponseInv
  <2>9. StatusTellsWhy'
    <3>1. \A s \in Providers :
              Refused(s)' \/ ("withheld" \in seen'[s] /\ outcome'[s] = "rate_limited")
                  <=> outcome'[s] = "rate_limited"
      BY <1>1, <1>4 DEF Refused
    <3> QED BY <1>1, <2>2, <2>5, <3>1 DEF StatusTellsWhy
  <2>10. ResponseInv' /\ CleanWasShown'
    BY <1>1, <2>1, <2>5, <2>8 DEF ResponseInv, CleanWasShown
  <2> QED BY <1>2, <2>6, <2>7, <2>9, <2>10 DEF IInv
<1> QED BY <1>6, <1>7

LEMMA LocateKeeps ==
    ASSUME IInv, Locate
    PROVE  IInv'
<1>1. /\ UNCHANGED <<ctx, at, sent, head, outcome, cooldown, seen, shown, status, verdict>>
      /\ Look /\ search = "searching"
  BY DEF Locate, exchangeVars, Look
<1>2. ExchangeInv'
  BY ExchangeStays DEF IInv, Locate
<1>3. SearchInv'
  BY <1>1, LookKeeps DEF IInv
<1>4. SearchTypeOK'
  <2>1. search' = "searching" => left' \in Nat /\ right' \in Int
    BY <1>3, IndexType DEF SearchInv, Bounds
  <2>2. search' # "searching" => UNCHANGED <<left, right>>
    BY <1>1 DEF Look, Ends
  <2>3. prefix' = prefix /\ search' \in SearchStates
    BY <1>1, <1>3 DEF Look, SearchInv
  <2> QED BY <2>1, <2>2, <2>3 DEF IInv, TypeOK, SearchTypeOK
<1>5. TypeOK'
  BY <1>1, <1>2, <1>4 DEF IInv, TypeOK, ExchangeInv
<1>6. ResponseInv' /\ CleanWasShown' /\ StatusTellsWhy'
  BY <1>1 DEF IInv, ResponseInv, CleanWasShown, ShowedNumber, StatusTellsWhy, Refused
<1> QED BY <1>2, <1>3, <1>5, <1>6 DEF IInv

LEMMA Respond200Keeps ==
    ASSUME IInv, Respond200
    PROVE  IInv'
<1>1. /\ UNCHANGED <<ctx, at, sent, head, outcome, cooldown, seen, shown>>
      /\ UNCHANGED <<prefix, left, right, search, verdict>>
      /\ search # "off" /\ status' = 200
  BY DEF Respond200, exchangeVars, searchVars
<1>2. ExchangeInv'
  BY ExchangeStays DEF IInv, Respond200
<1>3. SearchInv'
  BY <1>1 DEF IInv, SearchInv, Bounds, LocationFound
<1>4. TypeOK'
  BY <1>1, <1>2 DEF IInv, TypeOK, SearchTypeOK, ExchangeInv
<1>5. ResponseInv' /\ CleanWasShown' /\ StatusTellsWhy'
  BY <1>1 DEF IInv, ResponseInv, CleanWasShown, ShowedNumber, StatusTellsWhy, Refused
<1> QED BY <1>2, <1>3, <1>4, <1>5 DEF IInv

(* Every reachable state satisfies the invariant. *)
THEOREM Invariance == Spec => []IInv
<1>1. Init => IInv
  BY InitHolds
<1>2. IInv /\ [Next]_vars => IInv'
  <2> SUFFICES ASSUME IInv, [Next]_vars PROVE IInv'
    OBVIOUS
  <2>1. ASSUME NEW s \in Providers, Query(s) PROVE IInv'
    BY <2>1, QueryKeeps
  <2>2. ASSUME NEW how \in {"canceled", "deadline"}, TheContextEnds(how) PROVE IInv'
    BY <2>2, ContextKeeps
  <2>3. CASE Answer
    BY <2>3, ChooseKeeps, LocateKeeps, Respond200Keeps DEF Answer
  <2>4. CASE UNCHANGED vars
    <3>1. ExchangeInv'
      BY <2>4, ExchangeStays DEF vars, IInv
    <3> QED BY <2>4, <3>1 DEF vars, exchangeVars, searchVars, IInv, TypeOK, ExchangeInv,
                SearchTypeOK, SearchInv, Bounds, LocationFound,
                ResponseInv, CleanWasShown, ShowedNumber, StatusTellsWhy, Refused
  <2> QED BY <2>1, <2>2, <2>3, <2>4 DEF Next
<1> QED BY <1>1, <1>2, PTL DEF Spec

(* Types (AnswerPath's variables). *)
THEOREM TypeCorrect == Spec => []TypeOK
BY Invariance, PTL DEF IInv

(* No chain of redirects takes a number off HTTPS or past its number of    *)
(* requests (client.go CheckRedirect under sogou.go's own policy).         *)
THEOREM Encrypted == Spec => []AlwaysEncrypted
BY Invariance, PTL DEF IInv, ExchangeInv

(* Every refusal that was read counts as one, nothing else does, and sogou *)
(* is left alone after it for as long as it asks or 30 seconds.            *)
THEOREM BacksOff == Spec => []RefusalBacksOff
BY Invariance, PTL DEF IInv, ExchangeInv

(* A verdict comes from pages that showed the number, and no label of the  *)
(* number's own card is outvoted, whatever the priorities.                 *)
THEOREM CleanIsShown == Spec => []CleanWasShown
BY Invariance, PTL DEF IInv

(* The status of the response is the reason there is no verdict.           *)
THEOREM StatusIsTrue == Spec => []StatusTellsWhy
BY Invariance, PTL DEF IInv

(* The binary search is correct for every ascending index, the empty one   *)
(* included.                                                               *)
THEOREM SearchIsCorrect == Spec => []LocationFound
BY Invariance, PTL DEF IInv, SearchInv

----------------------------------------------------------------------------
(* How long a query may take, in steps. *)
LEMMA QueryShrinks ==
    ASSUME IInv, NEW s \in Providers, Exchange(s) PROVE QueryLeft(s)' \in 0..QueryLeft(s) - 1
<1>1. /\ Len(sent[s]) \in 0..MaxRedirects /\ MaxRedirects \in Nat
      /\ at[s] = "request" => Len(sent[s]) >= 1
      /\ at \in [Providers -> {"queued", "request", "page", "done"}]
      /\ sent \in [Providers -> Seq(Schemes)]
  BY RedirectsAssumption DEF IInv, ExchangeInv, ExchangeTypeOK, AlwaysEncrypted, EndsAgree
<1>2. at[s] # "done" => QueryLeft(s) \in Nat /\ QueryLeft(s) >= 1
  BY <1>1 DEF QueryLeft
<1>3. ASSUME at[s] # "done", NEW how, NEW wait, NEW facts, NEW cards,
             End(s, how, wait, facts, cards)
      PROVE  QueryLeft(s)' \in 0..QueryLeft(s) - 1
  <2>1. QueryLeft(s)' = 0
    BY <1>1, <1>3 DEF End, QueryLeft
  <2> QED BY <1>2, <1>3, <2>1
<1>4. CASE Fails(s) \/ Withhold(s)
  BY <1>3, <1>4 DEF Fails, Withhold
<1>5. CASE Ask(s)
  <2>1. at[s] = "queued" /\ at'[s] = "request" /\ Len(sent'[s]) = 1
    BY <1>1, <1>5 DEF Ask
  <2> QED BY <1>1, <2>1 DEF QueryLeft
<1>6. ASSUME NEW scheme \in Schemes, NEW challenge \in BOOLEAN, NEW wait \in RetryAfters,
             Redirect(s, scheme, challenge, wait)
      PROVE  QueryLeft(s)' \in 0..QueryLeft(s) - 1
  <2>1. CASE \E how, w, facts, cards : End(s, how, w, facts, cards)
    BY <1>3, <1>6, <2>1 DEF Redirect
  <2>2. CASE /\ MayFollow(s, scheme) /\ at' = at
             /\ sent' = [sent EXCEPT ![s] = Append(@, scheme)]
    <3>1. at[s] = "request" /\ at' = at /\ Len(sent[s]) < MaxRedirects
      BY <1>6, <2>2 DEF Redirect, MayFollow
    <3>2. Len(sent'[s]) = Len(sent[s]) + 1
      BY <1>1, <2>2
    <3> QED BY <1>1, <3>1, <3>2 DEF QueryLeft
  <2> QED BY <1>6, <2>1, <2>2 DEF Redirect
<1>7. ASSUME NEW h \in Heads, Respond(s, h) PROVE QueryLeft(s)' \in 0..QueryLeft(s) - 1
  BY <1>1, <1>7 DEF Respond, QueryLeft
<1>8. ASSUME NEW captcha \in BOOLEAN, NEW card \in Cards, Read(s, captcha, card)
      PROVE  QueryLeft(s)' \in 0..QueryLeft(s) - 1
  BY <1>3, <1>8 DEF Read
<1> QED BY <1>4, <1>5, <1>6, <1>7, <1>8 DEF Exchange

LEMMA HalfIsHalf ==
    ASSUME NEW l \in Nat, NEW r \in Int, l <= r
    PROVE  2 * ((l + r) \div 2) \in {l + r - 1, l + r}
OBVIOUS

LEMMA AtMostHalf ==
    ASSUME NEW v \in Nat, NEW w \in Nat, 2 * v <= w PROVE v \in 0..w \div 2
OBVIOUS

LEMMA LookHalves ==
    ASSUME IInv, Look, search' = "searching" PROVE Width' \in 0..Width \div 2
<1>1. /\ left \in Nat /\ right \in Int /\ right >= -1 /\ left <= right
      /\ \/ right' = Middle - 1 /\ left' = left
         \/ left' = Middle + 1 /\ right' = right
  BY DEF Look, Ends, Above, IInv, SearchInv, Bounds, SearchStates
<1>2. /\ Middle \in Int /\ left <= Middle /\ Middle <= right
      /\ 2 * Middle \in {left + right - 1, left + right}
  BY <1>1, HalfType, HalfIsHalf DEF Middle
<1>3. Width' \in Nat /\ 2 * Width' <= Width
  BY <1>1, <1>2 DEF Width
<1>4. Width \in Nat
  BY <1>1 DEF Width
<1> QED BY <1>3, <1>4, AtMostHalf

(* No source redirects for ever, and Find looks at no more entries than    *)
(* halving the index allows: for every index and every bound of redirects. *)
THEOREM EveryStepIsOneLess == Spec => EveryStepCounts
<1>1. ASSUME IInv
      PROVE  [/\ \A s \in Providers : Query(s) => QueryLeft(s)' \in 0..QueryLeft(s) - 1
              /\ Locate /\ search' = "searching" => Width' \in 0..Width \div 2]_vars
  BY <1>1, QueryShrinks, LookHalves DEF Query, Locate
<1> QED BY <1>1, Invariance, PTL DEF EveryStepCounts
=============================================================================
