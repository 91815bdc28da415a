---------------------------- MODULE SourceRuntime ----------------------------
(***************************************************************************)
(* provider/dispatcher.go: the runtime limits of one source.  Every lookup *)
(* of the source passes a semaphore, the circuit check, the queue that     *)
(* spaces the requests, the circuit check again, and then calls upstream.  *)
(* The runtimes of two sources share nothing, so one is modelled.          *)
(*                                                                         *)
(* Instants are kept as the time left until them.  Time may pass between   *)
(* any two steps, also while a lookup could run: between the reservation   *)
(* of its slot, the second check and the request nothing holds the others  *)
(* back.  A call to the upstream takes any time and ends in any way.       *)
(***************************************************************************)
EXTENDS Naturals, FiniteSets

CONSTANTS
    Lookups,         \* the goroutines LookupAll starts for this source
    MaxConcurrent,   \* SourceConfig.MaxConcurrent
    MinInterval,     \* SourceConfig.MinInterval
    BreakerTimeout,  \* SourceConfig.BreakerTimeout
    RetryAfters,     \* RateLimitError.RetryAfter: 0 when the upstream names none
    None             \* no lookup

ASSUME LookupsAssumption == IsFiniteSet(Lookups) /\ None \notin Lookups
ASSUME LimitsAssumption ==
    /\ MaxConcurrent \in Nat \ {0}
    /\ MinInterval \in Nat
    /\ BreakerTimeout \in Nat \ {0}
ASSUME RetryAfterAssumption == RetryAfters \subseteq Nat

VARIABLES
    pc,            \* where each lookup is
    ctx,           \* its context
    permits,       \* len(semaphore)
    scheduler,     \* the lookup that holds scheduleMu
    intervalLeft,  \* until lastStart + MinInterval
    failures,      \* consecutiveFailures, counted up to the limit
    cooldownLeft,  \* until cooldownUntil
    opened,        \* openUntil is set, even if it has passed
    openLeft,      \* until openUntil
    debt,          \* history: MinInterval for each request, less the time that passed
    promised,      \* history: until every Retry-After received has passed
    asked,         \* history: until the last Retry-After received has passed
    shutLeft,      \* history: until BreakerTimeout after the breaker's failure
    failedRun,     \* history: failures since the last success or reset of the breaker
    late,          \* history: lookups past the second check when the source shut
    overdue        \* history: lookups that outlived their context by waiting

circuitVars == <<failures, cooldownLeft, opened, openLeft>>
retryVars == <<promised, asked, shutLeft, late>>
historyVars == <<retryVars, failedRun>>
vars == <<pc, ctx, permits, scheduler, intervalLeft, circuitVars, debt,
          historyVars, overdue>>

----------------------------------------------------------------------------
BreakerFailureLimit == 3

States == {"idle", "semaphore", "first", "schedule", "interval", "second", "starting",
           "calling"}

(* How a call may end; a rate limit carries its Retry-After. *)
Outcomes == [kind : {"ok", "failed", "canceled"}, after : {0}]
              \cup [kind : {"limited"}, after : RetryAfters]

UpTo(limit, n) == IF n < limit THEN n ELSE limit
AtLeast(n, m) == IF n < m THEN m ELSE n
Less(n) == IF n = 0 THEN 0 ELSE n - 1

Init ==
    /\ pc = [l \in Lookups |-> "idle"]
    /\ ctx = [l \in Lookups |-> "live"]
    /\ permits = 0
    /\ scheduler = None
    /\ intervalLeft = 0
    /\ failures = 0
    /\ cooldownLeft = 0
    /\ opened = FALSE
    /\ openLeft = 0
    /\ debt = 0
    /\ promised = 0
    /\ asked = 0
    /\ shutLeft = 0
    /\ failedRun = 0
    /\ late = {}
    /\ overdue = {}

(* The slot of a lookup that has returned serves the next one. *)
Return(l) ==
    /\ pc' = [pc EXCEPT ![l] = "idle"]
    /\ ctx' = [ctx EXCEPT ![l] = "live"]
    /\ overdue' = overdue \ {l}

GoTo(l, state) ==
    /\ pc' = [pc EXCEPT ![l] = state]
    /\ UNCHANGED <<ctx, overdue>>

CtxDone(l) == ctx[l] # "live"

(* Defect: a wait does not look at the context. *)
NotWatched(l) == FALSE

Watched(l) == CtxDone(l)

----------------------------------------------------------------------------
Begin(l) ==
    /\ pc[l] = "idle"
    /\ GoTo(l, "semaphore")
    /\ UNCHANGED <<permits, scheduler, intervalLeft, circuitVars, debt, historyVars>>

(* The query timeout, or the client leaves: which of the two shows only in *)
(* how the call ends.                                                      *)
CtxEnds(l) ==
    /\ pc[l] # "idle"
    /\ ~CtxDone(l)
    /\ ctx' = [ctx EXCEPT ![l] = "ended"]
    /\ UNCHANGED <<pc, permits, scheduler, intervalLeft, circuitVars, debt,
                   historyVars, overdue>>

(* Defect: one permit more than configured. *)
PermitFreeOffByOne == permits <= MaxConcurrent

PermitFree == permits < MaxConcurrent

(* The select on the semaphore and the context: either may win.            *)
Acquire(l) ==
    /\ pc[l] = "semaphore"
    /\ PermitFree
    /\ permits' = permits + 1
    /\ GoTo(l, "first")
    /\ UNCHANGED <<scheduler, intervalLeft, circuitVars, debt, historyVars>>

GiveUpSemaphore(l) ==
    /\ pc[l] = "semaphore"
    /\ Watched(l)
    /\ Return(l)
    /\ UNCHANGED <<permits, scheduler, intervalLeft, circuitVars, debt, historyVars>>

(* circuitError: a cooldown or an open breaker refuses; an instant that    *)
(* has passed is cleared, and with the breaker's the count of failures.    *)
Refuses == cooldownLeft > 0 \/ openLeft > 0

(* Defect: the failures of before an expired breaker still count. *)
ClearsTimeOnly ==
    /\ opened' = FALSE
    /\ failedRun' = IF opened THEN 0 ELSE failedRun
    /\ UNCHANGED <<failures, cooldownLeft, openLeft>>

ClearExpired ==
    /\ opened' = FALSE
    /\ failures' = IF opened THEN 0 ELSE failures
    /\ failedRun' = IF opened THEN 0 ELSE failedRun
    /\ UNCHANGED <<cooldownLeft, openLeft>>

Refuse(l) ==
    /\ Refuses
    /\ Return(l)
    /\ permits' = permits - 1
    /\ UNCHANGED <<circuitVars, failedRun>>

FirstCheck(l) ==
    /\ pc[l] = "first"
    /\ \/ Refuse(l)
       \/ /\ ~Refuses
          /\ ClearExpired
          /\ GoTo(l, "schedule")
          /\ UNCHANGED permits
    /\ UNCHANGED <<scheduler, intervalLeft, debt, retryVars>>

(* waitForInterval holds scheduleMu while it waits.  Nobody else can see   *)
(* the steps it takes without waiting, so they are one with the lock.      *)
LockSchedule(l) ==
    /\ pc[l] = "schedule"
    /\ scheduler = None
    /\ \/ /\ CtxDone(l)
          /\ Return(l)
          /\ permits' = permits - 1
          /\ UNCHANGED <<scheduler, intervalLeft>>
       \/ /\ ~CtxDone(l)
          /\ intervalLeft = 0
          /\ intervalLeft' = MinInterval
          /\ GoTo(l, "second")
          /\ UNCHANGED <<permits, scheduler>>
       \/ /\ ~CtxDone(l)
          /\ intervalLeft > 0
          /\ scheduler' = l
          /\ GoTo(l, "interval")
          /\ UNCHANGED <<permits, intervalLeft>>
    /\ UNCHANGED <<circuitVars, debt, historyVars>>

(* Defect: a lookup that has waited does not move lastStart. *)
ReserveNothing == intervalLeft

Reserved == MinInterval

IntervalOver(l) ==
    /\ pc[l] = "interval"
    /\ intervalLeft = 0
    /\ intervalLeft' = Reserved
    /\ scheduler' = None
    /\ GoTo(l, "second")
    /\ UNCHANGED <<permits, circuitVars, debt, historyVars>>

(* Defect: the early return leaves scheduleMu locked. *)
StillLocked == scheduler

Unlocked == None

GiveUpInterval(l) ==
    /\ pc[l] = "interval"
    /\ Watched(l)
    /\ Return(l)
    /\ scheduler' = Unlocked
    /\ permits' = permits - 1
    /\ UNCHANGED <<intervalLeft, circuitVars, debt, historyVars>>

(* Defect: the circuit is not looked at again after the waits. *)
NotLookedAtAgain == FALSE

RefusesAgain == Refuses

SecondCheck(l) ==
    /\ pc[l] = "second"
    /\ \/ RefusesAgain /\ Refuse(l)
       \/ /\ ~RefusesAgain
          /\ ClearExpired
          /\ GoTo(l, "starting")
          /\ UNCHANGED permits
    /\ UNCHANGED <<scheduler, intervalLeft, debt, retryVars>>

(* stateMu has been released: what other calls have recorded since the     *)
(* check is not looked at any more.                                        *)
Start(l) ==
    /\ pc[l] = "starting"
    /\ GoTo(l, "calling")
    /\ debt' = debt + MinInterval
    /\ late' = late \ {l}
    /\ UNCHANGED <<permits, scheduler, intervalLeft, circuitVars, promised, asked, shutLeft,
                   failedRun>>

----------------------------------------------------------------------------
(* The end of a call. *)

Counts(outcome) == outcome.kind \in {"failed", "limited"}

(* Defect: a success lifts the cooldown too. *)
NoCooldown == 0

SameCooldown == cooldownLeft

recordSuccess ==
    /\ failures' = 0
    /\ opened' = FALSE
    /\ openLeft' = 0
    /\ cooldownLeft' = SameCooldown

LimitReached == failures + 1 >= BreakerFailureLimit

recordFailure(outcome) ==
    /\ failures' = UpTo(BreakerFailureLimit, failures + 1)
    /\ IF outcome.after > 0
       THEN /\ cooldownLeft' = outcome.after
            /\ UNCHANGED <<opened, openLeft>>
       ELSE /\ opened' = (opened \/ LimitReached)
            /\ openLeft' = IF LimitReached THEN BreakerTimeout ELSE openLeft
            /\ UNCHANGED cooldownLeft

(* History: what this answer obliges the source to.  A third failure trips *)
(* the breaker unless it brings a cooldown of its own.                     *)
Fails(outcome) == outcome.kind \in {"failed", "limited"}

Trips(outcome) ==
    /\ Fails(outcome) /\ outcome.after = 0
    /\ failedRun + 1 >= BreakerFailureLimit

Note(outcome) ==
    /\ promised' = AtLeast(promised, outcome.after)
    /\ asked' = IF outcome.after > 0 THEN outcome.after ELSE asked
    /\ failedRun' = CASE outcome.kind = "ok" -> 0
                      [] outcome.kind = "canceled" -> failedRun
                      [] OTHER -> UpTo(BreakerFailureLimit, failedRun + 1)
    /\ shutLeft' = CASE outcome.kind = "ok" -> 0
                     [] Trips(outcome) -> BreakerTimeout
                     [] OTHER -> shutLeft
    /\ late' = IF outcome.after > 0 \/ Trips(outcome)
               THEN {l \in Lookups : pc[l] = "starting"} ELSE late

(* A call ends as canceled only when the client has left; a request that   *)
(* times out is a failure like any other.                                  *)
EndCall(l, outcome) ==
    /\ pc[l] = "calling"
    /\ outcome.kind = "canceled" => CtxDone(l)
    /\ CASE outcome.kind = "ok" -> recordSuccess
         [] Counts(outcome) -> recordFailure(outcome)
         [] OTHER -> UNCHANGED circuitVars
    /\ Note(outcome)
    /\ Return(l)
    /\ permits' = permits - 1
    /\ UNCHANGED <<scheduler, intervalLeft, debt>>

----------------------------------------------------------------------------
(* Lookups that can run at once. *)
Ready(l) ==
    \/ pc[l] = "semaphore" /\ (PermitFree \/ Watched(l))
    \/ pc[l] \in {"first", "second", "starting"}
    \/ pc[l] = "schedule" /\ scheduler = None
    \/ pc[l] = "interval" /\ (intervalLeft = 0 \/ Watched(l))

Waiting(l) == pc[l] \in {"semaphore", "schedule", "interval"}

(* A lookup whose context has ended and that cannot run outlives it. *)
Tick ==
    /\ intervalLeft' = Less(intervalLeft)
    /\ cooldownLeft' = Less(cooldownLeft)
    /\ openLeft' = Less(openLeft)
    /\ debt' = Less(debt)
    /\ promised' = Less(promised)
    /\ asked' = Less(asked)
    /\ shutLeft' = Less(shutLeft)
    /\ overdue' = overdue \cup {l \in Lookups : CtxDone(l) /\ Waiting(l) /\ ~Ready(l)}
    /\ UNCHANGED <<pc, ctx, permits, scheduler, failures, opened, failedRun, late>>

LookupStep(l) ==
    \/ Acquire(l) \/ GiveUpSemaphore(l) \/ FirstCheck(l)
    \/ IntervalOver(l) \/ GiveUpInterval(l) \/ SecondCheck(l) \/ Start(l)
    \/ \E outcome \in Outcomes : EndCall(l, outcome)

Next ==
    \/ \E l \in Lookups : Begin(l) \/ LockSchedule(l) \/ LookupStep(l) \/ CtxEnds(l)
    \/ Tick

Spec == Init /\ [][Next]_vars

(* Goroutines run; a call ends, as its request carries the context; every  *)
(* context ends, as the query timeout fires.  A waiter for scheduleMu gets *)
(* it some time, however often others take it: sync.Mutex hands itself to  *)
(* a starving waiter.                                                      *)
Fairness ==
    \A l \in Lookups :
        /\ WF_vars(LookupStep(l))
        /\ WF_vars(CtxEnds(l))
        /\ SF_vars(LockSchedule(l))

FairSpec == Spec /\ Fairness

----------------------------------------------------------------------------
(* Every variable stays within the values its Go type and the code allow.  *)
TypeOK ==
    /\ pc \in [Lookups -> States]
    /\ ctx \in [Lookups -> {"live", "ended"}]
    /\ permits \in 0..MaxConcurrent
    /\ scheduler \in Lookups \cup {None}
    /\ intervalLeft \in 0..MinInterval
    /\ failures \in 0..BreakerFailureLimit
    /\ cooldownLeft \in Nat
    /\ opened \in BOOLEAN
    /\ openLeft \in 0..BreakerTimeout
    /\ debt \in Nat
    /\ promised \in Nat
    /\ asked \in Nat
    /\ shutLeft \in 0..BreakerTimeout
    /\ failedRun \in 0..BreakerFailureLimit
    /\ late \subseteq Lookups
    /\ overdue \subseteq Lookups

Calling == {l \in Lookups : pc[l] = "calling"}

(* A lookup holds a permit from the semaphore to its return, and           *)
(* scheduleMu exactly while it waits for the interval.                     *)
Holders == {l \in Lookups : pc[l] \notin {"idle", "semaphore"}}

(* No more requests are in flight than max_concurrent allows, and every    *)
(* permit that is out belongs to a lookup that is still on its way: none   *)
(* is lost on a return and none given back twice.                          *)
ConcurrencyLimit ==
    /\ Cardinality(Calling) <= MaxConcurrent
    /\ permits = Cardinality(Holders)

ScheduleInv == \A l \in Lookups : pc[l] = "interval" <=> scheduler = l

(* Requests and slots that have not become requests yet, together, are     *)
(* ahead of one in min_interval by no more than the permits.               *)
Pending == {l \in Lookups : pc[l] \in {"second", "starting"}}

SpacingInv ==
    debt + Cardinality(Pending) * MinInterval <= MaxConcurrent * MinInterval + intervalLeft

(* The breaker counts what its history holds, and stays open as long as    *)
(* its last failure asks.                                                  *)
BreakerInv ==
    /\ failures = failedRun
    /\ shutLeft <= openLeft
    /\ openLeft > 0 => opened /\ failedRun = BreakerFailureLimit

(* Only a lookup between its second check and its request can be late, and *)
(* who stands there and is not has found the source neither cooling down   *)
(* nor shut.                                                               *)
LateInv ==
    /\ asked <= cooldownLeft
    /\ late \subseteq {l \in Lookups : pc[l] = "starting"}
    /\ \A l \in Lookups : pc[l] = "starting" => l \in late \/ (shutLeft = 0 /\ asked = 0)

(* With a single permit no answer can shorten what another has promised,   *)
(* and none arrives between a second check and its request.                *)
CooldownInv ==
    /\ promised <= cooldownLeft
    /\ \A l \in Lookups : pc[l] \in {"starting", "calling"} => promised = 0

(* Who outlives its context waits for scheduleMu, and with a second permit *)
(* out somebody else may have it.                                          *)
OverdueInv == \A l \in overdue : CtxDone(l) /\ pc[l] = "schedule" /\ MaxConcurrent > 1

Starts(l) == pc[l] # "calling" /\ pc'[l] = "calling"

(* Two requests of a source start at least min_interval apart.             *)
MinSpacing == [][\A l \in Lookups : Starts(l) => debt = 0]_vars

(* Over any stretch of time a source starts no more requests than one in   *)
(* min_interval and max_concurrent + 1 besides, however long each lookup   *)
(* is held up between its reserved slot and its request, and whatever      *)
(* slots are given up or refused in between.                               *)
StartsAreRationed == debt <= (MaxConcurrent + 1) * MinInterval

(* After the third failure since the breaker was last reset, unless it     *)
(* brought a Retry-After, no request starts for breaker_timeout or until   *)
(* one in flight succeeds: not by a lookup that had passed the first check *)
(* and was waiting its turn, only by one that had passed the second before *)
(* the source shut.                                                        *)
NoStartWhileShut == [][\A l \in Lookups : Starts(l) => shutLeft = 0 \/ l \in late]_vars

(* Until the last Retry-After has passed no request starts but those of    *)
(* lookups past the second check when it arrived: a success that was in    *)
(* flight ends an open breaker and leaves the cooldown.                    *)
CooldownStands == [][\A l \in Lookups : Starts(l) => asked = 0 \/ l \in late]_vars

(* The same until every Retry-After the upstream has sent has passed.      *)
RetryAfterObeyed == [][\A l \in Lookups : Starts(l) => promised = 0 \/ l \in late]_vars

(* How many lookups can be late: none when there is one permit, as the     *)
(* answer that shuts the source comes from its holder.                     *)
FewAreLate == Cardinality(late) < MaxConcurrent

(* The breaker is open only after three failures since the last success or *)
(* reset; failures of before the reset and lookups the client canceled do  *)
(* not count.                                                              *)
BreakerEarned == openLeft > 0 => failedRun = BreakerFailureLimit

(* A lookup whose context has ended waits no longer, except for a lookup   *)
(* that keeps scheduleMu through its own wait: Lock takes no context.      *)
OverdueOnlyBehindSchedule ==
    \A l \in overdue : pc[l] = "schedule" /\ MaxConcurrent > 1

(* No lookups wait for each other: when nobody can run, they wait for a    *)
(* call in flight, which its context ends, or for the interval, which time *)
(* ends.  Time itself never stops, so a circle of waits (semaphore,        *)
(* scheduleMu) would not show as a deadlock.                               *)
WaitsAreGrounded ==
    (\E l \in Lookups : Waiting(l)) /\ (\A l \in Lookups : ~Ready(l)) =>
        Calling # {} \/ (\E l \in Lookups : pc[l] = "interval" /\ intervalLeft > 0)

(* Every lookup returns, whatever the upstream and the other lookups do.   *)
EveryLookupReturns == \A l \in Lookups : pc[l] # "idle" ~> pc[l] = "idle"
=============================================================================
