------------------------- MODULE SourceRuntimeProofs -------------------------
(* Type correctness of SourceRuntime and its promises to the upstream, for *)
(* every number of lookups, every limit and every length of time.          *)
EXTENDS SourceRuntime, FiniteSetTheorems, TLAPS

LEMMA HoldersFinite == IsFiniteSet(Holders) /\ Cardinality(Holders) \in Nat
<1>1. Holders \subseteq Lookups
  BY DEF Holders
<1> QED BY <1>1, FS_Subset, FS_CardinalityType, LookupsAssumption

(* What each kind of step does to the holders of a permit. *)
LEMMA HoldersEnter ==
    ASSUME TypeOK, NEW l \in Lookups, pc[l] \in {"idle", "semaphore"},
           pc' = [pc EXCEPT ![l] = "first"]
    PROVE  Cardinality(Holders') = Cardinality(Holders) + 1
<1>1. Holders' = Holders \cup {l} /\ l \notin Holders
  BY DEF Holders, TypeOK
<1> QED BY <1>1, HoldersFinite, FS_AddElement

LEMMA HoldersLeave ==
    ASSUME TypeOK, NEW l \in Lookups, pc[l] \notin {"idle", "semaphore"},
           pc' = [pc EXCEPT ![l] = "idle"]
    PROVE  /\ Cardinality(Holders') = Cardinality(Holders) - 1
           /\ Cardinality(Holders) > 0
<1>1. Holders' = Holders \ {l} /\ l \in Holders
  BY DEF Holders, TypeOK
<1>2. Cardinality(Holders) # 0
  BY <1>1, HoldersFinite, FS_EmptySet
<1> QED BY <1>1, <1>2, HoldersFinite, FS_RemoveElement

LEMMA HoldersStay ==
    ASSUME TypeOK, NEW l \in Lookups, NEW state \in States,
           pc' = [pc EXCEPT ![l] = state],
           pc[l] \in {"idle", "semaphore"} <=> state \in {"idle", "semaphore"}
    PROVE  Holders' = Holders
BY DEF Holders, TypeOK

(* Every number a step computes stays within its bounds. *)
LEMMA NumberTypes ==
    /\ \A n \in Nat : Less(n) \in Nat
    /\ \A k \in Nat : \A n \in 0..k : Less(n) \in 0..k
    /\ \A k \in Nat, n \in Nat : UpTo(k, n) \in 0..k
    /\ \A n, m \in Nat : AtLeast(n, m) \in Nat
BY DEF Less, UpTo, AtLeast

LEMMA UpToLimit ==
    /\ 0 \in 0..BreakerFailureLimit
    /\ \A n \in 0..BreakerFailureLimit :
          UpTo(BreakerFailureLimit, n + 1) \in 0..BreakerFailureLimit
BY DEF UpTo, BreakerFailureLimit

LEMMA OutcomesType ==
    ASSUME NEW outcome \in Outcomes
    PROVE  /\ outcome.kind \in {"ok", "failed", "canceled", "limited"}
           /\ outcome.after \in Nat
<1>1. CASE outcome \in [kind : {"ok", "failed", "canceled"}, after : {0}]
  BY <1>1
<1>2. CASE outcome \in [kind : {"limited"}, after : RetryAfters]
  BY <1>2, RetryAfterAssumption
<1> QED BY <1>1, <1>2 DEF Outcomes

----------------------------------------------------------------------------
PermitInv == permits = Cardinality(Holders)

TypeInv == TypeOK /\ PermitInv

LEMMA TypeInit == Init => TypeInv
<1> SUFFICES ASSUME Init PROVE TypeInv
  OBVIOUS
<1>1. TypeOK
  <2>1. 0 \in 0..MinInterval /\ 0 \in 0..BreakerTimeout /\ 0 \in 0..MaxConcurrent
    BY LimitsAssumption
  <2>2. 0 \in 0..BreakerFailureLimit
    BY DEF BreakerFailureLimit
  <2>3. pc \in [Lookups -> States]
    BY DEF Init, States
  <2> QED BY <2>1, <2>2, <2>3 DEF Init, TypeOK
<1>2. Holders = {}
  BY DEF Init, Holders
<1> QED BY <1>1, <1>2, FS_EmptySet DEF Init, TypeInv, PermitInv

(* The parts of TypeOK that only the end of a call and Tick disturb. *)
LEMMA ReturnType ==
    ASSUME TypeOK, NEW l \in Lookups, Return(l)
    PROVE  /\ pc' \in [Lookups -> States]
           /\ ctx' \in [Lookups -> {"live", "ended"}]
           /\ overdue' \subseteq Lookups
BY DEF TypeOK, Return, States

LEMMA GoToType ==
    ASSUME TypeOK, NEW l \in Lookups, NEW state \in States, GoTo(l, state)
    PROVE  /\ pc' \in [Lookups -> States]
           /\ ctx' \in [Lookups -> {"live", "ended"}]
           /\ overdue' \subseteq Lookups
BY DEF TypeOK, GoTo

LEMMA RefuseType ==
    ASSUME TypeInv, NEW l \in Lookups, pc[l] \notin {"idle", "semaphore"},
           Return(l), permits' = permits - 1
    PROVE  permits' \in 0..MaxConcurrent /\ PermitInv'
<1>1. /\ Cardinality(Holders') = Cardinality(Holders) - 1
      /\ Cardinality(Holders) > 0
  BY HoldersLeave DEF Return, TypeInv
<1>2. permits = Cardinality(Holders) /\ permits \in 0..MaxConcurrent
  BY DEF TypeInv, TypeOK, PermitInv
<1> QED BY <1>1, <1>2, LimitsAssumption DEF PermitInv

LEMMA KeepType ==
    ASSUME TypeInv, NEW l \in Lookups, NEW state \in States \ {"idle", "semaphore"},
           pc[l] \notin {"idle", "semaphore"}, GoTo(l, state), UNCHANGED permits
    PROVE  permits' \in 0..MaxConcurrent /\ PermitInv'
<1>1. Holders' = Holders
  BY HoldersStay DEF GoTo, TypeInv
<1> QED BY <1>1 DEF TypeInv, TypeOK, PermitInv

LEMMA EndCallType ==
    ASSUME TypeInv, NEW l \in Lookups, NEW outcome \in Outcomes, EndCall(l, outcome)
    PROVE  TypeInv'
<1> USE OutcomesType, NumberTypes, LimitsAssumption DEF TypeInv, TypeOK
<1>1. pc[l] = "calling" /\ Return(l) /\ permits' = permits - 1
  BY DEF EndCall
<1>2. permits' \in 0..MaxConcurrent /\ PermitInv'
  BY <1>1, RefuseType
<1>3. /\ failures' \in 0..BreakerFailureLimit
      /\ cooldownLeft' \in Nat
      /\ opened' \in BOOLEAN
      /\ openLeft' \in 0..BreakerTimeout
  <2>0. 0 \in 0..BreakerTimeout /\ BreakerTimeout \in 0..BreakerTimeout
    OBVIOUS
  <2>1. CASE recordSuccess
    <3>1. failures' \in 0..BreakerFailureLimit /\ cooldownLeft' \in Nat
      BY <2>1, UpToLimit DEF recordSuccess, SameCooldown
    <3>2. opened' \in BOOLEAN /\ openLeft' \in 0..BreakerTimeout
      BY <2>0, <2>1 DEF recordSuccess
    <3> QED BY <3>1, <3>2
  <2>2. CASE recordFailure(outcome)
    <3>1. failures' \in 0..BreakerFailureLimit
      BY <2>2, UpToLimit DEF recordFailure
    <3>2. cooldownLeft' \in Nat
      BY <2>2 DEF recordFailure
    <3>3. opened' \in BOOLEAN
      BY <2>2 DEF recordFailure
    <3>4. openLeft' = openLeft \/ openLeft' = BreakerTimeout
      BY <2>2 DEF recordFailure
    <3> QED BY <2>0, <3>1, <3>2, <3>3, <3>4
  <2>3. CASE UNCHANGED circuitVars
    BY <2>3 DEF circuitVars
  <2> QED BY <2>1, <2>2, <2>3 DEF EndCall
<1>4. promised' \in Nat /\ asked' \in Nat /\ late' \subseteq Lookups
  BY DEF EndCall, Note
<1>5. shutLeft' \in 0..BreakerTimeout
  BY DEF EndCall, Note, Trips
<1>6. failedRun' \in 0..BreakerFailureLimit
  BY UpToLimit DEF EndCall, Note
<1>7. UNCHANGED <<scheduler, intervalLeft, debt>>
  BY DEF EndCall
<1> QED BY <1>1, <1>2, <1>3, <1>4, <1>5, <1>6, <1>7, ReturnType

LEMMA TickType == ASSUME TypeInv, Tick PROVE TypeInv'
<1> USE NumberTypes, LimitsAssumption DEF TypeInv, TypeOK, Tick
<1>1. intervalLeft' \in 0..MinInterval /\ debt' \in Nat
  OBVIOUS
<1>2. openLeft' \in 0..BreakerTimeout /\ shutLeft' \in 0..BreakerTimeout
  <2>1. BreakerTimeout \in Nat
    OBVIOUS
  <2> QED BY <2>1
<1>3. cooldownLeft' \in Nat /\ promised' \in Nat /\ asked' \in Nat
  OBVIOUS
<1>4. overdue' \subseteq Lookups
  OBVIOUS
<1>5. PermitInv'
  BY DEF PermitInv, Holders
<1> QED BY <1>1, <1>2, <1>3, <1>4, <1>5

LEMMA TypeStep == ASSUME TypeInv, [Next]_vars PROVE TypeInv'
<1> USE DEF TypeInv, TypeOK
<1>0. CASE UNCHANGED vars
  BY <1>0 DEF vars, circuitVars, historyVars, retryVars, PermitInv, Holders
<1>1. ASSUME NEW l \in Lookups, Begin(l) PROVE TypeInv'
  <2>1. Holders' = Holders
    BY <1>1, HoldersStay DEF Begin, GoTo, States
  <2> QED
    BY <1>1, <2>1, GoToType
       DEF Begin, GoTo, States, PermitInv, circuitVars, historyVars, retryVars
<1>2. ASSUME NEW l \in Lookups, CtxEnds(l) PROVE TypeInv'
  BY <1>2 DEF CtxEnds, PermitInv, Holders, circuitVars, historyVars, retryVars
<1>3. ASSUME NEW l \in Lookups, Acquire(l) PROVE TypeInv'
  <2>1. Cardinality(Holders') = Cardinality(Holders) + 1
    BY <1>3, HoldersEnter DEF Acquire, GoTo
  <2>2. permits' \in 0..MaxConcurrent /\ PermitInv'
    BY <1>3, <2>1, LimitsAssumption DEF Acquire, PermitFree, PermitInv
  <2> QED BY <1>3, <2>2, GoToType DEF Acquire, GoTo, States, circuitVars, historyVars, retryVars
<1>4. ASSUME NEW l \in Lookups, GiveUpSemaphore(l) PROVE TypeInv'
  <2>1. Holders' = Holders
    BY <1>4, HoldersStay DEF GiveUpSemaphore, Return, States
  <2> QED
    BY <1>4, <2>1, ReturnType
       DEF GiveUpSemaphore, PermitInv, circuitVars, historyVars, retryVars
<1>5. ASSUME NEW l \in Lookups, NEW state \in {"schedule", "starting"},
             pc[l] \notin {"idle", "semaphore"},
             UNCHANGED <<scheduler, intervalLeft, debt, retryVars>>,
             \/ Refuse(l)
             \/ ClearExpired /\ GoTo(l, state) /\ UNCHANGED permits
      PROVE TypeInv'
  <2>1. CASE Refuse(l)
    BY <1>5, <2>1, RefuseType, ReturnType DEF Refuse, circuitVars, retryVars
  <2>2. CASE ClearExpired /\ GoTo(l, state) /\ UNCHANGED permits
    <3>1. /\ failures' \in 0..BreakerFailureLimit /\ failedRun' \in 0..BreakerFailureLimit
          /\ opened' \in BOOLEAN
      BY <2>2, UpToLimit DEF ClearExpired
    <3> QED BY <1>5, <2>2, <3>1, KeepType, GoToType DEF ClearExpired, States, retryVars
  <2> QED BY <1>5, <2>1, <2>2
<1>6. ASSUME NEW l \in Lookups, FirstCheck(l) PROVE TypeInv'
  BY <1>6, <1>5 DEF FirstCheck
<1>7. ASSUME NEW l \in Lookups, SecondCheck(l) PROVE TypeInv'
  BY <1>7, <1>5 DEF SecondCheck
<1>13. ASSUME NEW l \in Lookups, Start(l) PROVE TypeInv'
  <2>1. debt' \in Nat /\ late' \subseteq Lookups
    BY <1>13, LimitsAssumption DEF Start
  <2> QED BY <1>13, <2>1, KeepType, GoToType DEF Start, States, circuitVars
<1>8. ASSUME NEW l \in Lookups, LockSchedule(l) PROVE TypeInv'
  <2>1. CASE Return(l) /\ permits' = permits - 1 /\ UNCHANGED <<scheduler, intervalLeft>>
    BY <1>8, <2>1, RefuseType, ReturnType DEF LockSchedule, circuitVars, historyVars, retryVars
  <2>2. CASE intervalLeft' = MinInterval /\ GoTo(l, "second") /\ UNCHANGED <<permits, scheduler>>
    BY <1>8, <2>2, KeepType, GoToType, LimitsAssumption
       DEF LockSchedule, States, circuitVars, historyVars, retryVars
  <2>3. CASE scheduler' = l /\ GoTo(l, "interval") /\ UNCHANGED <<permits, intervalLeft>>
    BY <1>8, <2>3, KeepType, GoToType DEF LockSchedule, States, circuitVars, historyVars, retryVars
  <2> QED BY <1>8, <2>1, <2>2, <2>3 DEF LockSchedule
<1>9. ASSUME NEW l \in Lookups, IntervalOver(l) PROVE TypeInv'
  BY <1>9, KeepType, GoToType, LimitsAssumption
     DEF IntervalOver, Reserved, States, circuitVars, historyVars, retryVars
<1>10. ASSUME NEW l \in Lookups, GiveUpInterval(l) PROVE TypeInv'
  BY <1>10, RefuseType, ReturnType DEF GiveUpInterval, Unlocked, circuitVars, historyVars, retryVars
<1>11. ASSUME NEW l \in Lookups, NEW outcome \in Outcomes, EndCall(l, outcome) PROVE TypeInv'
  BY <1>11, EndCallType
<1>12. CASE Tick
  BY <1>12, TickType
<1> QED
  BY <1>0, <1>1, <1>2, <1>3, <1>4, <1>6, <1>7, <1>8, <1>9, <1>10, <1>11, <1>12, <1>13
     DEF Next, LookupStep

(* In every reachable state the variables are well typed: in particular no *)
(* permit is given back that was not taken.                                *)
THEOREM TypeCorrect == Spec => []TypeOK
<1>1. TypeInv => TypeOK
  BY DEF TypeInv
<1> QED BY <1>1, TypeInit, TypeStep, PTL DEF Spec

(* The semaphore keeps the requests in flight within max_concurrent, and   *)
(* every permit that is out has a holder: no return loses one or gives it  *)
(* back twice.                                                             *)
THEOREM RequestsAreLimited == Spec => []ConcurrencyLimit
<1>1. TypeInv => ConcurrencyLimit
  <2> SUFFICES ASSUME TypeInv PROVE ConcurrencyLimit
    OBVIOUS
  <2>1. Calling \subseteq Holders
    BY DEF Calling, Holders
  <2>2. Cardinality(Calling) <= Cardinality(Holders) /\ IsFiniteSet(Calling)
    BY <2>1, HoldersFinite, FS_Subset
  <2>3. Cardinality(Holders) <= MaxConcurrent
    BY LimitsAssumption DEF TypeInv, TypeOK, PermitInv
  <2> QED
    BY <2>2, <2>3, HoldersFinite, FS_CardinalityType, LimitsAssumption
       DEF ConcurrencyLimit, TypeInv, PermitInv
<1> QED BY <1>1, TypeInit, TypeStep, PTL DEF Spec

----------------------------------------------------------------------------
(* The spacing of the requests. *)
LEMMA PendingFinite ==
    ASSUME TypeInv
    PROVE  /\ IsFiniteSet(Pending) /\ Cardinality(Pending) \in Nat
           /\ Cardinality(Pending) <= MaxConcurrent
<1>1. Pending \subseteq Holders
  BY DEF Pending, Holders
<1>2. IsFiniteSet(Pending) /\ Cardinality(Pending) <= Cardinality(Holders)
  BY <1>1, HoldersFinite, FS_Subset
<1> QED
  BY <1>2, HoldersFinite, FS_CardinalityType, LimitsAssumption DEF TypeInv, TypeOK, PermitInv

(* How far n pending slots are ahead; a lemma each, so that the prover of  *)
(* the steps need not multiply.                                            *)
LEMMA OneMore ==
    ASSUME NEW n \in Nat
    PROVE  /\ n * MinInterval \in Nat
           /\ (n + 1) * MinInterval = n * MinInterval + MinInterval
BY LimitsAssumption

LEMMA AtMost ==
    ASSUME NEW n \in Nat, NEW m \in Nat, n <= m
    PROVE  n * MinInterval <= m * MinInterval
BY LimitsAssumption

LEMMA SpacingInit == Init => SpacingInv
<1> SUFFICES ASSUME Init PROVE SpacingInv
  OBVIOUS
<1>1. Pending = {}
  BY DEF Init, Pending
<1>2. Cardinality(Pending) = 0
  BY <1>1, FS_EmptySet
<1>3. 0 * MinInterval = 0 /\ MaxConcurrent * MinInterval \in Nat
  BY LimitsAssumption
<1> QED BY <1>2, <1>3 DEF Init, SpacingInv

(* A step that leaves the clock alone and reserves nothing. *)
LEMMA SpacingKept ==
    ASSUME TypeInv, SpacingInv, UNCHANGED <<intervalLeft, debt>>, Pending' \subseteq Pending
    PROVE  SpacingInv'
<1>1. Cardinality(Pending') <= Cardinality(Pending) /\ Cardinality(Pending') \in Nat
  BY PendingFinite, FS_Subset, FS_CardinalityType
<1>2. Cardinality(Pending') * MinInterval <= Cardinality(Pending) * MinInterval
  BY <1>1, AtMost, PendingFinite
<1>3. /\ Cardinality(Pending') * MinInterval \in Nat
      /\ Cardinality(Pending) * MinInterval \in Nat
      /\ MaxConcurrent * MinInterval \in Nat
  BY <1>1, PendingFinite, OneMore, LimitsAssumption
<1> QED BY <1>2, <1>3 DEF SpacingInv, TypeInv, TypeOK

(* A reservation, made when the interval has passed. *)
LEMMA SpacingReserved ==
    ASSUME TypeInv, SpacingInv, intervalLeft = 0, intervalLeft' = MinInterval,
           UNCHANGED debt, NEW l \in Lookups, pc[l] \in {"schedule", "interval"},
           pc' = [pc EXCEPT ![l] = "second"]
    PROVE  SpacingInv'
<1>1. Pending' = Pending \cup {l} /\ l \notin Pending
  BY DEF Pending, TypeInv, TypeOK
<1>2. Cardinality(Pending') = Cardinality(Pending) + 1
  BY <1>1, PendingFinite, FS_AddElement
<1>3. Cardinality(Pending') * MinInterval = Cardinality(Pending) * MinInterval + MinInterval
  BY <1>2, PendingFinite, OneMore
<1>4. Cardinality(Pending) * MinInterval \in Nat /\ MaxConcurrent * MinInterval \in Nat
  BY PendingFinite, OneMore, LimitsAssumption
<1> QED BY <1>3, <1>4, LimitsAssumption DEF SpacingInv, TypeInv, TypeOK

(* A pending slot becomes a request. *)
LEMMA SpacingStart ==
    ASSUME TypeInv, SpacingInv, NEW l \in Lookups, Start(l)
    PROVE  SpacingInv'
<1>1. Pending' = Pending \ {l} /\ l \in Pending
  BY DEF Start, GoTo, Pending, TypeInv, TypeOK
<1>2. Cardinality(Pending') = Cardinality(Pending) - 1 /\ Cardinality(Pending') \in Nat
  BY <1>1, PendingFinite, FS_RemoveElement, FS_CardinalityType
<1>3. Cardinality(Pending) = Cardinality(Pending') + 1
  BY <1>2, PendingFinite
<1>4. Cardinality(Pending) * MinInterval = Cardinality(Pending') * MinInterval + MinInterval
  BY <1>2, <1>3, OneMore
<1>5. Cardinality(Pending') * MinInterval \in Nat /\ MaxConcurrent * MinInterval \in Nat
  BY <1>2, OneMore, LimitsAssumption
<1>6. debt' = debt + MinInterval /\ intervalLeft' = intervalLeft
  BY DEF Start
<1> QED BY <1>4, <1>5, <1>6, LimitsAssumption DEF SpacingInv, TypeInv, TypeOK

(* Time pays for the requests of the past; what is pending is covered by   *)
(* the permits.                                                            *)
LEMMA SpacingTick == ASSUME TypeInv, SpacingInv, Tick PROVE SpacingInv'
<1>1. Pending' = Pending
  BY DEF Tick, Pending
<1>2. /\ Cardinality(Pending) * MinInterval <= MaxConcurrent * MinInterval
      /\ Cardinality(Pending) * MinInterval \in Nat
      /\ MaxConcurrent * MinInterval \in Nat
  BY PendingFinite, AtMost, OneMore, LimitsAssumption
<1>3. debt' = Less(debt) /\ intervalLeft' = Less(intervalLeft)
  BY DEF Tick
<1>4. debt \in Nat /\ intervalLeft \in Nat
  BY LimitsAssumption DEF TypeInv, TypeOK
<1> QED BY <1>1, <1>2, <1>3, <1>4 DEF SpacingInv, Less

LEMMA SpacingStep == ASSUME TypeInv, SpacingInv, [Next]_vars PROVE SpacingInv'
<1>0. CASE UNCHANGED vars
  BY <1>0 DEF vars, SpacingInv, Pending
<1>1. ASSUME NEW l \in Lookups,
             \/ Begin(l) \/ Acquire(l) \/ FirstCheck(l) \/ SecondCheck(l) \/ CtxEnds(l)
             \/ GiveUpSemaphore(l) \/ GiveUpInterval(l)
             \/ \E outcome \in Outcomes : EndCall(l, outcome)
      PROVE  SpacingInv'
  <2>1. UNCHANGED <<intervalLeft, debt>>
    BY <1>1 DEF Begin, Acquire, FirstCheck, SecondCheck, CtxEnds, GiveUpSemaphore,
                GiveUpInterval, EndCall
  <2>2. Pending' \subseteq Pending
    BY <1>1 DEF Begin, Acquire, FirstCheck, SecondCheck, CtxEnds, GiveUpSemaphore,
                GiveUpInterval, EndCall, Refuse, Return, GoTo, Pending, TypeInv, TypeOK
  <2> QED BY <2>1, <2>2, SpacingKept
<1>2. ASSUME NEW l \in Lookups, LockSchedule(l) PROVE SpacingInv'
  <2>0. pc[l] = "schedule" /\ UNCHANGED debt
    BY <1>2 DEF LockSchedule
  <2>1. CASE Return(l) /\ UNCHANGED intervalLeft
    <3>1. Pending' \subseteq Pending
      BY <2>1 DEF Return, Pending, TypeInv, TypeOK
    <3> QED BY <2>0, <2>1, <3>1, SpacingKept
  <2>2. CASE intervalLeft = 0 /\ intervalLeft' = MinInterval /\ GoTo(l, "second")
    BY <2>0, <2>2, SpacingReserved DEF GoTo
  <2>3. CASE GoTo(l, "interval") /\ UNCHANGED intervalLeft
    <3>1. Pending' \subseteq Pending
      BY <2>3 DEF GoTo, Pending, TypeInv, TypeOK
    <3> QED BY <2>0, <2>3, <3>1, SpacingKept
  <2> QED BY <1>2, <2>1, <2>2, <2>3 DEF LockSchedule
<1>3. ASSUME NEW l \in Lookups, IntervalOver(l) PROVE SpacingInv'
  BY <1>3, SpacingReserved DEF IntervalOver, Reserved, GoTo
<1>4. ASSUME NEW l \in Lookups, Start(l) PROVE SpacingInv'
  BY <1>4, SpacingStart
<1>5. CASE Tick
  BY <1>5, SpacingTick
<1> QED BY <1>0, <1>1, <1>2, <1>3, <1>4, <1>5 DEF Next, LookupStep

(* Over any stretch of time a source starts at most max_concurrent + 1     *)
(* requests besides one in min_interval: what the reservation under        *)
(* scheduleMu is worth when the lookups that hold slots may be held up.    *)
THEOREM RequestsAreRationed == Spec => []StartsAreRationed
<1>1. ASSUME TypeInv, SpacingInv PROVE StartsAreRationed
  <2>1. Cardinality(Pending) * MinInterval \in Nat
    BY <1>1, PendingFinite, OneMore
  <2>2. /\ MaxConcurrent * MinInterval \in Nat
        /\ (MaxConcurrent + 1) * MinInterval = MaxConcurrent * MinInterval + MinInterval
    BY OneMore, LimitsAssumption
  <2> QED
    BY <1>1, <2>1, <2>2, LimitsAssumption DEF StartsAreRationed, SpacingInv, TypeInv, TypeOK
<1> QED BY <1>1, TypeInit, TypeStep, SpacingInit, SpacingStep, PTL DEF Spec

----------------------------------------------------------------------------
(* A request starts only past the second check. *)
LEMMA StartStarts ==
    ASSUME TypeOK, [Next]_vars, NEW l \in Lookups, Starts(l)
    PROVE  pc[l] = "starting"
<1>0. CASE UNCHANGED vars
  BY <1>0 DEF vars, Starts
<1>1. ASSUME NEW m \in Lookups, Begin(m) \/ LockSchedule(m) \/ CtxEnds(m) PROVE ~Starts(l)
  BY <1>1 DEF TypeOK, Starts, Begin, LockSchedule, CtxEnds, GoTo, Return
<1>2. ASSUME NEW m \in Lookups,
             \/ Acquire(m) \/ GiveUpSemaphore(m) \/ FirstCheck(m) \/ IntervalOver(m)
             \/ GiveUpInterval(m) \/ SecondCheck(m)
             \/ \E outcome \in Outcomes : EndCall(m, outcome)
      PROVE ~Starts(l)
  BY <1>2 DEF TypeOK, Starts, Acquire, GiveUpSemaphore, FirstCheck, Refuse, IntervalOver,
              GiveUpInterval, SecondCheck, EndCall, GoTo, Return
<1>3. ASSUME NEW m \in Lookups, Start(m) PROVE pc[l] = "starting"
  BY <1>3 DEF TypeOK, Starts, Start, GoTo
<1>4. CASE Tick
  BY <1>4 DEF Tick, Starts
<1> QED BY <1>0, <1>1, <1>2, <1>3, <1>4 DEF Next, LookupStep

----------------------------------------------------------------------------
(* The breaker. *)
LEMMA BreakerInit == Init => BreakerInv
BY DEF Init, BreakerInv

(* Steps that leave the circuit and its history alone, or clear what has   *)
(* expired.                                                                *)
LEMMA BreakerKept ==
    ASSUME TypeOK, BreakerInv, UNCHANGED shutLeft,
           \/ UNCHANGED <<circuitVars, failedRun>>
           \/ ~Refuses /\ ClearExpired
    PROVE  BreakerInv'
<1>1. CASE UNCHANGED <<circuitVars, failedRun>>
  BY <1>1 DEF circuitVars, BreakerInv
<1>2. CASE ~Refuses /\ ClearExpired
  <2>1. openLeft' = 0 /\ openLeft = 0
    BY <1>2, LimitsAssumption DEF Refuses, ClearExpired, TypeOK
  <2> QED BY <1>2, <2>1 DEF ClearExpired, BreakerInv
<1> QED BY <1>1, <1>2

LEMMA BreakerEndCall ==
    ASSUME TypeOK, BreakerInv, NEW l \in Lookups, NEW outcome \in Outcomes,
           EndCall(l, outcome)
    PROVE  BreakerInv'
<1>1. outcome.kind \in {"ok", "failed", "canceled", "limited"} /\ outcome.after \in Nat
  BY OutcomesType
<1>2. CASE outcome.kind = "ok"
  <2>1. failures' = 0 /\ openLeft' = 0
    BY <1>2 DEF EndCall, Counts, recordSuccess
  <2>2. failedRun' = 0 /\ shutLeft' = 0
    BY <1>2 DEF EndCall, Note, Trips, Fails
  <2> QED BY <2>1, <2>2 DEF BreakerInv
<1>3. CASE outcome.kind = "canceled"
  BY <1>3 DEF EndCall, Counts, Note, Trips, Fails, circuitVars, BreakerInv
<1>4. CASE outcome.kind \in {"failed", "limited"}
  <2>1. /\ recordFailure(outcome)
        /\ failedRun' = UpTo(BreakerFailureLimit, failedRun + 1)
        /\ shutLeft' = IF outcome.after = 0 /\ failures + 1 >= BreakerFailureLimit
                       THEN BreakerTimeout ELSE shutLeft
    BY <1>1, <1>4 DEF EndCall, Counts, Note, Trips, Fails, BreakerInv
  <2>2. failures' = failedRun'
    BY <2>1 DEF recordFailure, BreakerInv
  <2>3. openLeft' = IF outcome.after = 0 /\ failures + 1 >= BreakerFailureLimit
                    THEN BreakerTimeout ELSE openLeft
    BY <1>1, <2>1 DEF recordFailure, LimitReached
  <2>4. opened' = (opened \/ (outcome.after = 0 /\ failures + 1 >= BreakerFailureLimit))
    BY <1>1, <2>1 DEF recordFailure, LimitReached, TypeOK
  <2>5. shutLeft' <= openLeft'
    BY <2>1, <2>3, LimitsAssumption DEF BreakerInv
  <2>6. CASE outcome.after = 0 /\ failures + 1 >= BreakerFailureLimit
    <3>1. opened'
      BY <2>4, <2>6
    <3>2. failedRun' = BreakerFailureLimit
      BY <2>1, <2>6 DEF UpTo, BreakerInv, BreakerFailureLimit, TypeOK
    <3> QED BY <2>2, <2>5, <3>1, <3>2 DEF BreakerInv
  <2>7. CASE ~(outcome.after = 0 /\ failures + 1 >= BreakerFailureLimit)
    <3>1. openLeft' = openLeft /\ opened' = opened
      <4>1. openLeft' = openLeft
        BY <2>3, <2>7
      <4>2. opened' = opened
        BY <2>4, <2>7 DEF TypeOK
      <4> QED BY <4>1, <4>2
    <3>2. failedRun = BreakerFailureLimit => failedRun' = BreakerFailureLimit
      BY <2>1 DEF UpTo, BreakerFailureLimit
    <3> QED BY <2>2, <2>5, <3>1, <3>2 DEF BreakerInv
  <2> QED BY <2>6, <2>7
<1> QED BY <1>1, <1>2, <1>3, <1>4

(* Steps of a lookup that neither answer nor check: circuit and history    *)
(* stay.                                                                   *)
LEMMA PlainStep ==
    ASSUME NEW l \in Lookups,
           \/ Begin(l) \/ LockSchedule(l) \/ CtxEnds(l) \/ Acquire(l)
           \/ GiveUpSemaphore(l) \/ IntervalOver(l) \/ GiveUpInterval(l)
    PROVE  UNCHANGED <<circuitVars, promised, asked, shutLeft, late, failedRun>>
BY DEF Begin, LockSchedule, CtxEnds, Acquire, GiveUpSemaphore, IntervalOver, GiveUpInterval,
       historyVars, retryVars

LEMMA BreakerStep == ASSUME TypeOK, BreakerInv, [Next]_vars PROVE BreakerInv'
<1>1. CASE UNCHANGED vars
  BY <1>1 DEF vars, circuitVars, historyVars, retryVars, BreakerInv
<1>2. ASSUME NEW l \in Lookups,
             \/ Begin(l) \/ LockSchedule(l) \/ CtxEnds(l) \/ Acquire(l)
             \/ GiveUpSemaphore(l) \/ IntervalOver(l) \/ GiveUpInterval(l)
      PROVE  BreakerInv'
  BY <1>2, PlainStep, BreakerKept
<1>3. ASSUME NEW l \in Lookups, FirstCheck(l) \/ SecondCheck(l) PROVE BreakerInv'
  BY <1>3, BreakerKept DEF FirstCheck, SecondCheck, RefusesAgain, Refuse, retryVars
<1>4. ASSUME NEW l \in Lookups, NEW outcome \in Outcomes, EndCall(l, outcome)
      PROVE  BreakerInv'
  BY <1>4, BreakerEndCall
<1>5. ASSUME NEW l \in Lookups, Start(l) PROVE BreakerInv'
  BY <1>5, BreakerKept DEF Start
<1>6. CASE Tick
  <2>1. shutLeft' <= openLeft' /\ (openLeft' > 0 => openLeft > 0)
    BY <1>6, LimitsAssumption DEF Tick, Less, BreakerInv, TypeOK
  <2> QED BY <1>6, <2>1 DEF Tick, BreakerInv
<1> QED BY <1>1, <1>2, <1>3, <1>4, <1>5, <1>6 DEF Next, LookupStep

LEMMA BreakerInvariant == Spec => [](TypeInv /\ BreakerInv)
<1>1. TypeInv => TypeOK
  BY DEF TypeInv
<1> QED BY <1>1, TypeInit, TypeStep, BreakerInit, BreakerStep, PTL DEF Spec

(* The breaker opens for three failures since its last reset only.         *)
THEOREM BreakerIsEarned == Spec => []BreakerEarned
<1>1. BreakerInv => BreakerEarned
  BY DEF BreakerInv, BreakerEarned
<1> QED BY <1>1, BreakerInvariant, PTL

----------------------------------------------------------------------------
(* Who is past the second check when the source shuts. *)
Starting == {l \in Lookups : pc[l] = "starting"}

LEMMA LateInit == Init => LateInv
BY DEF Init, LateInv

(* A step that brings nobody to "starting" and tells the source nothing. *)
LEMMA LateKept ==
    ASSUME LateInv, UNCHANGED <<asked, shutLeft, late, cooldownLeft>>, Starting' = Starting
    PROVE  LateInv'
BY DEF LateInv, Starting

LEMMA LateEndCall ==
    ASSUME TypeInv, LateInv, NEW l \in Lookups, NEW outcome \in Outcomes, EndCall(l, outcome)
    PROVE  LateInv'
<1>1. outcome.after \in Nat /\ (outcome.kind \in {"ok", "canceled"} => outcome.after = 0)
  BY OutcomesType DEF Outcomes
<1>2. Starting' = Starting
  BY DEF EndCall, Return, Starting, TypeInv, TypeOK
<1>3. asked' <= cooldownLeft'
  <2>1. CASE outcome.after = 0
    <3>1. asked' = asked /\ cooldownLeft' = cooldownLeft
      BY <1>1, <2>1 DEF EndCall, Note, recordSuccess, SameCooldown, recordFailure, circuitVars
    <3> QED BY <3>1 DEF LateInv
  <2>2. CASE outcome.after > 0
    <3>1. Counts(outcome) /\ outcome.kind # "ok"
      BY <1>1, <2>2, OutcomesType DEF Counts
    <3>2. asked' = outcome.after /\ cooldownLeft' = outcome.after
      BY <2>2, <3>1 DEF EndCall, Note, recordFailure
    <3> QED BY <1>1, <3>2
  <2> QED BY <1>1, <2>1, <2>2
<1>4. CASE outcome.after > 0 \/ Trips(outcome)
  <2>1. late' = Starting
    BY <1>4 DEF EndCall, Note, Starting
  <2> QED BY <1>2, <1>3, <2>1 DEF LateInv, Starting
<1>5. CASE ~(outcome.after > 0 \/ Trips(outcome))
  <2>1. late' = late /\ asked' = asked /\ (shutLeft' = shutLeft \/ shutLeft' = 0)
    BY <1>5 DEF EndCall, Note
  <2> QED BY <1>2, <1>3, <2>1 DEF LateInv, Starting
<1> QED BY <1>4, <1>5

LEMMA LateStep == ASSUME TypeInv, BreakerInv, LateInv, [Next]_vars PROVE LateInv'
<1> USE DEF TypeInv
<1>1. CASE UNCHANGED vars
  BY <1>1, LateKept DEF vars, circuitVars, historyVars, retryVars, Starting
<1>2. ASSUME NEW l \in Lookups,
             \/ Begin(l) \/ LockSchedule(l) \/ CtxEnds(l) \/ Acquire(l)
             \/ GiveUpSemaphore(l) \/ IntervalOver(l) \/ GiveUpInterval(l)
      PROVE  LateInv'
  <2>1. Starting' = Starting
    BY <1>2 DEF TypeOK, Starting, Begin, LockSchedule, CtxEnds, Acquire, GiveUpSemaphore,
                IntervalOver, GiveUpInterval, GoTo, Return
  <2> QED BY <1>2, <2>1, PlainStep, LateKept DEF circuitVars
<1>3. ASSUME NEW l \in Lookups, FirstCheck(l) PROVE LateInv'
  <2>1. Starting' = Starting
    BY <1>3 DEF TypeOK, Starting, FirstCheck, Refuse, GoTo, Return
  <2> QED BY <1>3, <2>1, LateKept DEF FirstCheck, Refuse, ClearExpired, circuitVars, retryVars
<1>4. ASSUME NEW l \in Lookups, SecondCheck(l) PROVE LateInv'
  <2>1. CASE Refuse(l)
    <3>1. Starting' = Starting
      BY <1>4, <2>1 DEF TypeOK, Starting, SecondCheck, Refuse, Return
    <3> QED BY <1>4, <2>1, <3>1, LateKept DEF SecondCheck, Refuse, circuitVars, retryVars
  <2>2. CASE ~RefusesAgain /\ ClearExpired /\ GoTo(l, "starting")
    <3>1. asked = 0 /\ shutLeft = 0
      BY <2>2, LimitsAssumption DEF RefusesAgain, Refuses, LateInv, BreakerInv, TypeOK
    <3>2. UNCHANGED <<asked, shutLeft, late, cooldownLeft>>
      BY <1>4, <2>2 DEF SecondCheck, ClearExpired, retryVars
    <3>3. \A m \in Lookups : pc[m] = "starting" => pc'[m] = "starting"
      BY <2>2 DEF GoTo, TypeOK
    <3> QED BY <3>1, <3>2, <3>3 DEF LateInv
  <2> QED BY <1>4, <2>1, <2>2 DEF SecondCheck
<1>5. ASSUME NEW l \in Lookups, Start(l) PROVE LateInv'
  BY <1>5 DEF Start, GoTo, TypeOK, LateInv, circuitVars
<1>6. ASSUME NEW l \in Lookups, NEW outcome \in Outcomes, EndCall(l, outcome)
      PROVE  LateInv'
  BY <1>6, LateEndCall
<1>7. CASE Tick
  <2>1. asked' <= cooldownLeft' /\ (asked = 0 => asked' = 0) /\ (shutLeft = 0 => shutLeft' = 0)
    BY <1>7 DEF Tick, Less, LateInv, TypeOK
  <2> QED BY <1>7, <2>1 DEF Tick, LateInv
<1> QED BY <1>1, <1>2, <1>3, <1>4, <1>5, <1>6, <1>7 DEF Next, LookupStep

LEMMA LateInvariant == Spec => [](TypeInv /\ LateInv)
<1>1. TypeInv /\ BreakerInv /\ LateInv /\ [Next]_vars => LateInv'
  BY LateStep
<1> QED BY <1>1, BreakerInvariant, LateInit, PTL DEF Spec

(* While the breaker is open no request starts but those of lookups that   *)
(* were past the second check when it opened.                              *)
THEOREM BreakerIsObeyed == Spec => NoStartWhileShut
<1>1. ASSUME TypeInv /\ LateInv, [Next]_vars
      PROVE  [\A l \in Lookups : Starts(l) => shutLeft = 0 \/ l \in late]_vars
  BY <1>1, StartStarts DEF TypeInv, LateInv
<1> QED BY <1>1, LateInvariant, PTL DEF Spec, NoStartWhileShut

(* Nor before the last Retry-After has passed, whatever answers, successes *)
(* among them, arrive in between.                                          *)
THEOREM CooldownIsKept == Spec => CooldownStands
<1>1. ASSUME TypeInv /\ LateInv, [Next]_vars
      PROVE  [\A l \in Lookups : Starts(l) => asked = 0 \/ l \in late]_vars
  BY <1>1, StartStarts DEF TypeInv, LateInv
<1> QED BY <1>1, LateInvariant, PTL DEF Spec, CooldownStands

LEMMA FewStep == ASSUME TypeInv, FewAreLate, [Next]_vars PROVE FewAreLate'
<1> USE DEF TypeInv
<1>1. ASSUME late' \subseteq late PROVE FewAreLate'
  <2>1. /\ IsFiniteSet(late) /\ Cardinality(late) \in Nat
        /\ Cardinality(late') \in Nat /\ Cardinality(late') <= Cardinality(late)
    BY <1>1, LookupsAssumption, FS_Subset, FS_CardinalityType DEF TypeOK
  <2> QED BY <2>1, LimitsAssumption DEF FewAreLate
<1>2. ASSUME NEW l \in Lookups, pc[l] = "calling", late' = Starting PROVE FewAreLate'
  <2>1. Starting \subseteq Holders \ {l} /\ l \in Holders
    BY <1>2 DEF Starting, Holders
  <2>2. /\ IsFiniteSet(Holders \ {l})
        /\ Cardinality(Holders \ {l}) = Cardinality(Holders) - 1
    BY <2>1, HoldersFinite, FS_RemoveElement
  <2>3. Cardinality(Starting) <= Cardinality(Holders) - 1 /\ Cardinality(Starting) \in Nat
    BY <2>1, <2>2, FS_Subset, FS_CardinalityType
  <2>4. Cardinality(Holders) <= MaxConcurrent /\ Cardinality(Holders) \in Nat
    BY HoldersFinite, LimitsAssumption DEF TypeOK, PermitInv
  <2> QED BY <1>2, <2>3, <2>4, LimitsAssumption DEF FewAreLate
<1>3. CASE UNCHANGED vars
  BY <1>1, <1>3 DEF vars, historyVars, retryVars
<1>4. ASSUME NEW l \in Lookups,
             \/ Begin(l) \/ LockSchedule(l) \/ CtxEnds(l) \/ Acquire(l)
             \/ GiveUpSemaphore(l) \/ IntervalOver(l) \/ GiveUpInterval(l)
      PROVE  FewAreLate'
  BY <1>1, <1>4, PlainStep
<1>5. ASSUME NEW l \in Lookups, FirstCheck(l) \/ SecondCheck(l) \/ Start(l) PROVE FewAreLate'
  BY <1>1, <1>5 DEF FirstCheck, SecondCheck, Start, retryVars
<1>6. ASSUME NEW l \in Lookups, NEW outcome \in Outcomes, EndCall(l, outcome)
      PROVE  FewAreLate'
  <2>1. pc[l] = "calling" /\ (late' = late \/ late' = Starting)
    BY <1>6 DEF EndCall, Note, Starting
  <2> QED BY <1>1, <1>2, <2>1
<1>7. CASE Tick
  BY <1>1, <1>7 DEF Tick
<1> QED BY <1>3, <1>4, <1>5, <1>6, <1>7 DEF Next, LookupStep

(* Fewer lookups slip past a source that has shut than it has permits: the *)
(* one whose answer shut it was not among them.  With max_concurrent 1,    *)
(* the default, none does, and BreakerIsObeyed and CooldownIsKept hold     *)
(* without exception.                                                      *)
THEOREM FewSlipThrough == Spec => []FewAreLate
<1>1. Init => FewAreLate
  BY FS_EmptySet, LimitsAssumption DEF Init, FewAreLate
<1>2. TypeInv /\ FewAreLate /\ [Next]_vars => FewAreLate'
  BY FewStep
<1> QED BY <1>1, <1>2, TypeInit, TypeStep, PTL DEF Spec

----------------------------------------------------------------------------
(* Every Retry-After, with a single permit. *)

(* Then the lookup that calls is the only one that holds a permit. *)
LEMMA SingleHolder ==
    ASSUME TypeInv, MaxConcurrent = 1, NEW l \in Holders, NEW m \in Holders
    PROVE  l = m
<1>1. Cardinality(Holders) \in 0..1
  BY DEF TypeInv, TypeOK, PermitInv
<1>2. Holders \ {l} = {}
  <2>1. /\ IsFiniteSet(Holders \ {l})
        /\ Cardinality(Holders \ {l}) = Cardinality(Holders) - 1
    BY HoldersFinite, FS_RemoveElement
  <2>2. Cardinality(Holders \ {l}) = 0
    BY <1>1, <2>1, FS_CardinalityType
  <2> QED BY <2>1, <2>2, FS_EmptySet
<1> QED BY <1>2

(* The lookups past the second check. *)
Past == {l \in Lookups : pc[l] \in {"starting", "calling"}}

LEMMA CooldownInit == Init => CooldownInv
BY DEF Init, CooldownInv

LEMMA CooldownKept ==
    ASSUME CooldownInv, UNCHANGED <<promised, cooldownLeft>>, Past' \subseteq Past
    PROVE  CooldownInv'
BY DEF CooldownInv, Past

LEMMA CooldownStep ==
    ASSUME TypeInv, CooldownInv, MaxConcurrent = 1, [Next]_vars PROVE CooldownInv'
<1> USE DEF TypeInv
<1>1. CASE UNCHANGED vars
  BY <1>1, CooldownKept DEF vars, circuitVars, historyVars, retryVars, Past
<1>2. ASSUME NEW l \in Lookups,
             \/ Begin(l) \/ LockSchedule(l) \/ CtxEnds(l) \/ Acquire(l)
             \/ GiveUpSemaphore(l) \/ IntervalOver(l) \/ GiveUpInterval(l)
      PROVE  CooldownInv'
  <2>1. Past' \subseteq Past
    BY <1>2 DEF TypeOK, Past, Begin, LockSchedule, CtxEnds, Acquire, GiveUpSemaphore,
                IntervalOver, GiveUpInterval, GoTo, Return
  <2> QED BY <1>2, <2>1, PlainStep, CooldownKept DEF circuitVars
<1>3. ASSUME NEW l \in Lookups, FirstCheck(l) \/ Start(l) PROVE CooldownInv'
  <2>1. UNCHANGED <<promised, cooldownLeft>>
    BY <1>3 DEF FirstCheck, Refuse, ClearExpired, Start, circuitVars, retryVars
  <2>2. Past' \subseteq Past
    BY <1>3 DEF TypeOK, Past, FirstCheck, Refuse, Start, GoTo, Return
  <2> QED BY <2>1, <2>2, CooldownKept
<1>4. ASSUME NEW l \in Lookups, SecondCheck(l) PROVE CooldownInv'
  <2>1. UNCHANGED <<promised, cooldownLeft>>
    BY <1>4 DEF SecondCheck, Refuse, ClearExpired, circuitVars, retryVars
  <2>2. CASE Refuse(l)
    <3>1. Past' \subseteq Past
      BY <2>2 DEF Refuse, Return, Past, TypeOK
    <3> QED BY <2>1, <3>1, CooldownKept
  <2>3. CASE ~RefusesAgain
    <3>1. promised = 0
      BY <2>3 DEF RefusesAgain, Refuses, CooldownInv, TypeOK
    <3> QED BY <2>1, <3>1 DEF CooldownInv
  <2> QED BY <1>4, <2>2, <2>3 DEF SecondCheck
<1>5. ASSUME NEW l \in Lookups, NEW outcome \in Outcomes, EndCall(l, outcome)
      PROVE  CooldownInv'
  <2>1. outcome.after \in Nat /\ (outcome.kind \in {"ok", "canceled"} => outcome.after = 0)
    BY OutcomesType DEF Outcomes
  <2>2. promised = 0 /\ promised' = AtLeast(promised, outcome.after)
    BY <1>5 DEF EndCall, Note, CooldownInv
  <2>3. promised' = outcome.after
    BY <2>1, <2>2 DEF AtLeast
  <2>4. promised' <= cooldownLeft'
    <3>1. CASE outcome.after = 0
      <4>1. cooldownLeft' = cooldownLeft
        BY <1>5, <3>1 DEF EndCall, recordSuccess, SameCooldown, recordFailure, circuitVars
      <4> QED BY <2>3, <3>1, <4>1 DEF TypeOK
    <3>2. CASE outcome.after > 0
      <4>1. outcome.kind \in {"failed", "limited"}
        BY <2>1, <3>2, OutcomesType
      <4>2. cooldownLeft' = outcome.after
        BY <1>5, <3>2, <4>1 DEF EndCall, Counts, recordFailure
      <4> QED BY <2>1, <2>3, <4>2
    <3> QED BY <2>1, <3>1, <3>2
  <2>5. \A m \in Lookups : pc'[m] \notin {"starting", "calling"}
    <3>1. pc[l] = "calling" /\ pc' = [pc EXCEPT ![l] = "idle"]
      BY <1>5 DEF EndCall, Return
    <3>2. \A m \in Lookups : pc[m] \in {"starting", "calling"} => m = l
      BY <3>1, SingleHolder DEF Holders
    <3> QED BY <3>1, <3>2 DEF TypeOK
  <2> QED BY <2>4, <2>5 DEF CooldownInv
<1>6. CASE Tick
  <2>1. promised' <= cooldownLeft' /\ (promised = 0 => promised' = 0)
    BY <1>6 DEF Tick, Less, CooldownInv, TypeOK
  <2> QED BY <1>6, <2>1 DEF Tick, CooldownInv
<1> QED BY <1>1, <1>2, <1>3, <1>4, <1>5, <1>6 DEF Next, LookupStep

(* With the default of one request at a time, no request starts before     *)
(* every Retry-After has passed.  With more, an answer in flight may       *)
(* shorten the cooldown: the assumption is needed.                         *)
THEOREM RetryAfterIsObeyed ==
    ASSUME MaxConcurrent = 1 PROVE Spec => RetryAfterObeyed
<1>1. ASSUME TypeInv /\ CooldownInv, [Next]_vars
      PROVE  [\A l \in Lookups : Starts(l) => promised = 0 \/ l \in late]_vars
  BY <1>1, StartStarts DEF TypeInv, CooldownInv
<1>2. TypeInv /\ CooldownInv /\ [Next]_vars => CooldownInv'
  BY CooldownStep
<1> QED
  BY <1>1, <1>2, TypeInit, TypeStep, CooldownInit, PTL DEF Spec, RetryAfterObeyed

(* With more requests at a time it is enough that the answers that name a  *)
(* time name the same, as those of sogou do when the page names none.      *)
SteadyInv ==
    /\ promised <= cooldownLeft
    /\ \A after \in RetryAfters \ {0} : promised <= after
    /\ \A l \in Lookups : pc[l] = "starting" => promised = 0 \/ l \in late

LEMMA SteadyKept ==
    ASSUME SteadyInv, UNCHANGED <<promised, cooldownLeft, late>>, Starting' = Starting
    PROVE  SteadyInv'
BY DEF SteadyInv, Starting

LEMMA SteadyEndCall ==
    ASSUME \A a, b \in RetryAfters \ {0} : a = b,
           TypeOK, SteadyInv, NEW l \in Lookups, NEW outcome \in Outcomes, EndCall(l, outcome)
    PROVE  SteadyInv'
<1>1. outcome.after \in Nat /\ promised' = AtLeast(promised, outcome.after)
  BY OutcomesType DEF EndCall, Note
<1>2. \A m \in Lookups : pc'[m] = "starting" <=> pc[m] = "starting"
  BY DEF EndCall, Return, TypeOK
<1>3. CASE outcome.after = 0
  <2>1. promised' = promised
    BY <1>1, <1>3 DEF AtLeast, TypeOK
  <2>2. cooldownLeft' = cooldownLeft
    BY <1>3 DEF EndCall, recordSuccess, SameCooldown, recordFailure, circuitVars
  <2>3. \A m \in Lookups : pc[m] = "starting" /\ m \in late => m \in late'
    BY DEF EndCall, Note
  <2> QED BY <1>2, <2>1, <2>2, <2>3 DEF SteadyInv
<1>4. CASE outcome.after > 0
  <2>1. outcome.kind = "limited" /\ outcome.after \in RetryAfters \ {0}
    BY <1>4 DEF Outcomes
  <2>2. promised' = outcome.after
    BY <1>1, <2>1 DEF AtLeast, SteadyInv, TypeOK
  <2>3. cooldownLeft' = outcome.after
    BY <1>4, <2>1 DEF EndCall, Counts, recordFailure
  <2>4. \A after \in RetryAfters \ {0} : outcome.after = after
    BY <2>1
  <2>5. \A m \in Lookups : pc[m] = "starting" => m \in late'
    BY <1>4 DEF EndCall, Note
  <2> QED BY <1>1, <1>2, <2>2, <2>3, <2>4, <2>5 DEF SteadyInv
<1> QED BY <1>1, <1>3, <1>4

LEMMA SteadyStep ==
    ASSUME \A a, b \in RetryAfters \ {0} : a = b, TypeOK, SteadyInv, [Next]_vars
    PROVE  SteadyInv'
<1>1. CASE UNCHANGED vars
  BY <1>1, SteadyKept DEF vars, circuitVars, historyVars, retryVars, Starting
<1>2. ASSUME NEW l \in Lookups,
             \/ Begin(l) \/ LockSchedule(l) \/ CtxEnds(l) \/ Acquire(l)
             \/ GiveUpSemaphore(l) \/ IntervalOver(l) \/ GiveUpInterval(l)
      PROVE  SteadyInv'
  <2>1. Starting' = Starting
    BY <1>2 DEF TypeOK, Starting, Begin, LockSchedule, CtxEnds, Acquire, GiveUpSemaphore,
                IntervalOver, GiveUpInterval, GoTo, Return
  <2> QED BY <1>2, <2>1, PlainStep, SteadyKept DEF circuitVars
<1>3. ASSUME NEW l \in Lookups, FirstCheck(l) PROVE SteadyInv'
  <2>1. Starting' = Starting
    BY <1>3 DEF TypeOK, Starting, FirstCheck, Refuse, GoTo, Return
  <2> QED BY <1>3, <2>1, SteadyKept DEF FirstCheck, Refuse, ClearExpired, circuitVars, retryVars
<1>4. ASSUME NEW l \in Lookups, SecondCheck(l) PROVE SteadyInv'
  <2>1. UNCHANGED <<promised, cooldownLeft, late>>
    BY <1>4 DEF SecondCheck, Refuse, ClearExpired, circuitVars, retryVars
  <2>2. CASE Refuse(l)
    <3>1. Starting' = Starting
      BY <1>4, <2>2 DEF TypeOK, Starting, SecondCheck, Refuse, Return
    <3> QED BY <2>1, <3>1, SteadyKept
  <2>3. CASE ~RefusesAgain
    <3>1. promised = 0
      BY <2>3 DEF RefusesAgain, Refuses, SteadyInv, TypeOK
    <3> QED BY <2>1, <3>1 DEF SteadyInv
  <2> QED BY <1>4, <2>2, <2>3 DEF SecondCheck
<1>5. ASSUME NEW l \in Lookups, Start(l) PROVE SteadyInv'
  BY <1>5 DEF Start, GoTo, TypeOK, SteadyInv, circuitVars
<1>6. ASSUME NEW l \in Lookups, NEW outcome \in Outcomes, EndCall(l, outcome)
      PROVE  SteadyInv'
  BY <1>6, SteadyEndCall
<1>7. CASE Tick
  <2>1. promised' <= cooldownLeft' /\ promised' <= promised /\ promised' \in Nat
    BY <1>7 DEF Tick, Less, SteadyInv, TypeOK
  <2>2. UNCHANGED <<pc, late>> /\ (promised = 0 => promised' = 0)
    BY <1>7 DEF Tick, Less
  <2> QED BY <2>1, <2>2, RetryAfterAssumption DEF SteadyInv, TypeOK
<1> QED BY <1>1, <1>2, <1>3, <1>4, <1>5, <1>6, <1>7 DEF Next, LookupStep

(* When all answers that name a time name the same, no request starts      *)
(* before every Retry-After has passed, however many are in flight, but    *)
(* those of lookups past the second check when one arrived.                *)
THEOREM SteadyRetryAfterIsObeyed ==
    ASSUME \A a, b \in RetryAfters \ {0} : a = b PROVE Spec => RetryAfterObeyed
<1>1. Init => SteadyInv
  BY RetryAfterAssumption DEF Init, SteadyInv
<1>2. ASSUME TypeInv /\ SteadyInv, [Next]_vars
      PROVE  [\A l \in Lookups : Starts(l) => promised = 0 \/ l \in late]_vars
  BY <1>2, StartStarts DEF TypeInv, SteadyInv
<1>3. TypeInv /\ SteadyInv /\ [Next]_vars => SteadyInv'
  BY SteadyStep DEF TypeInv
<1> QED BY <1>1, <1>2, <1>3, TypeInit, TypeStep, PTL DEF Spec, RetryAfterObeyed

----------------------------------------------------------------------------
(* The waits. *)
LEMMA TwoHolders ==
    ASSUME TypeInv, NEW l \in Holders, NEW m \in Holders, l # m PROVE MaxConcurrent > 1
<1>1. CASE MaxConcurrent = 1
  BY <1>1, SingleHolder
<1>2. CASE MaxConcurrent # 1
  BY <1>2, LimitsAssumption
<1> QED BY <1>1, <1>2

LEMMA ScheduleInit == Init => ScheduleInv /\ OverdueInv
BY LookupsAssumption DEF Init, ScheduleInv, OverdueInv

(* scheduleMu is held exactly by the lookup that waits for the interval.   *)
LEMMA ScheduleStep == ASSUME TypeOK, ScheduleInv, [Next]_vars PROVE ScheduleInv'
<1> USE LookupsAssumption DEF TypeOK, ScheduleInv
<1>1. CASE UNCHANGED vars
  BY <1>1 DEF vars
<1>2. ASSUME NEW l \in Lookups, NEW state \in States \ {"interval"}, pc[l] # "interval",
             pc' = [pc EXCEPT ![l] = state], UNCHANGED scheduler
      PROVE  ScheduleInv'
  BY <1>2
<1>3. ASSUME NEW l \in Lookups,
             \/ Begin(l) \/ Acquire(l) \/ GiveUpSemaphore(l) \/ FirstCheck(l) \/ SecondCheck(l)
             \/ Start(l) \/ \E outcome \in Outcomes : EndCall(l, outcome)
      PROVE  ScheduleInv'
  <2>1. PICK state \in {"idle", "semaphore", "first", "schedule", "starting", "calling"} :
           pc' = [pc EXCEPT ![l] = state]
    BY <1>3 DEF Begin, Acquire, GiveUpSemaphore, FirstCheck, SecondCheck, Refuse, Start,
                EndCall, GoTo, Return
  <2>2. pc[l] # "interval" /\ UNCHANGED scheduler
    BY <1>3 DEF Begin, Acquire, GiveUpSemaphore, FirstCheck, SecondCheck, Start, EndCall
  <2> QED BY <1>2, <2>1, <2>2 DEF States
<1>4. ASSUME NEW l \in Lookups, LockSchedule(l) PROVE ScheduleInv'
  <2>1. CASE (Return(l) \/ GoTo(l, "second")) /\ UNCHANGED scheduler
    <3>1. PICK state \in {"idle", "second"} : pc' = [pc EXCEPT ![l] = state]
      BY <2>1 DEF GoTo, Return
    <3> QED BY <1>2, <1>4, <2>1, <3>1 DEF LockSchedule, States
  <2>2. CASE scheduler' = l /\ GoTo(l, "interval")
    BY <1>4, <2>2 DEF LockSchedule, GoTo
  <2> QED BY <1>4, <2>1, <2>2 DEF LockSchedule
<1>5. ASSUME NEW l \in Lookups, IntervalOver(l) \/ GiveUpInterval(l) PROVE ScheduleInv'
  <2>1. pc[l] = "interval" /\ scheduler = l /\ scheduler' = None
    BY <1>5 DEF IntervalOver, GiveUpInterval, Unlocked
  <2>2. \A m \in Lookups : pc'[m] # "interval"
    BY <1>5, <2>1 DEF IntervalOver, GiveUpInterval, GoTo, Return
  <2> QED BY <2>1, <2>2
<1>6. ASSUME NEW l \in Lookups, CtxEnds(l) PROVE ScheduleInv'
  BY <1>6 DEF CtxEnds
<1>7. CASE Tick
  BY <1>7 DEF Tick
<1> QED BY <1>1, <1>3, <1>4, <1>5, <1>6, <1>7 DEF Next, LookupStep

(* Who cannot run holds no permit, waits for a call of its own, for the    *)
(* interval, or for the lookup that waits for the interval.                *)
LEMMA HolderWaits ==
    ASSUME TypeOK, ScheduleInv, NEW l \in Holders, ~Ready(l)
    PROVE  \/ pc[l] = "calling"
           \/ \E m \in Lookups : pc[m] = "interval" /\ (pc[l] = "schedule" => m # l)
<1>1. pc[l] \in {"schedule", "interval", "calling"} /\ l \in Lookups
  BY DEF Holders, Ready, TypeOK, States
<1>2. CASE pc[l] = "schedule"
  <2>1. scheduler \in Lookups /\ pc[scheduler] = "interval"
    BY <1>2 DEF Ready, TypeOK, ScheduleInv
  <2> QED BY <1>2, <2>1
<1> QED BY <1>1, <1>2

LEMMA OverdueStep ==
    ASSUME TypeInv, ScheduleInv, OverdueInv, [Next]_vars PROVE OverdueInv'
<1> USE DEF TypeInv, TypeOK, OverdueInv, CtxDone
<1>1. CASE UNCHANGED vars
  BY <1>1 DEF vars
<1>2. ASSUME NEW l \in Lookups, Return(l) PROVE OverdueInv'
  BY <1>2 DEF Return
<1>3. ASSUME NEW l \in Lookups, NEW state, GoTo(l, state), l \notin overdue PROVE OverdueInv'
  BY <1>3 DEF GoTo
<1>4. ASSUME NEW l \in Lookups, LockSchedule(l) PROVE OverdueInv'
  BY <1>2, <1>3, <1>4 DEF LockSchedule
<1>5. ASSUME NEW l \in Lookups, CtxEnds(l) PROVE OverdueInv'
  BY <1>5 DEF CtxEnds
<1>6. ASSUME NEW l \in Lookups, Begin(l) \/ LookupStep(l) PROVE OverdueInv'
  <2>1. pc[l] # "schedule"
    BY <1>6 DEF Begin, LookupStep, Acquire, GiveUpSemaphore, FirstCheck, IntervalOver,
                GiveUpInterval, SecondCheck, Start, EndCall
  <2>2. Return(l) \/ \E state \in States : GoTo(l, state)
    BY <1>6 DEF Begin, LookupStep, Acquire, GiveUpSemaphore, FirstCheck, IntervalOver,
                GiveUpInterval, SecondCheck, Refuse, Start, EndCall, States
  <2> QED BY <1>2, <1>3, <2>1, <2>2
<1>7. CASE Tick
  <2>1. ASSUME NEW l \in Lookups, Waiting(l), CtxDone(l), ~Ready(l)
        PROVE  pc[l] = "schedule" /\ MaxConcurrent > 1
    <3>1. pc[l] = "schedule"
      BY <2>1 DEF Ready, Waiting, Watched
    <3>2. PICK m \in Lookups : pc[m] = "interval" /\ m # l
      BY <2>1, <3>1, HolderWaits DEF Holders
    <3> QED BY <3>1, <3>2, TwoHolders DEF Holders
  <2> QED BY <1>7, <2>1 DEF Tick
<1> QED BY <1>1, <1>4, <1>5, <1>6, <1>7 DEF Next

LEMMA OverdueInvariant == Spec => [](TypeInv /\ ScheduleInv /\ OverdueInv)
<1>1. TypeInv => TypeOK
  BY DEF TypeInv
<1> QED BY <1>1, TypeInit, TypeStep, ScheduleInit, ScheduleStep, OverdueStep, PTL DEF Spec

(* A lookup outlives its context only in the queue for scheduleMu, behind  *)
(* another one: never with max_concurrent of 1.                            *)
THEOREM OverdueBehindSchedule == Spec => []OverdueOnlyBehindSchedule
<1>1. OverdueInv => OverdueOnlyBehindSchedule
  BY DEF OverdueInv, OverdueOnlyBehindSchedule
<1> QED BY <1>1, OverdueInvariant, PTL

(* However many lookups wait for permits, for scheduleMu and for the       *)
(* interval, there is no circle among them.                                *)
THEOREM NoCircleOfWaits == Spec => []WaitsAreGrounded
<1>1. ASSUME TypeInv, ScheduleInv PROVE WaitsAreGrounded
  <2> SUFFICES ASSUME NEW l \in Lookups, Waiting(l), \A m \in Lookups : ~Ready(m)
               PROVE  Calling # {} \/ \E m \in Lookups : pc[m] = "interval" /\ intervalLeft > 0
    BY DEF WaitsAreGrounded
  <2>1. PICK m \in Holders : TRUE
    <3>1. CASE l \in Holders
      BY <3>1
    <3>2. CASE l \notin Holders
      <4>1. pc[l] = "semaphore" /\ ~PermitFree
        BY <1>1, <3>2 DEF Waiting, Holders, Ready
      <4>2. Cardinality(Holders) # 0
        BY <1>1, <4>1, LimitsAssumption DEF PermitFree, TypeInv, TypeOK, PermitInv
      <4> QED BY <4>2, FS_EmptySet
    <3> QED BY <3>1, <3>2
  <2>2. pc[m] = "calling" \/ \E n \in Lookups : pc[n] = "interval"
    BY <1>1, HolderWaits DEF TypeInv, Holders
  <2>3. CASE pc[m] = "calling"
    BY <2>3 DEF Holders, Calling
  <2>4. ASSUME NEW n \in Lookups, pc[n] = "interval" PROVE intervalLeft > 0
    BY <1>1, <2>4, LimitsAssumption DEF Ready, TypeInv, TypeOK
  <2> QED BY <2>2, <2>3, <2>4
<1> QED BY <1>1, OverdueInvariant, PTL
=============================================================================
