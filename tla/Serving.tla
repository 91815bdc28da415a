------------------------------ MODULE Serving ------------------------------
(***************************************************************************)
(* A running server: requests pass the token bucket and the semaphore      *)
(* (internal/security/ratelimit.go), read the merged cache                 *)
(* (internal/storage/baseline/overlay.go), ask upstream, save and answer,  *)
(* while the baseline is replaced, time passes and the application is      *)
(* closed part by part (internal/app, cmd/api).  The self-host and the     *)
(* Vercel deployment share the handlers and differ in what they are built  *)
(* from.  QueryService, SourceRuntime and BaselineSync have the insides of *)
(* the parts that are one step here; all lookups here are of one number.   *)
(***************************************************************************)
EXTENDS Integers, Sequences, FiniteSets

CONSTANTS
    Requests,      \* connections, each of which serves one request at a time
    Sources,       \* the sources of the lookups
    Primary,       \* the first of them in the order of the list
    Rate,          \* what the bucket gains per tick
    Cost,          \* what makes up one token of the bucket
    Burst,         \* its limit, in tokens
    MaxConcurrent, \* the slots of the semaphore
    QueueSize,     \* Options.AsyncQueueSize
    MaxTime        \* bound of the clock

ASSUME RequestsAssumption == IsFiniteSet(Requests)
ASSUME RateAssumption == Rate \in Nat /\ Cost \in Nat \ {0} /\ Burst \in Nat \ {0}
ASSUME LimitAssumption == MaxConcurrent \in Nat \ {0} /\ QueueSize \in Nat \ {0}
ASSUME TimeAssumption == MaxTime \in Nat
ASSUME PrimaryAssumption == Primary \in Sources

VARIABLES
    deployment,  \* which of the two programs this is
    phase,       \* where the program is
    closed,      \* how many of its parts are closed
    clock,
    tokens,      \* the level of the bucket
    last,        \* when it was last filled
    pc,          \* where the request of each connection is
    slots,       \* the connections that hold a slot of the semaphore
    based,       \* what the request has read from the baseline
    found,       \* where its record of each source comes from
    spam,        \* the sources whose upstream answers it still has to save
    baseline,    \* the sources the active baseline has the number under
    stored,      \* the sources the runtime database has it under
    queue,       \* asyncSaveCh
    inHand,      \* the batch the writer saves
    mark,        \* history: the moment from which admissions are counted
    count,       \* history: the admissions since then
    known        \* history: what was stored when the request was admitted

limiter == <<tokens, last, slots>>
program == <<deployment, phase, closed>>
lookup  == <<based, found, spam>>
saving  == <<queue, inHand>>
window  == <<mark, count>>
vars == <<program, clock, limiter, pc, lookup, baseline, stored, saving, window, known>>

----------------------------------------------------------------------------
Capacity == Burst * Cost

Deployments == {"selfhost", "vercel"}

Phases == {"starting", "serving", "lost", "stopping", "ended"}

States == {"idle", "allowed", "body", "base", "stored", "upstream", "save", "answered"}

Origins == {"none", "base", "stored", "fresh"}

(* Defect: the databases are closed before what uses them. *)
StorageFirst(d) ==
    IF d = "selfhost" THEN <<"server", "sync", "baseline", "runtime", "queue", "writer">>
    ELSE <<"runtime", "server", "queue">>

(* App.Close; Shutdown and VercelApp.Close.  Service.Close is two parts:   *)
(* it closes the channel and then waits for the writer to drain it.        *)
CloseOrder(d) ==
    IF d = "selfhost" THEN <<"server", "sync", "queue", "writer", "baseline", "runtime">>
    ELSE <<"server", "queue", "runtime">>

IsClosed(part) == \E i \in 1..closed : CloseOrder(deployment)[i] = part

Nothing == [s \in Sources |-> "none"]

Init ==
    /\ deployment \in Deployments
    /\ phase = "starting"
    /\ closed = 0
    /\ clock = 0
    /\ tokens = Capacity /\ last = 0
    /\ slots = {}
    /\ pc = [r \in Requests |-> "idle"]
    /\ based = [r \in Requests |-> {}]
    /\ found = [r \in Requests |-> Nothing]
    /\ spam = [r \in Requests |-> {}]
    /\ baseline = {}
    /\ stored = {}
    /\ queue = <<>> /\ inHand = {}
    /\ mark = 0 /\ count = 0
    /\ known = [r \in Requests |-> {}]

Running == phase # "ended"

Goes(r, from, to) == Running /\ pc[r] = from /\ pc' = [pc EXCEPT ![r] = to]

----------------------------------------------------------------------------
(* The middleware of a query.  The bearer check comes before it and        *)
(* changes nothing.                                                        *)

Least(a, b) == IF a < b THEN a ELSE b

(* Defect: what was saved up while idle has no limit. *)
Unlimited == tokens + (clock - last) * Rate

Refilled == Least(tokens + (clock - last) * Rate, Capacity)

(* allow().  Connections that are kept alive outlast a lost listener. *)
Allow(r) ==
    /\ phase \in {"serving", "lost"} /\ pc[r] = "idle"
    /\ last' = clock
    /\ IF Refilled < Cost
       THEN tokens' = Refilled /\ UNCHANGED <<pc, count, known>>
       ELSE /\ tokens' = Refilled - Cost
            /\ count' = count + 1
            /\ pc' = [pc EXCEPT ![r] = "allowed"]
            /\ known' = [known EXCEPT ![r] = stored]
    /\ UNCHANGED <<program, clock, slots, lookup, baseline, stored, saving, mark>>

SlotFree == Cardinality(slots) < MaxConcurrent

(* The select on the semaphore: without a slot the request ends here, and  *)
(* the token it has taken is spent.  The slot is held until the handler    *)
(* ends, while the body is read too.                                       *)
Enter(r) ==
    /\ IF SlotFree
       THEN Goes(r, "allowed", "body") /\ slots' = slots \cup {r}
            /\ UNCHANGED known
       ELSE Goes(r, "allowed", "idle") /\ known' = [known EXCEPT ![r] = {}] /\ UNCHANGED slots
    /\ UNCHANGED <<program, clock, tokens, last, lookup, baseline, stored, saving, window>>

Release(r) ==
    /\ Goes(r, "answered", "idle")
    /\ slots' = slots \ {r}
    /\ found' = [found EXCEPT ![r] = Nothing]
    /\ known' = [known EXCEPT ![r] = {}]
    /\ UNCHANGED <<program, clock, tokens, last, based, spam, baseline, stored, saving, window>>

----------------------------------------------------------------------------
(* The handler: queryV2 around lookupWithMode. *)

Rest == <<program, clock, limiter, baseline, window, known>>

(* ShouldBindJSON waits for the client, without a limit; a body that is    *)
(* not what it should be is answered at once.                              *)
ReadBody(r) ==
    /\ \/ Goes(r, "body", IF deployment = "selfhost" THEN "base" ELSE "stored")
       \/ Goes(r, "body", "answered")
    /\ UNCHANGED <<Rest, based, found, spam, stored, saving>>

(* Every cached record says spam, so the first source's is enough. *)
Decide(r, from, records) ==
    /\ found' = [found EXCEPT ![r] = records]
    /\ based' = [based EXCEPT ![r] = {}]
    /\ Goes(r, from, IF records[Primary] # "none" THEN "answered" ELSE "upstream")
    /\ UNCHANGED <<Rest, spam, stored, saving>>

(* A read that fails makes the whole cache one that failed. *)
ReadBaseline(r) ==
    \/ /\ Goes(r, "base", "stored")
       /\ based' = [based EXCEPT ![r] = baseline]
       /\ UNCHANGED <<Rest, found, spam, stored, saving>>
    \/ Decide(r, "base", Nothing)

(* Defect: what was merged first stays. *)
BaselineWins(r) ==
    [s \in Sources |-> IF s \in based[r] THEN "base" ELSE IF s \in stored THEN "stored" ELSE "none"]

(* mergeResults: one record for each source, the stored one if there are two. *)
Merged(r) ==
    [s \in Sources |-> IF s \in stored THEN "stored" ELSE IF s \in based[r] THEN "base" ELSE "none"]

ReadStored(r) ==
    \/ ~IsClosed("runtime") /\ Decide(r, "stored", Merged(r))
    \/ Decide(r, "stored", Nothing)

(* LookupAll of the sources without a record: some answer, and some of     *)
(* those answers are spam.                                                 *)
AskUpstream(r) ==
    \E answers \in SUBSET {s \in Sources : found[r][s] = "none"} : \E bad \in SUBSET answers :
        /\ Goes(r, "upstream", "save")
        /\ found' = [found EXCEPT ![r] = [s \in Sources |-> IF s \in answers THEN "fresh" ELSE @[s]]]
        /\ spam' = [spam EXCEPT ![r] = bad]
        /\ UNCHANGED <<Rest, based, stored, saving>>

(* SaveBatch, of a database that may be closed, fail or run out of time. *)
SaveBatch(batch) ==
    \/ ~IsClosed("runtime") /\ stored' = stored \cup batch
    \/ UNCHANGED stored

(* enqueueSave: dropped when the channel is full or closed. *)
Enqueue(batch) ==
    IF IsClosed("queue") \/ Len(queue) = QueueSize THEN UNCHANGED queue
    ELSE queue' = Append(queue, batch)

SaveAndAnswer(r) ==
    /\ IF spam[r] = {} THEN UNCHANGED <<stored, queue>>
       ELSE IF deployment = "selfhost" THEN Enqueue(spam[r]) /\ UNCHANGED stored
       ELSE SaveBatch(spam[r]) /\ UNCHANGED queue
    /\ Goes(r, "save", "answered")
    /\ spam' = [spam EXCEPT ![r] = {}]
    /\ UNCHANGED <<Rest, based, found, inHand>>

Handler(r) ==
    ReadBaseline(r) \/ ReadStored(r) \/ AskUpstream(r) \/ SaveAndAnswer(r)

----------------------------------------------------------------------------
(* asyncWriter *)

Others == <<program, clock, limiter, pc, lookup, baseline, window, known>>

Receive ==
    /\ Running /\ inHand = {} /\ queue # <<>>
    /\ inHand' = Head(queue) /\ queue' = Tail(queue)
    /\ UNCHANGED <<Others, stored>>

WriteBatch ==
    /\ Running /\ inHand # {}
    /\ SaveBatch(inHand)
    /\ inHand' = {}
    /\ UNCHANGED <<Others, queue>>

(* An activation of BaselineSync, which App.Close does not wait for. *)
ReplaceBaseline ==
    /\ deployment = "selfhost" /\ Running /\ ~IsClosed("baseline")
    /\ \E b \in SUBSET Sources : baseline' = b
    /\ UNCHANGED <<program, clock, limiter, pc, lookup, stored, saving, window, known>>

----------------------------------------------------------------------------
(* The program.  A start that fails, and the end of the listener on Vercel,*)
(* lead to the close; the self-host program only logs that its listener    *)
(* has ended, and waits for the signal.                                    *)

Unmoved == <<deployment, clock, limiter, pc, lookup, baseline, stored, saving, window, known>>

Phase(from, to) == phase = from /\ phase' = to /\ UNCHANGED <<closed, Unmoved>>

Start == Phase("starting", "serving") \/ Phase("starting", "stopping")

LoseListener == Phase("serving", IF deployment = "selfhost" THEN "lost" ELSE "stopping")

Signal == Phase("serving", "stopping") \/ Phase("lost", "stopping")

AllIdle == \A r \in Requests : pc[r] = "idle"

Drained == queue = <<>> /\ inHand = {}

(* Defect: Shutdown waits for everybody without a limit. *)
EverybodyIsWaitedFor(part) == (part = "server" => AllIdle) /\ (part = "writer" => Drained)

(* Shutdown waits for the handlers: without a limit in App.Close, for five *)
(* seconds at most on Vercel.                                              *)
MayClose(part) ==
    /\ part = "server" /\ deployment = "selfhost" => AllIdle
    /\ part = "writer" => Drained

ClosePart ==
    /\ phase = "stopping" /\ closed < Len(CloseOrder(deployment))
    /\ MayClose(CloseOrder(deployment)[closed + 1])
    /\ closed' = closed + 1
    /\ UNCHANGED <<phase, Unmoved>>

(* The process ends, and with it every handler that still runs. *)
Exit == closed = Len(CloseOrder(deployment)) /\ Phase("stopping", "ended")

Tick ==
    /\ clock < MaxTime
    /\ clock' = clock + 1
    /\ UNCHANGED <<program, limiter, pc, lookup, baseline, stored, saving, window, known>>

(* History: start to count anew. *)
Watch ==
    /\ mark' = clock /\ count' = 0 /\ mark < clock
    /\ UNCHANGED <<program, clock, limiter, pc, lookup, baseline, stored, saving, known>>

Step(r) == Enter(r) \/ Handler(r) \/ Release(r)

Writer == Receive \/ WriteBatch

Next ==
    \/ \E r \in Requests : Allow(r) \/ ReadBody(r) \/ Step(r)
    \/ Writer \/ ReplaceBaseline
    \/ Start \/ LoseListener \/ Signal \/ ClosePart \/ Exit \/ Tick \/ Watch

Spec == Init /\ [][Next]_vars

(* The scheduler runs every goroutine, an upstream query ends (its timeout *)
(* ends it at the latest).  Self-host clients send their body or hang up:  *)
(* no timeout of the server would end the wait.                            *)
Moves(r) == Step(r) \/ (deployment = "selfhost" /\ ReadBody(r))

FairSpec ==
    /\ Spec
    /\ \A r \in Requests : WF_vars(Moves(r))
    /\ WF_vars(Writer) /\ WF_vars(ClosePart \/ Exit)

----------------------------------------------------------------------------
(* Every variable stays within the values its Go type and use allow. *)
TypeOK ==
    /\ deployment \in Deployments /\ phase \in Phases
    /\ closed \in 0..6 /\ closed <= Len(CloseOrder(deployment))
    /\ clock \in 0..MaxTime /\ last \in 0..clock /\ mark \in 0..clock
    /\ tokens \in 0..Capacity /\ count \in Nat
    /\ pc \in [Requests -> States] /\ slots \subseteq Requests
    /\ based \in [Requests -> SUBSET Sources]
    /\ found \in [Requests -> [Sources -> Origins]]
    /\ spam \in [Requests -> SUBSET Sources]
    /\ {baseline, stored, inHand} \subseteq SUBSET Sources
    /\ queue \in Seq(SUBSET Sources) /\ Len(queue) <= QueueSize
    /\ known \in [Requests -> SUBSET Sources]

(* From any moment on, no more queries are let through than a full bucket  *)
(* and what it gains allow, those refused for concurrency included         *)
(* (ratelimit.go allow, DEPLOY.md "burst").                                *)
RateBound == count * Cost <= Capacity + Rate * (clock - mark)

InHandler(r) == pc[r] \notin {"idle", "allowed"}

(* No more handlers run than there are slots, and a slot is taken only as  *)
(* long as its handler runs (ratelimit.go Middleware).                     *)
SlotLimit ==
    /\ Cardinality({r \in Requests : InHandler(r)}) <= MaxConcurrent
    /\ \A r \in Requests : r \in slots <=> InHandler(r)

(* A source whose record was stored before a request began is never        *)
(* answered for from the baseline: both are merged for the stored one, and *)
(* a cache read that failed leaves neither (overlay.go mergeResults).      *)
StoredWins ==
    \A r \in Requests : \A s \in known[r] : found[r][s] # "base"

(* Self-host: no handler outlives the server and no batch the writer, so   *)
(* neither finds its database closed (app.go Close).  A synchronization    *)
(* may: App.Close does not wait for one (BaselineSync).                    *)
NoUseAfterClose ==
    deployment = "selfhost" =>
        /\ IsClosed("baseline") => AllIdle
        /\ IsClosed("runtime") => AllIdle /\ Drained

(* A shutdown that has begun ends: self-host once the handlers and the     *)
(* writer are done, on Vercel even if a client never sends its body.       *)
ShutdownEnds == phase = "stopping" ~> phase = "ended"
=============================================================================
