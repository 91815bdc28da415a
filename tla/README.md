# Formal model of Pixel Telo Mast Self-host

This directory holds TLA+ modules that model the core of the server, the TLC
configurations that check them, and TLAPS proofs about them. `PROJECT.json`
lists every component, run, mutant, hazard and theorem, and maps each
definition to the source lines it stands for.

Contents: [the system](#the-system) · [modules](#modules-and-the-code) ·
[runs and bounds](#runs-and-bounds) · [fairness](#fairness) ·
[proofs](#proofs) · [findings](#findings) ·
[not modelled](#what-is-not-modelled) · [plan](#plan)

## The system

A phone asks the server whether a number is known spam. The server answers
from what it has stored, from a downloaded baseline, or by asking the enabled
web sources, and stores what it learns.

| Component | State | Operations | Modelled in |
| --- | --- | --- | --- |
| Query service (`query/service`) | queue of batches to save, `closed`, `saveMu`, `closeOnce` | Lookup, LookupWithSources, ListSources, Close; the background writer | `QueryService`, `SpamLedger` |
| Source runtime (`provider/dispatcher.go`) | semaphore, schedule, failure count, breaker, cooldown, per source | LookupAll, lookup, circuitError, waitForInterval, recordSuccess, recordFailure | `SourceRuntime` |
| Source requests (`provider/client.go`, `sogou.go`, `so360.go`) | none beyond one query | request, redirects, reading of the page | `ProviderExchange` |
| Baseline store (`internal/storage/baseline/store.go`) | the open snapshot, `closed`, a read-write lock | Lookup, Replace, Clear, Close | `BaselineSync` |
| Baseline synchronization (`internal/baselinesync/manager.go`) | files on disk, two metadata keys | Sync, activateDatabase, rollbackStore, Run, Close | `BaselineSync` |
| Baseline download (`internal/baselinesync/client.go`, `downloader.go`, `validator.go`) | temporary files | Check, Download, verify, extract, ValidateDatabase | `BaselineFetch` |
| Runtime repository (SQLite), PostgreSQL repository | spam rows, `schema_migrations`, `runtime_metadata` | Open with migrations, SaveBatch, ListByPhone, metadata, EnsureInstanceID | `InstanceDatabase`; rows in `QueryService` and `Serving`, keys in `BaselineSync` |
| Overlay (`internal/storage/baseline/overlay.go`) | none | ListByPhone merges baseline and stored rows | `Serving` |
| Query limiter (`internal/security/ratelimit.go`) | token bucket, semaphore | Middleware, allow | `Serving` |
| Application (`internal/app`, `cmd`) | the open components | Build, BuildVercel, serve, Close | `Serving`; Build's parts in `BaselineSync`, `InstanceDatabase`, `DataDirectory` |
| HTTP API (`httpapi`) | none | query, pairing page, lists | `AnswerPath` (query), `DataDirectory` (pairing page) |
| Phone segments (`phone`) | embedded table | Find | `PhoneSearch` |
| Configuration and command line (`internal/config`, `cmd/mast-selfhost`) | `config.yaml` | init, serve, pairing | `Configuration`, `DataDirectory` |
| Token and TLS files (`internal/config/validate.go`, `internal/security/tls.go`) | token, certificate and key files | EnsureToken, PrepareTLS | `DataDirectory` |
| Logging and host addresses | none | format, list | - |

The interactions that are hard to get right:

- lookups, the background writer and several callers of `Close` share a
  bounded channel that is closed once;
- a lookup combines a cache read, answers that arrive in any order, an order
  of priority that a client may change, and two contexts that end on their own;
- one source's requests share a semaphore, a schedule and a circuit that is
  checked twice with a wait between;
- an activation changes files, two database keys and the served snapshot with
  no transaction over them, while lookups read, `App.Close` runs, or the
  process dies;
- several processes open one database, or start in one empty data directory,
  at once, each perhaps the first;
- two deployments close the same parts in different orders, one of them
  without waiting for its handlers;
- a page of a source may refuse, redirect, time out, show another number's
  card or none, and each of these must become another answer.

The properties that make each component correct are in the next section;
`hazards` in `PROJECT.json` lists what is hard to test, at the line where it
bites.

## Modules and the code

How the modules compose:

| Module | Built from |
| --- | --- |
| `QueryService` | EXTENDS `SourceSelection`; implements `SpamLedger` (`Ledger == INSTANCE SpamLedger WITH ...`) |
| `BaselineFetch` | EXTENDS `BaselineSync` and fills in its step `fetch`; implements it |
| `InstanceDatabase` | implements `InstanceRegistry` (`Registry == INSTANCE InstanceRegistry WITH ...`) |
| `DataDirectory` | EXTENDS `Configuration` |
| `AnswerPath` | EXTENDS `ProviderExchange` and `PhoneSearch`, and uses an instance of `SourceSelection` |
| `Serving` | abstract versions of the query service, the store and the runtime repository under the limiter, the overlay and the program's life |

### SourceSelection and QueryService: a lookup, its cache, the queue, Close

`SourceSelection` has the pure part of `selection.go` and the list handling of
`LookupWithSources`: `EffectiveList` (trim, keep what is enabled, drop
repetitions, fall back), `Missing`, `Ready`, `Selected`, `LookupError`. A list
is kept as the client wrote it, and `NameAt` and `Enabled` say what
normalization makes of its positions.

`QueryService` has one step for every point of `lookupWithMode` where another
goroutine can come between:

| Code | Actions |
| --- | --- |
| `LookupWithSources`, `listCached` | `Begin`, `ReadCache`, `CacheFails`, `AnswerFromCache` |
| `LookupAll` and the sources | `Dispatch`, `Reply` (one per source, any outcome), `Collect` |
| contexts | `ClientLeaves`, `QueryTimeout` |
| `saveRecords`, `enqueueSave` | `SyncSave`, `SyncSaveFails`; `RLock`, `CheckClosed`, `Send` |
| `asyncWriter`, `saveSafe` | `Receive`, `SaveBatch`, `SaveBatchFails`, `WriterExit` |
| the final choice | `Finish` |
| `Close` | `CallClose`, `LockForClose`, `CloseChannel`, `WaitWriter`, `ReturnClose` |

`saveMu` is `readers` and `locker`: a `sync.RWMutex` admits no new reader
while a writer waits, so `CanRLock` looks at waiting closers too. A lookup
that has returned leaves its slot to the next, so behaviours are unbounded. A
record is reduced to its verdict; tags, confidence and hit counts travel with
it and decide nothing.

Properties: `NoChannelPanic`, `CloseDrains` (closing), `NoSourceSkipped`,
`StickySpam`, `KnownSourceNotAsked` (priority and cache), `TruthfulErrors`, and
the liveness properties `EveryLookupReturns`, `CloseReturns`,
`AcceptedIsTried`.

### SpamLedger: what the service promises

The same service for somebody who sees only clients and repository: a `book`
of spam verdicts that only grows, what the sources have `said`, each client's
`question`, what was `heard` for it, and its `answer`. It has no queue, no
lock, no context and no cache. `WriteDown` adds to the book only what was
said; an answer of spam needs the book or a source that has just said so; one
of clean needs a source that says so and none that says spam; an error needs a
failure and no verdict. `ServesTheLedger` is its specification under the
mapping at the end of `QueryService`, where the book is the repository and
what is said includes what is queued, in hand or not yet saved.

### SourceRuntime: the limits of one source

The stages of `sourceRuntime.lookup` are the values of `pc`: semaphore, first
check, `scheduleMu`, the wait, second check, `starting`, the call. Instants
(`lastStart + MinInterval`, `cooldownUntil`, `openUntil`) are kept as the time
left until them. `Tick` lets one unit pass between any two steps: a lookup may
be held up between the slot it reserved (`IntervalOver`, `dispatcher.go:247`),
the second check (`SecondCheck`, :210) and its request (`Start`, :215), each
for as long as it takes, while others go on and answers arrive. A call ends
with success, a failure that counts, a cancellation that does not, or a rate
limit with its Retry-After. History variables hold what the properties are
about, apart from what the code keeps: `debt` (what the requests so far owe to
`MinInterval`), `promised` and `asked` (every Retry-After received, and the
last one), `shutLeft`, `failedRun`, `overdue`, and `late`: the lookups past
their second check when an answer shut the source, whose requests no check
stops any more.

Properties: `ConcurrencyLimit` (with every permit accounted for),
`StartsAreRationed` (over any stretch of time at most one request for each
interval and `MaxConcurrent + 1` besides), `NoStartWhileShut`,
`CooldownStands`, `BreakerEarned`, `OverdueOnlyBehindSchedule`,
`EveryLookupReturns`. The spacing of two actual requests (`MinSpacing`) does
not hold, and `RetryAfterObeyed` holds with one request at a time only (see
findings). Nobody but the late ones slips through, and these are fewer than
the permits (`FewAreLate`): none with the default of one.

### BaselineSync: activation, restart, serving

The disk (`files`, `activeKey`, `pendingKey`) survives a crash; the store
(`current`, `storeClosed`, `handles`) and the activation in progress do not.
`activateDatabase` is one step per call that can fail or that others can see
(`ActivationStep`): `Rename`, `SetPending`, `Open`, `Swap` or
`ClosedMeanwhile`, `Retire`, `Commit`, `Settle`, `Cleanup`, and the way back:
`Undo`, `Rollback`, `Clear`, `Unpend`, `Drop`. `Build`, `Promote` and `Forget`
are the start; `StopSync`, `CloseStore` and `CloseRuntime` are `App.Close`,
whose three parts other goroutines come between. `Crash` may happen anywhere.

Two failures leave the store serving something else than the keys name, and
the history variable `astray` marks them: the old handle cannot be closed, so
`Replace` returns an error after it has swapped (`close`), or the previous file
cannot be opened again during the rollback (`reopen`).

Properties: `CommittedSurvives`; `ServedIsRecoverable` (between
synchronizations what is served is what a restart would load, unless the store
went astray); `ReadersHaveHandle` and `NoHandleLeak`, together
`HandlesInOrder`.

### BaselineFetch: from the announcement to a validated file

The step `fetch` of `BaselineSync` in detail: `Check`, `CreateArchive`,
`Respond`, `Receive` (the limited writer), `Received` (the size announced),
`VerifySHA256`, `CreateDatabase`, `Unpack` (the entries of the archive),
`Measure`, `ValidateDatabase`, `StageFetched`. `Break` is any call that fails,
`Cancel` the end of the context, `CrashFetch` the death of the process. The
archive and the extracted database are temporary files (`temps`) until `Sync`
returns, so also through the activation; those of a process that died are
`strays`, which nothing removes. An archive is its size, its sum and its
entries; an entry is what it declares, what it is packed into, what comes out,
and whether its name and its tables pass.

Properties: `AcceptsTheSound` (a fetch that nothing cuts short hands on exactly
the archives it should: the steps, each with its own limit, against one
definition over the whole archive); `DiskIsBounded` (what stays behind comes
from deaths and from the failures after which nothing is removed, two files
each at the most); `SyncEnds` (once told to stop); `HandlesInOrder`.

### InstanceDatabase: migrations and identity

What each process does first with its database, for both engines: `Begin`,
`Check`, `Apply`, `Record`, `Commit` are `applyMigrations`; `Read`, `Insert`,
`CommitId` are `EnsureInstanceID`; `Fail` is an error, a timeout of a lock or
the death of the process, with the rollback the database does. SQLite commits
after each version and lets one writer in at a time (`BEGIN IMMEDIATE`);
PostgreSQL commits all versions at once under an advisory lock that only
migrations take, and replaces an identity that is blank. Two assumptions about
the databases are built in: an uncommitted change is seen by its transaction
only, and an INSERT on a row that another transaction is writing waits for it.
A blank identity is in the initial states of PostgreSQL only: `repository_test.go`
of that repository puts it there, and no code writes one to either.

Properties: `SchemaIsSound`, `OneIdentity`, `IdentityIsStable`,
`KeepsTheRegistry`.

### InstanceRegistry: what a database promises those who start on it

The same database without locks, transactions, proposals or engines: a
`version` that only grows (`Upgrade`), a `name` that the first process on the
whole schema gives, and the name each process runs `under` (`Run`, `Leave`). In
the mapping at the end of `InstanceDatabase` the version is the number of
migrations committed, and a row that is absent or blank is no name. A commit of
`applyMigrations` is an upgrade by all it has executed, `Read` of an existing
identity and `CommitId` are `Run`, `Fail` is `Leave`, and every other step is
invisible: a transaction is all or nothing.

### Configuration and DataDirectory: the first start

`Configuration` says what `init` writes for each combination of its flags
(`PublicURLs`, `WidenListen`, `Rendered`) and what `serve` accepts (`Accepts`),
telling addresses apart by who can reach them. `DataDirectory` runs `init`,
`serve` and `pairing` as processes in one directory, one step per call on a
file: `CreateConfig`, `WriteConfig`, `CloseConfig`; `ReadToken`, `MintToken`,
`RereadToken`, `WriteToken`, `CloseToken`; `StatCertificate`,
`WriteCertificate`, `CreateKey`, `WriteKey`, `LoadKeyPair`; `StartApp`, `Stop`;
`PairingToken`, `ShowPairing`. `Die` ends a process between any two, `Expire`
makes the certificate old. A file is absent, `Partial` or whole. The history
variables say what went wrong: two servers at once (`overlap`), a write cut
short (`damaged`), a complete file removed again (`withdrawn`).

Properties: `UsableConfig` (what `init` writes `serve` accepts, and a loopback
server is not announced to the network), `OneToken`, `PairingStands` (a client
paired once stays paired), `StartFailsForACause`.

### Serving: limiter, overlay and the life of the program

A request passes the bucket (`Allow`) and the semaphore (`Enter`, `Release`),
has its body read (`ReadBody`, inside the slot), reads baseline and stored rows
one after the other (`ReadBaseline`, `ReadStored`), asks upstream, saves and
answers, also over a connection kept alive after the listener is lost.
`Start`, `LoseListener`, `Signal`, `ClosePart` and `Exit` are the
program. `CloseOrder` has the parts in the order of `App.Close`, and of
`Shutdown` and `VercelApp.Close`; the self-host program waits for its handlers
without a limit, Vercel for five seconds, so there a handler may find the pool
closed. The bucket counts in whole units: `Cost` of them make a token and
`Rate` of them come with a tick, so fractions of a token occur.

Properties: `RateBound` (from any moment on), `StoredWins`, `NoUseAfterClose`,
`ShutdownEnds`.

### ProviderExchange, PhoneSearch, AnswerPath: from a page to a response

`ProviderExchange` has one query of each source. `Withhold` is everything
`sourceRuntime.lookup` returns without a request: a cooldown, an open circuit,
the end of the context at the semaphore or the schedule. `Ask` is the request,
followed by `Redirect` under the policies of `client.go` and `sogou.go`,
`Respond`, `Read` with captcha and card, or `Fails`; `Refuses` and `Verdict`
are how the two sources judge a page, and `End` the error class of
`normalizeProviderError`. What arrived (`seen`, `shown`) is recorded where it
arrives, apart from what the code concludes. A card is the number it stands
for and the mark beside it: sogou takes the number as one run of digits and the
label of that very card, 360 any digits of a card that contain the number and
the first mark anywhere on the page (`so360.go:138-145`). `PhoneSearch` is the binary search of
`Finder.Find` as a loop: `Look` is one round. `AnswerPath` joins them:
`Choose` is the choice among what the sources said and `errorStatus`, `Locate`
the search, `Respond200` the response. `TableAssumption`, that prefixes ascend
strictly, was confirmed of the embedded `phone.dat`: 517259 entries, no bytes
after the last, and every record of it is readable, so `Unreadable` stands for
a damaged file.

Properties: `RefusalBacksOff` (exactly the refusals that were read, or that
still hold, count as one, with the wait they ask for), `CleanWasShown` (a clean
verdict needs a page that showed the number, and no label that any source
showed on the number's own card is outvoted), `StatusTellsWhy`,
`LocationFound`, `EveryQueryEnds`.

### Supporting modules

`MC*` modules give TLC values and symmetry; `*Proofs` modules hold the
theorems. A definition commented `Defect:` is a plausible bug in the
definition after it: no specification uses it, and the mutants of
`PROJECT.json` put it in place of the right one to show that a property
notices.

## Runs and bounds

| Run | Asks |
| --- | --- |
| `query_async` | two lookups, the writer, two callers of `Close`, saves that may hang: is the channel safe and drained, does the whole implement `SpamLedger`, and does everything return |
| `query_lookup` | one lookup, three sources, each list a client may send, every outcome: is the answer the right one |
| `source_pair` | three lookups, two permits, an interval of 1, a breaker of 2, time passing anywhere: are permits, breaker, cooldown and the number of requests kept, and does each lookup return |
| `source_spacing` | a violation: two requests start closer together than the interval |
| `source_retry_after` | a violation: a later answer shortens the cooldown |
| `baseline_crash` | crashes and failing calls at each step: is the baseline found again |
| `baseline_fetch` | archives on both sides of each limit, lookups, activations with every failure, deaths, `App.Close`: is exactly the sound archive activated, are handles and files accounted for, does a synchronization told to stop end |
| `baseline_shutdown` | a violation: a clean shutdown loses sight of the baseline |
| `instance_start` | three processes, two migrations, either engine: one schema, one identity, and does the whole implement `InstanceRegistry` |
| `first_start` | two processes run `init`, `serve` and `pairing` in an empty directory: one token, one pin, a usable configuration |
| `serving` | three connections, two slots, both deployments: are rate, merge and closing right |
| `answer_path` | both sources, withheld or asked, every page, every prefix around a small index: is the response the right one |

Why these bounds are enough to be of use:

- *Query.* A queue of one batch is full as soon as one is waiting, so two
  lookups reach empty, full and dropped. `Impatient` names the lookups whose
  contexts may end, `SourceOutcomes` the ways a source may answer:
  `query_async` needs none of the first and two of the second, since neither
  changes what reaches the queue; `query_lookup` has all. There one lookup is
  enough for the choice (others only add rows, which `query_async` has), three
  sources give a first, a middle and a last, and the one stored row is the
  middle one's; a failed read hides it, which covers the number nobody knows.
  The client lists reverse the order with a blank, a repetition and an unknown
  name, name one source, name none that is enabled, and are empty.
- *Source.* A Retry-After may be absent, shorter than the breaker or as long.
  Failures are counted up to the limit of three, as `>=` is all the code asks.
  Three lookups on two permits leave one waiting at the semaphore while two
  meet at the schedule, or one is late while the other's answer shuts the
  source. `debt` stays within what `StartsAreRationed` allows, and a third
  permit or a longer interval only repeats what two and 1 show: the theorems
  have every number.
- *Baseline.* In `baseline_crash` four names allow a served file, its
  predecessor and two attempts; a name is used again once its file is gone, so
  activations go on for ever except where orphans of crashes have used up the
  names. Crashes are unbounded. `Faults` names the calls that may fail by
  themselves: this run leaves out `unpend`, for which the code has no answer,
  and an `App.Close` that falls into a synchronization (`Overlaps`), which is
  `baseline_shutdown`'s subject. The two together are the assumption
  `KeepsPending` of the theorems.
- *Fetch.* An archive may have 0, 1, 2, 3 or 4 units where 2 are allowed and 1,
  2 or 3 announced; a database 3 where 3 are allowed or 4; one entry, none or
  two; and one of each other fault. No synchronization begins after `MaxLapses`
  = 3 crashes or failures that leave a file behind; seven names are then always
  enough for a fresh one, and which fresh one is taken makes no difference, so
  `StageFetched` takes the first. Every failing call of `BaselineSync` is in.
- *Instance.* The repository has one migration per engine; two are taken, to
  have a step between versions. Three processes give one at work, one that
  waits and one that arrives. Four identities are one more than there are
  proposals, so a new one never equals another.
- *First start.* Two processes run commands for ever; three secrets allow a
  token, a key and one generated in vain. Five sets of flags lead to the
  default file, a loopback server with an address of the network, no TLS, no
  provider, and a refusal. A write, a close or the start of the listener may
  fail.
- *Serving.* Three connections on two slots leave one to be refused; a bucket
  of two tokens gains one per tick and the clock makes one tick, so it is empty,
  partly filled and full again; a queue of one batch is empty and full. One
  source is enough for the merge, which treats each source by itself; the
  theorems have any number.
- *Answer path.* `MaxRedirects` is the code's 5 requests. The cards are all
  combinations of a number that is the query's own, part of longer digits or
  absent, and a mark that is absent, empty, the card's own or another's. The
  index has three entries, one unreadable, and prefixes lie below, on, between
  and above them. The order of the sources is the default one; the theorems
  have both.

`CHECK_DEADLOCK FALSE` is used in `serving` and `answer_path`, which end: the
process is gone, the response is sent. Elsewhere there is always something
left to do.

## Fairness

- *Query service.* `StuckWriterSpec` assumes that goroutines which can run do,
  and that a source answers: its request carries the query context, whose
  timeout always fires. Nothing makes a client ask or leave or anyone call
  `Close`, and nothing makes a background save return: that one is the
  antecedent `WriterRuns` of `CloseReturns` and `AcceptedIsTried`, so
  `EveryLookupReturns` holds even with a repository that hangs.
- *Source runtime.* `FairSpec` assumes that goroutines run, that a call ends,
  as its request carries the context, and that a context ends, as the query
  timeout fires. `LockSchedule` has strong fairness: the lock may be taken
  again and again by others, and `sync.Mutex` hands itself to a waiter that
  starves. Time need not pass.
- *Fetch.* `FairFetch` assumes that steps which wait for nobody are taken
  (`LocalStep`), that a request whose context has ended returns (`Cancel`;
  requests carry the context of `Run`), that the activation goes on
  (`Activate`, strong, since it waits for the store's lock), and that a writer
  that waits finds that lock free again and again, since readers end and a
  `sync.RWMutex` lets no new one past it. Nothing is assumed of the server:
  `http.DefaultClient` has no timeout (`client.go:36`), so a server that stays
  silent may hold `Sync`, and later ones behind `syncMu`, until `Close` cancels
  it. That is why `SyncEnds` starts from a synchronization told to stop.
- *Serving.* `FairSpec` assumes that handlers, writer and the closing of parts
  go on. On Vercel that is enough. The self-host program waits for its handlers
  without a limit, and no timeout of its server ends the wait for a body
  (`ReadBody`), so there clients are assumed to send theirs or to hang up.
- *Answer path.* A query goes on until its timeout ends it, also while it
  waits for its source (`EveryLookupReturns` of `SourceRuntime`), and the handler
  goes on. A client may stay or leave.
- *Instance database, first start.* Only safety is checked.

## Proofs

All are for every value of the constants within the modules' assumptions.

| Module | Results | Argument |
| --- | --- | --- |
| `QueryServiceProofs` | `TypeCorrect`, `NeverSendsOnClosed`, `CloseIsComplete`, `NoCircleOfWaits` | `TypeInv`; `CloseInv` = `LockInv` (who holds `saveMu`), `OnceInv` (one closer inside `closeOnce`), `ChannelInv` (closed flag and channel, and that a sender has seen it open), `DrainInv` (how far the writer is when `Close` returns). `NoCircleOfWaits` adds `BusyInv`: `closeOnce` is busy only while a closer is inside, and who waits for the writer has closed the channel |
| `QueryLookupProofs` | `PriorityIsRespected`, `StoredVerdictCounts`, `StoredVerdictIsNotAsked`, `ErrorsAreTrue`, `SpamWasReported`, `ImplementsLedger` | lemmas on `First`, `Enabled`, `Selected` (in `QueryServiceProofs`); `ResultInv`: at each step which records come from the cache and which from an answer (`RecordInv`), whose context ended (`ContextInv`), what was known (`KnownInv`); `ReportInv`: each spam verdict anywhere goes back to a report; `LedgerInv`: what the ledger's `heard` and `said` are at each step. The refinement is one lemma per action: a step of the ledger or a stutter |
| `SourceRuntimeProofs` | `TypeCorrect`, `RequestsAreLimited`, `RequestsAreRationed`, `BreakerIsEarned`, `BreakerIsObeyed`, `CooldownIsKept`, `FewSlipThrough`, `RetryAfterIsObeyed`, `SteadyRetryAfterIsObeyed`, `OverdueBehindSchedule`, `NoCircleOfWaits` | `PermitInv` (permits count their holders); `SpacingInv` (what the requests so far and the slots reserved but not used owe together is bounded, and there are no more such slots than permits); `BreakerInv`; `LateInv` (who is past the second check and not late has found the source open, and nothing has shut it since); `CooldownInv`, `SteadyInv`. A lookup is overdue only at `scheduleMu`: `ScheduleInv` says that its holder is another lookup, which has a permit too, so there are two permits (`OverdueInv`); the same holder grounds the waits |
| `BaselineSyncProofs` | `TypeCorrect`, `ReadersAreSafe`, `HandlesAreAccounted`, `BaselineSurvives`, `ServedSurvives`; `ActiveSurvives`; `FetchImplements`, `FetchTypeCorrect`, `FetchKeepsHandles`, `FetchIsExact`, `DiskStaysBounded`, `SyncIsBounded` | `AppInv`, `LocalInv`, `HandleInv` for the store; `KeyInv`, `StageInv` for the disk; `ServedInv` for both. Every step of `BaselineFetch` is one of `BaselineSync` or a stutter, so handles follow; `FetchInv` says what has been established before each step, and a lemma on division (`RatioIsBounded`) relates the code's quotient to the bound of `Acceptable`. `ActiveIsKept` follows from `PlaceInv` (which files the keys name at each step, also when `Close` has come between) and `FileInv` (which files are there). For `DiskIsBounded` see below; `SyncIsFinite` has the variant `StepsLeft`: `ArchiveLimit` + 22 at the start and one less with each step |
| `InstanceDatabaseProofs` | `TypeCorrect`, `OneOfEach`, `SchemaIsAlwaysSound`, `OneIdentityForAll`, `IdentityNeverChanges`, `ImplementsRegistry` | `LockInv` (one transaction of each kind), `SchemaInv` (a transaction's SQL continues what is committed), `NameInv` (who commits the row has seen it). The refinement is one lemma on what a commit adds and one case per action, under the same three |
| `ServingProofs` | `TypeCorrect`, `RateIsBounded`, `SlotsAreLimited`, `StoredRecordWins`, `ClosesInOrder` | `WindowInv` (what was let through, what is left and what came since add up), `SlotInv` (each handler in its slot), `FoundInv` (what was known is in what is found), `CloseInv` (what is quiet once a part is closed) |
| `AnswerPathProofs` | `TypeCorrect`, `Encrypted`, `BacksOff`, `CleanIsShown`, `StatusIsTrue`, `SearchIsCorrect`, `EveryStepIsOneLess` | `ExchangeInv` (what was seen of each query, how it ended, and that the two agree at every stage), `SearchInv` (the loop invariant: the prefix is within the bounds if anywhere), `ResponseInv` (the status goes back to the outcomes). `EveryStepCounts` is the variants of the two loops: the redirects a source has left, and the `Width` of the search, which is halved |
| `DataDirectoryProofs` | `TypeCorrect`, `ConfigIsUsable`, `TokenIsOne`, `PairingIsLasting`, `StartIsRefusedForACause` | `TokenInv` (until a token is withdrawn its file has one writer, and everyone else holds what is in it); `PairInv` (one server at a time: the configuration it loaded is the file's, the certificate has one writer, and what was shown fits both files); `CauseInv` (a partial file still has a living process that is writing it, or something was damaged) |

Why a strengthening is needed, in one example: `NoChannelPanic` says nothing
of a lookup that is about to send. That it is safe needs `ChannelInv`, that a
sender has seen `closed` false, and `LockInv`, that nobody can set it before
the sender lets go of `saveMu`.

A second example is `DiskIsBounded`, which counts files at rest. In the middle
of a synchronization there are more: temporary files, the candidate, the file
served before. `Kept` names the files that stay useful or are removed if
nothing else goes wrong; the others are `Loose`, and `RoomInv` bounds them, with
what dead processes left in temporary files, by two for each lapse so far. So
the step that takes a file out of `Kept` without removing it must be the one
that counts a lapse. What is served at each step (`SnapshotInv`) decides that.

Liveness is beyond the prover, but most of what makes it true is not. That
lookups, writer and closers come to an end rests on `WaitsAreGrounded` of both
modules (no circle of waits, so somebody runs), that a synchronization, a
source's redirects and the search end on `SyncIsFinite` and `EveryStepCounts`
(each step brings the end nearer). These are proved; what TLC adds is that
fairness turns them into an end.

Four theorems need an assumption, named in their statements, and a violation
run shows that it is needed: `RetryAfterIsObeyed` holds for `MaxConcurrent = 1`
(the default), `SteadyRetryAfterIsObeyed` if all answers that name a time name
the same, and `BaselineSurvives` and `ServedSurvives` for `KeepsPending`:
`App.Close` does not overlap a synchronization, and the runtime database does
not refuse to delete the pending key.

Proved and not run as a property of its own: the type invariants,
`OnlyReportedSpam` (`SpamWasReported`), `FewAreLate` (`FewSlipThrough`),
`SlotLimit` (`SlotsAreLimited`),
`AlwaysEncrypted` (`Encrypted`), `ActiveIsKept`, `WaitsAreGrounded` of
`QueryService` and of `SourceRuntime`, `SyncIsFinite`, `EveryStepCounts`, and
`RetryAfterObeyed` where it holds. TLC agreed on instances of the sizes
above before they were proved. The theorems of `QueryLookupProofs` also cover
what no run has: many lookups over many sources at once, and `DisableCache`.

Checked by TLC only: the liveness properties (`EveryLookupReturns` of both
modules, `CloseReturns`, `AcceptedIsTried`, `SyncEnds`, `ShutdownEnds`,
`EveryQueryEnds`), since fairness and ENABLED are beyond the prover. Every
safety property and every refinement that a passing run checks is also proved.

## Findings

1. **A shutdown during an activation hides a good baseline**
   (`baseline_shutdown`; `internal/baselinesync/manager.go:214`). `App.Close`
   cancels the synchronization without waiting for it, then closes the store
   and the runtime database. `Replace` then refuses, the pending key cannot be
   deleted, and the new file is removed: the next start prefers the pending
   key and loads no baseline, though the active one is intact (`ActiveSurvives`
   proves that it always is). The next synchronization that succeeds repairs it.
2. **A later Retry-After can shorten an earlier one** (`source_retry_after`;
   `provider/dispatcher.go:278`). With `max_concurrent` of 2 the second of two
   rate-limited answers overwrites the cooldown of the first, where
   `DEPLOY.md:359` says that a valid Retry-After is respected. It takes two
   answers with different times (`SteadyRetryAfterIsObeyed`).

3. **Two requests of a source may start closer together than `min_interval`**
   (`source_spacing`; `provider/dispatcher.go:247`). `lastStart` is the moment a
   slot is reserved, and the request follows at :215, after another check and
   whatever delay falls between. `DEPLOY.md:354` speaks of the starts of two
   actual requests. A burst is bounded by the permits all the same
   (`StartsAreRationed`).

Smaller divergences have no run; the models follow the code:

- a 403 or 429 page of sogou whose body cannot be read is an error before its
  status is looked at (`client.go:89`, `sogou.go:75`), so no cooldown follows,
  where `DEPLOY.md:359` speaks of every such response. `RefusalBacksOff` says
  what does hold: the fact `cut` is its exception, by name;
- sogou looks for a captcha only in a page that came with success
  (`sogou.go:81-84`), so a captcha under another status, which the same line of
  `DEPLOY.md` includes, is an error without a cooldown: the other exception;
- 360 accepts a card whose digits merely contain the number, and takes the
  first mark on the page even if it belongs to another card
  (`so360.go:138-145`), so a foreign card can give a verdict. No document
  promises otherwise for 360; `CleanWasShown` says what a verdict needs there;
- `isLoopbackListen` takes `:8443`, which listens everywhere, for a loopback
  address, so `Validate` accepts it without TLS, where `DEPLOY.md:533` asks
  for one (`IsLoopback`);
- a synchronization with a silent server ends only with the program (see
  fairness).

## What is not modelled

- The grammar of HTML and JSONP, of YAML and of certificates: a page, a file
  or an archive is told apart by what decides something.
- The proxy address of a source and the client made for it, the numeric limits
  of the configuration and a file edited by hand: validation of one input,
  without state.
- `ListSources`, the information and home pages, metrics, logging: they change
  nothing the models have.
- Failure of `os.Remove`; loss of power before data reaches the disk; a file
  that becomes corrupt after validation. One such case is worth knowing: if the
  pending file exists but cannot be opened, `Build` returns an error
  (`internal/app/app.go:73`), at this start and at every later one.
- Requests that arrive on new connections while the server shuts down; an
  instant taken before `stateMu` is (`circuitError(time.Now())`) and stale when
  it is compared, by as long as the wait for that lock.
- The timer of `Run`: a synchronization may begin whenever none is under way.
- The limits of the connection pools, file modes and database settings.
- The order in which goroutines get a semaphore's or lock's turn, beyond the
  fairness above.
- The insides of `QueryService`, `SourceRuntime` and `BaselineSync` in
  `Serving`, where a save, a round of the sources and an activation are one
  step each.

## Plan

Done, in this order: `SourceSelection`, `QueryService`, `SourceRuntime`,
`BaselineSync`, `InstanceDatabase`, each with its proofs; `SpamLedger` and the
refinement; `Configuration` and `DataDirectory`, and `Serving`, with their proofs;
`ProviderExchange`, `PhoneSearch` and `AnswerPath` with theirs; `BaselineFetch`
and its refinement of `BaselineSync`.

The safety properties of all runs are proved, and so are `InstanceRegistry`
and its refinement, the absence of circles of waits, and the variants of the
loops.

What is left, in order of use:

1. `Serving` as an abstraction that `QueryService` and `BaselineSync` are shown
   to implement, in place of its own one-step versions of them.
2. An abstract specification of what `BaselineSync` promises (a baseline that
   is replaced as a whole or not at all), in the manner of `SpamLedger`.
3. Power loss in `BaselineSync`: a rename or a write that is not on disk yet.
