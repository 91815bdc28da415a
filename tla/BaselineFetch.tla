---------------------------- MODULE BaselineFetch ----------------------------
(***************************************************************************)
(* What a synchronization does before it has a database to activate:       *)
(* baselinesync/client.go asks for an update and receives the archive,     *)
(* downloader.go measures, checks and extracts it, validator.go looks into *)
(* what came out.  It composes with BaselineSync, whose "fetch" it fills   *)
(* in; the temporary files stay on disk until Sync returns, so also        *)
(* through the activation, and a process that dies leaves them behind.     *)
(***************************************************************************)
EXTENDS BaselineSync, Naturals, Sequences

CONSTANTS
    Manifests,      \* the updates the server may announce: size, sum, version
    Archives,       \* what it may then send: size, sum, entries
    ArchiveLimit,   \* maxArchiveSize, in the units a download arrives in
    DatabaseLimit,  \* maxDatabaseSize
    Ratio,          \* maxCompressionRatio
    MaxLapses       \* no synchronization begins after this many lapses

ASSUME LimitsAssumption ==
    {ArchiveLimit, DatabaseLimit, Ratio} \subseteq Nat \ {0} /\ MaxLapses \in Nat

ASSUME RemoteAssumption ==
    /\ None \notin Manifests \cup Archives
    /\ \A m \in Manifests : m.size \in Nat \ {0}
    /\ \A a \in Archives :
        /\ a.size \in Nat
        /\ \A i \in 1..Len(a.entries) :
            LET e == a.entries[i]
            IN  {e.declared, e.packed, e.actual} \subseteq Nat /\ e.sound \in BOOLEAN

VARIABLES
    step,      \* how far the fetch is
    manifest,  \* what was announced
    archive,   \* what the server sends
    got,       \* how much of it has been written
    unpacked,  \* how much of the database has been written
    temps,     \* the temporary files of this synchronization
    (* History. *)
    strays,    \* temporary files of processes that died
    lapses,    \* deaths and failures after which something is left behind
    broke      \* this fetch met a failing call or a lost connection

progress == <<manifest, archive, got, unpacked>>
fetchVars == <<step, progress, temps, strays, lapses, broke>>
allVars == <<vars, fetchVars>>

FetchInit ==
    /\ Init
    /\ step = "none"
    /\ manifest = None /\ archive = None
    /\ got = 0 /\ unpacked = 0
    /\ temps = {}
    /\ strays = 0 /\ lapses = 0
    /\ broke = FALSE

----------------------------------------------------------------------------
(* Nothing of BaselineSync changes while the fetch goes on.                *)
Advance(next) ==
    /\ step' = next
    /\ UNCHANGED <<vars, strays, lapses, broke>>

ForgetProgress ==
    /\ step' = "none"
    /\ manifest' = None /\ archive' = None
    /\ got' = 0 /\ unpacked' = 0

(* An early return: the deferred removals take the temporary files away.   *)
EndFetch ==
    /\ NoUpdate
    /\ UNCHANGED <<app, storeClosed, reading>>
    /\ ForgetProgress
    /\ temps' = {}
    /\ UNCHANGED <<strays, lapses>>

GiveUp == EndFetch /\ UNCHANGED broke

(* A call on the file system or the connection fails.                      *)
Break ==
    /\ step \notin {"none", "ready"}
    /\ EndFetch
    /\ broke' = TRUE

(* Defect: the requests do not carry the context of Run. *)
NotTold == FALSE

ToldToStop == Canceled

(* Both requests end with the context; the server itself may be silent     *)
(* for ever, since the client sets no timeout.                             *)
Cancel == step \in {"check", "request", "receive"} /\ ToldToStop /\ Break

BeginFetch ==
    /\ lapses < MaxLapses
    /\ StartSync
    /\ UNCHANGED <<app, storeClosed, reading>>
    /\ step' = "check"
    /\ broke' = FALSE
    /\ UNCHANGED <<progress, temps, strays, lapses>>

(* Check: no update or an incomplete manifest ends the synchronization.    *)
Check ==
    /\ step = "check"
    /\ \/ \E m \in Manifests : manifest' = m /\ Advance("create")
                               /\ UNCHANGED <<archive, got, unpacked, temps>>
       \/ GiveUp

CreateArchive ==
    /\ step = "create"
    /\ IF manifest.size <= ArchiveLimit
       THEN /\ Advance("request")
            /\ temps' = {"archive"}
            /\ UNCHANGED progress
       ELSE GiveUp

Respond ==
    /\ step = "request"
    /\ \E a \in Archives : archive' = a
    /\ Advance("receive")
    /\ UNCHANGED <<manifest, got, unpacked, temps>>

(* Defect: the writer stops where the archive may still end. *)
NoRoomAtTheEnd == ArchiveLimit

(* The limitedWriter fails with the write that uses up what it has.        *)
WriterLimit == ArchiveLimit + 1

Receive ==
    /\ step = "receive"
    /\ got < archive.size
    /\ IF got + 1 < WriterLimit
       THEN /\ got' = got + 1
            /\ Advance("receive")
            /\ UNCHANGED <<manifest, archive, unpacked, temps>>
       ELSE GiveUp

Received ==
    /\ step = "receive"
    /\ got = archive.size
    /\ IF got = manifest.size
       THEN Advance("verify") /\ UNCHANGED <<progress, temps>>
       ELSE GiveUp

VerifySHA256 ==
    /\ step = "verify"
    /\ IF archive.sum = manifest.sum
       THEN Advance("extract") /\ UNCHANGED <<progress, temps>>
       ELSE GiveUp

(* The archive holds one entry, a database, and says that it is small      *)
(* enough; an archive that cannot be opened has no entries here.           *)
WithinRatio(entry) == entry.packed > 0 => entry.declared \div entry.packed <= Ratio

Extractable ==
    /\ Len(archive.entries) = 1
    /\ archive.entries[1].kind = "database"
    /\ archive.entries[1].declared <= DatabaseLimit
    /\ WithinRatio(archive.entries[1])

CreateDatabase ==
    /\ step = "extract"
    /\ IF Extractable
       THEN /\ Advance("unpack")
            /\ temps' = temps \cup {"database"}
            /\ UNCHANGED progress
       ELSE GiveUp

(* What comes out may be more than the entry says: the copy stops one past *)
(* the limit, and the size of the file tells.                              *)
Unpack ==
    /\ step = "unpack"
    /\ LET all == archive.entries[1].actual
       IN  unpacked' = IF all <= DatabaseLimit THEN all ELSE DatabaseLimit + 1
    /\ Advance("measure")
    /\ UNCHANGED <<manifest, archive, got, temps>>

Measure ==
    /\ step = "measure"
    /\ IF unpacked <= DatabaseLimit
       THEN Advance("validate") /\ UNCHANGED <<progress, temps>>
       ELSE GiveUp

(* The file is whole, has the tables, columns and index, and is of the     *)
(* version announced.                                                      *)
ValidateDatabase ==
    /\ step = "validate"
    /\ IF archive.entries[1].sound /\ archive.entries[1].version = manifest.version
       THEN Advance("ready") /\ UNCHANGED <<progress, temps>>
       ELSE GiveUp

(* The new name ends in the time and has never been used; which of the     *)
(* free ones stands for it makes no difference.                            *)
Fresh(f) == f \notin files \cup handles \cup {activeKey, pendingKey, committed}

StageFetched ==
    /\ step = "ready"
    /\ \E f \in Files : f = (CHOOSE g \in Files : Fresh(g)) /\ Stage(f)
    /\ UNCHANGED <<app, storeClosed, reading>>
    /\ ForgetProgress
    /\ UNCHANGED <<temps, strays, lapses, broke>>

(* What needs no answer of the server.                                     *)
LocalStep ==
    \/ CreateArchive \/ Received \/ VerifySHA256 \/ CreateDatabase \/ Unpack \/ Measure
    \/ ValidateDatabase \/ StageFetched

----------------------------------------------------------------------------
(* The activation of BaselineSync, with the temporary files.  Each of      *)
(* these leaves something that nothing removes later: the last delete      *)
(* fails and the old file stays, the pending key cannot be deleted, or the *)
(* store goes astray and the next activation removes the wrong file.       *)
Lapsed ==
    \/ syncPc = "settle" /\ syncPc' = "idle"
    \/ syncPc = "unpend" /\ pendingKey' # None
    \/ astray' /\ ~astray

(* Defect: the archive is not removed when Sync returns. *)
ArchiveStays == IF syncPc' = "idle" THEN temps \ {"database"} ELSE temps

Remaining ==
    CASE syncPc' = "idle" -> {}
      [] syncPc' = "named" -> temps \ {"database"}
      [] OTHER -> temps

Activate ==
    /\ ActivationStep
    /\ UNCHANGED <<app, storeClosed, reading>>
    /\ temps' = Remaining
    /\ lapses' = IF Lapsed THEN lapses + 1 ELSE lapses
    /\ UNCHANGED <<step, progress, strays, broke>>

CrashFetch ==
    /\ Crash
    /\ ForgetProgress
    /\ temps' = {}
    /\ strays' = strays + Cardinality(temps)
    /\ lapses' = IF syncPc # "idle" THEN lapses + 1 ELSE lapses
    /\ UNCHANGED broke

ProcessStep ==
    /\ \/ Build \/ Promote \/ Forget
       \/ StopSync \/ CloseStore \/ CloseRuntime
       \/ \E r \in Readers : StartRead(r) \/ EndRead(r)
    /\ UNCHANGED fetchVars

FetchNext ==
    \/ ProcessStep \/ CrashFetch
    \/ BeginFetch \/ Check \/ Respond \/ Receive \/ LocalStep \/ Break \/ Cancel
    \/ Activate

FetchSpec == FetchInit /\ [][FetchNext]_allVars

(* Sync's own steps are taken, a canceled request returns, every read      *)
(* ends, and a writer that waits finds the lock free, since a RWMutex lets *)
(* no new reader past it.  Nothing is assumed of the server.               *)
FairFetch ==
    /\ FetchSpec
    /\ WF_allVars(LocalStep)
    /\ WF_allVars(Cancel)
    /\ SF_allVars(Activate)
    /\ []<>(syncPc \in {"swap", "clear"} => LockFree)

----------------------------------------------------------------------------
FetchSteps == {"none", "check", "create", "request", "receive", "verify", "extract", "unpack",
               "measure", "validate", "ready"}

(* Every variable stays within the values its Go type and the code allow.  *)
FetchTypeOK ==
    /\ step \in FetchSteps
    /\ manifest \in Manifests \cup {None}
    /\ archive \in Archives \cup {None}
    /\ got \in 0..ArchiveLimit
    /\ unpacked \in Nat
    /\ temps \subseteq {"archive", "database"}
    /\ strays \in Nat /\ lapses \in Nat
    /\ broke \in BOOLEAN

(* What has been established when a step is reached.                       *)
Reached(steps) == step \in steps

FetchInv ==
    /\ step # "none" <=> syncPc = "fetch"
    /\ Reached({"none", "check"}) => manifest = None
    /\ Reached({"none", "check", "create", "request"}) => archive = None /\ got = 0
    /\ ~Reached({"none", "check"}) => manifest \in Manifests
    /\ ~Reached({"none", "check", "create"}) => manifest.size <= ArchiveLimit
    /\ ~Reached({"none", "check", "create", "request"}) =>
          archive \in Archives /\ got \in 0..archive.size
    /\ Reached({"verify", "extract", "unpack", "measure", "validate", "ready"}) =>
          archive.size = manifest.size
    /\ Reached({"extract", "unpack", "measure", "validate", "ready"}) =>
          archive.sum = manifest.sum
    /\ Reached({"unpack", "measure", "validate", "ready"}) => Extractable
    /\ Reached({"measure"}) =>
          (unpacked <= DatabaseLimit <=> archive.entries[1].actual <= DatabaseLimit)
    /\ Reached({"validate", "ready"}) => archive.entries[1].actual <= DatabaseLimit
    /\ Reached({"ready"}) =>
          archive.entries[1].sound /\ archive.entries[1].version = manifest.version

(* What a baseline must be, told from the announcement and the whole       *)
(* archive.                                                                *)
Acceptable ==
    /\ None \notin {manifest, archive}
    /\ archive.size = manifest.size /\ archive.size <= ArchiveLimit
    /\ archive.sum = manifest.sum
    /\ Len(archive.entries) = 1
    /\ LET e == archive.entries[1]
       IN  /\ e.kind = "database"
           /\ e.declared <= DatabaseLimit /\ e.actual <= DatabaseLimit
           /\ e.packed > 0 => e.declared < (Ratio + 1) * e.packed
           /\ e.sound /\ e.version = manifest.version

(* A fetch that no failing call and no cancellation cut short hands on     *)
(* exactly the archives it should: nothing cut off, oversized, of another  *)
(* sum or version reaches the activation, and nothing good is refused,     *)
(* also when it is exactly as large as the limits allow (downloader.go,    *)
(* validator.go, manager.go downloadArchiveWithContext).                   *)
AcceptsTheSound ==
    [][syncPc = "fetch" /\ syncPc' # "fetch" /\ app' # "down" /\ ~broke'
         => (syncPc' = "staged" <=> Acceptable)]_allVars

(* The files no key names and no synchronization or snapshot uses.         *)
Orphans == files \ {activeKey, pendingKey, current, candidate, previous}

(* The files that stay useful or are removed if nothing else goes wrong:   *)
(* the one a restart loads, the candidate until it is dropped, and the one *)
(* served before, which the activation removes.  A file the store does not *)
(* serve any more is removed by no later activation, so it counts only     *)
(* while none can be activated.                                            *)
Held(key, served) == IF app \in {"up", "stopping"} THEN {key} \cap {served} ELSE {key}

Kept ==
    CASE syncPc \in {"idle", "fetch"} -> Held(Target, current)
      [] syncPc \in {"staged", "named"} -> {candidate} \cup Held(Target, previous)
      [] syncPc \in {"open", "swap", "clear"} -> {candidate} \cup Held(activeKey, previous)
      [] syncPc = "commit" \/ (syncPc = "retire" /\ ~rollingBack) ->
            {candidate} \cup ({activeKey} \cap {previous})
      [] syncPc \in {"settle", "cleanup"} -> {candidate, previous}
      [] syncPc = "drop" -> {candidate} \cup Held(Target, current)
      [] OTHER -> {candidate} \cup Held(activeKey, current)

Loose == files \ Kept

(* Each lapse leaves two files at most.                                    *)
RoomInv == IsFiniteSet(files) /\ Cardinality(Loose) + strays <= 2 * lapses

(* The temporary files of each step. *)
TempInv ==
    /\ syncPc = "idle" => temps = {}
    /\ syncPc \notin {"idle", "fetch", "staged"} => temps \subseteq {"archive"}

(* The directory does not fill up by itself: between synchronizations no   *)
(* temporary file is left, and what piles up comes from deaths and from    *)
(* the failures after which the code removes nothing, at most two files    *)
(* each, however many synchronizations succeed or fail otherwise.          *)
DiskIsBounded ==
    /\ syncPc = "idle" => temps = {}
    /\ Cardinality(Orphans) + strays <= 2 * lapses

(* The steps a synchronization still has before it at the most.            *)
ActivationLeft ==
    CASE syncPc = "staged" -> 12
      [] syncPc = "named"  -> 11
      [] syncPc = "open"   -> IF rollingBack THEN 5 ELSE 10
      [] syncPc = "swap"   -> IF rollingBack THEN 4 ELSE 9
      [] syncPc = "retire" -> IF rollingBack THEN 3 ELSE 8
      [] syncPc = "commit" -> 7
      [] syncPc = "settle" -> 6
      [] syncPc = "clear"  -> 3
      [] syncPc = "unpend" -> 2
      [] syncPc \in {"drop", "cleanup"} -> 1
      [] OTHER -> 0

FetchLeft ==
    CASE step = "ready"    -> 13
      [] step = "validate" -> 14
      [] step = "measure"  -> 15
      [] step = "unpack"   -> 16
      [] step = "extract"  -> 17
      [] step = "verify"   -> 18
      [] step = "receive"  -> 19 + (ArchiveLimit - got)
      [] step = "request"  -> 20 + ArchiveLimit
      [] step = "create"   -> 21 + ArchiveLimit
      [] OTHER             -> 22 + ArchiveLimit

StepsLeft == IF syncPc = "fetch" THEN FetchLeft ELSE ActivationLeft

SyncMoves == Check \/ Respond \/ Receive \/ LocalStep \/ Break \/ Cancel \/ Activate

(* A synchronization is finite, however much the server sends and whatever *)
(* fails: each of its steps, of the way back too, brings it nearer to its  *)
(* end, and nothing else sets it back (manager.go Sync, activateDatabase). *)
SyncIsFinite ==
    [][\/ BeginFetch
       \/ StepsLeft' < StepsLeft
       \/ ~SyncMoves /\ StepsLeft' <= StepsLeft]_allVars

(* A synchronization that App.Close has told to stop ends, whatever the    *)
(* server does or leaves undone (manager.go Run, Close).                   *)
SyncEnds == (syncPc # "idle" /\ Canceled) ~> (syncPc = "idle")

(* No lookup reads a closed snapshot and no handle is lost, while an       *)
(* archive is fetched, activated or rolled back and the store is closed.   *)
HandlesInOrder == ReadersHaveHandle /\ NoHandleLeak
=============================================================================
