------------------------------- MODULE Runner -------------------------------
(***************************************************************************)
(* The `run` command: runBenchmarks (internal/cli) and Execute             *)
(* (internal/runner) with the parts of the S3, PostgreSQL and ClickHouse   *)
(* engines that create, mark, record and remove remote resources.          *)
(*                                                                         *)
(* Execute is one goroutine; what makes it hard is what can happen between *)
(* two of its steps: an interrupt cancels the context of every later call, *)
(* a reply is lost, a file cannot be written, the process is killed.       *)
(***************************************************************************)
EXTENDS Sequences, SharedState

CONSTANT Selections    \* the category lists SelectCategories may return

ASSUME SelectionsAssumption ==
    \A s \in Selections :
        /\ s \in Seq(Categories)
        /\ \A i, j \in 1..Len(s) : i # j => s[i] # s[j]

VARIABLES
    selection,     \* the categories to run, in order
    keep,          \* --keep-resources
    pc,            \* the step Execute is at
    interrupted,   \* ctx.Err() # nil
    n,             \* index of the current category
    engines,       \* kinds whose engine pointer is not nil
    initialized,   \* kinds whose ...Initialized flag is set
    benchmark,     \* value.Benchmarks: the status of each finished category
    resource,      \* value.Resources: the CleanupStatus of each owned entry
    manifest,      \* manifestValue.Resources
    aborting,      \* Execute is returning an error; only the deferred cleanup is left
    entry,         \* the value.Resources entry being cleaned up
    left,          \* matching manifest entries the inner loop has still to handle
    doc,           \* the result document in the output directory
    exit           \* the exit code, or NoExit

progress == <<pc, n>>
world    == <<selection, keep>>
memory   == <<engines, initialized, benchmark, resource, manifest>>
removal  == <<entry, left>>
outcome  == <<doc, exit>>
runVars  == <<progress, world, memory, removal, outcome, interrupted, aborting>>
vars     == <<runVars, shared>>

BenchmarkStatuses == {"none", "success", "blocked", "failed"}
CleanupStatuses == {"none", "pending", "deleted", "kept", "failed"}
FinalStatuses == {"success", "partial", "interrupted"}
RunStatuses == {"none", "running"} \union FinalStatuses
ExitCodes == {0, 1, 2, 130}
PCs == {"start", "prompt", "next", "create", "mark", "record", "measure", "persist",
        "cleanup", "verify", "purge", "drop", "finish", "ended", "killed"}
Over == {"ended", "killed"}

Documents == [status : RunStatuses,
              benchmark : [Categories -> BenchmarkStatuses],
              resource : [Categories -> CleanupStatuses]]

TypeOK ==
    /\ SharedTypeOK
    /\ selection \in Selections
    /\ keep \in BOOLEAN
    /\ pc \in PCs
    /\ interrupted \in BOOLEAN
    /\ n \in 1..(Len(selection) + 1)
    /\ engines \subseteq Kinds
    /\ initialized \subseteq Kinds
    /\ benchmark \in [Categories -> BenchmarkStatuses]
    /\ resource \in [Categories -> CleanupStatuses]
    /\ manifest \subseteq Owners
    /\ aborting \in BOOLEAN
    /\ entry \in Categories \union {NoCategory}
    /\ left \subseteq Owners
    /\ doc \in Documents
    /\ exit \in ExitCodes \union {NoExit}

RunInit ==
    /\ selection \in Selections
    /\ keep \in BOOLEAN
    /\ pc = "start"
    /\ interrupted = FALSE
    /\ n = 1
    /\ engines = {}
    /\ initialized = {}
    /\ benchmark = [c \in Categories |-> "none"]
    /\ resource = [c \in Categories |-> "none"]
    /\ manifest = {}
    /\ aborting = FALSE
    /\ entry = NoCategory
    /\ left = {}
    /\ doc = [status |-> "none", benchmark |-> benchmark, resource |-> resource]
    /\ exit = NoExit

Init == SharedInit /\ RunInit

-----------------------------------------------------------------------------
Current == selection[n]
CurrentKind == KindOf[Current]

\* value as the next WriteAtomic writes it.
Document(status) == [status |-> status, benchmark |-> benchmark, resource |-> resource]

\* A failed write leaves the document of the previous persist.
Persist(status, ok) == doc' = IF ok THEN Document(status) ELSE doc

\* A call on the run's context does nothing once that context is cancelled.
OnRunContext(s, t, ok) == interrupted => NotApplied(s, t, ok)

EndCategory(status) ==
    /\ benchmark' = [benchmark EXCEPT ![Current] = status]
    /\ pc' = "persist"

\* Mutant of ListOwned: the entry is appended without its CleanupStatus.
ListOwnedWithoutStatus == resource' = [resource EXCEPT ![Current] = ""]

\* The engine returned Owned = true, so Execute lists the resource.
ListOwned == resource' = [resource EXCEPT ![Current] = "pending"]

-----------------------------------------------------------------------------
\* Nothing runs before the plan has been printed and confirmed.
Confirming == {"start", "prompt"}

\* Without --yes the command asks and waits for a line on its standard input.
\* The signal handler is installed already, so an interrupt only cancels the
\* context, which the read does not look at: it goes on waiting.
Ask ==
    /\ pc = "start"
    /\ pc' = "prompt"
    /\ UNCHANGED <<shared, n, world, memory, removal, outcome, interrupted, aborting>>

\* Bad configuration, a failed plan, no confirmation, no cache directory or no
\* first result document: nothing has been run.
Refuse ==
    /\ pc \in Confirming
    /\ pc' = "ended"
    /\ exit' = 2
    /\ UNCHANGED <<shared, n, world, memory, removal, doc, interrupted, aborting>>

\* --yes, or the answer was yes.
Begin ==
    /\ pc \in Confirming
    /\ pc' = "next"
    /\ Persist("running", TRUE)
    /\ UNCHANGED <<shared, n, world, memory, removal, exit, interrupted, aborting>>

\* The loop ends after the last category or at the first cancelled context.
LeaveLoop ==
    /\ pc = "next"
    /\ n > Len(selection) \/ interrupted
    /\ pc' = "cleanup"
    /\ UNCHANGED <<shared, n, world, memory, removal, outcome, interrupted, aborting>>

AtCategory == pc = "next" /\ n <= Len(selection) /\ ~interrupted

\* A category without remote resources: its engine returns one benchmark entry.
RunLocal ==
    /\ AtCategory
    /\ CurrentKind = NoKind
    /\ \E status \in {"success", "failed"} \union
            (IF Current \in {"cpu", "memory", "disk"} THEN {} ELSE {"blocked"}) :
            EndCategory(status)
    /\ UNCHANGED <<shared, n, world, engines, initialized, resource, manifest,
                   removal, outcome, interrupted, aborting>>

\* The URL variable is missing or New fails.  An engine that the other
\* ClickHouse category made is used again, so it cannot fail here.
EngineUnavailable ==
    /\ AtCategory
    /\ CurrentKind \notin engines \union {NoKind}
    /\ EndCategory("blocked")
    /\ UNCHANGED <<shared, n, world, engines, initialized, resource, manifest,
                   removal, outcome, interrupted, aborting>>

EngineReady ==
    /\ AtCategory
    /\ CurrentKind # NoKind
    /\ engines' = engines \union {CurrentKind}
    /\ pc' = IF CurrentKind \in initialized THEN "measure" ELSE "create"
    /\ UNCHANGED <<shared, n, world, initialized, benchmark, resource, manifest,
                   removal, outcome, interrupted, aborting>>

\* CreateBucket / CREATE DATABASE.  On an error the engine reports Owned = false.
CreateResource ==
    /\ pc = "create"
    /\ \E t \in RemoteStates, ok \in BOOLEAN :
        /\ CreateCall(remote[CurrentKind], t, ok)
        /\ OnRunContext(remote[CurrentKind], t, ok)
        /\ remote' = [remote EXCEPT ![CurrentKind] = t]
        /\ IF ok THEN pc' = "mark" /\ UNCHANGED benchmark
                 ELSE EndCategory("failed")
    /\ UNCHANGED <<disk, n, world, engines, initialized, resource, manifest,
                   removal, outcome, interrupted, aborting>>

\* The marker object / table.  From here on the engine reports Owned = true.
WriteMarker ==
    /\ pc = "mark"
    /\ \E t \in RemoteStates, ok \in BOOLEAN :
        /\ MarkCall(remote[CurrentKind], t, ok)
        /\ OnRunContext(remote[CurrentKind], t, ok)
        /\ remote' = [remote EXCEPT ![CurrentKind] = t]
        /\ IF ok THEN pc' = "record" /\ UNCHANGED <<benchmark, resource>>
                 ELSE EndCategory("failed") /\ ListOwned
    /\ UNCHANGED <<disk, n, world, engines, initialized, manifest,
                   removal, outcome, interrupted, aborting>>

\* The record callback: append to the manifest in memory, then save it.
RecordResource ==
    /\ pc = "record"
    /\ manifest' = manifest \union {Current}
    /\ ListOwned
    /\ \/ /\ Save(manifest', TRUE)
          /\ initialized' = initialized \union {CurrentKind}
          /\ pc' = "measure"
          /\ UNCHANGED benchmark
       \/ /\ Save(manifest', FALSE)
          /\ EndCategory("failed")
          /\ UNCHANGED initialized
    /\ UNCHANGED <<remote, n, world, engines, removal, outcome, interrupted, aborting>>

\* The workload itself; it cannot succeed against a resource that is gone.
Measure ==
    /\ pc = "measure"
    /\ \E status \in {"success", "failed"} \union
            (IF Current = "clickhouse-clickcannon" THEN {"blocked"} ELSE {}) :
        /\ status = "success" => remote[CurrentKind] # "absent"
        /\ EndCategory(status)
    /\ UNCHANGED <<shared, n, world, engines, initialized, resource, manifest,
                   removal, outcome, interrupted, aborting>>

\* The document is written after every category; if that fails Execute returns
\* the error and the deferred cleanup runs.
PersistCategory ==
    /\ pc = "persist"
    /\ \/ /\ Persist("running", TRUE)
          /\ n' = n + 1
          /\ pc' = "next"
          /\ UNCHANGED aborting
       \/ /\ Persist("running", FALSE)
          /\ aborting' = TRUE
          /\ pc' = "cleanup"
          /\ UNCHANGED n
    /\ UNCHANGED <<shared, world, memory, removal, exit, interrupted>>

-----------------------------------------------------------------------------
(* The cleanup closure, on a context of its own. *)

Pending == {c \in Categories : resource[c] = "pending"}

\* The manifest entries with the kind and name of entry c.
Matches(c) == {d \in manifest : KindOf[d] = KindOf[c]}

\* Mutant of SetCleanupStatus: the error of engine.Cleanup is dropped.
SetDeleted(c, status) == resource' = [resource EXCEPT ![c] = "deleted"]

SetCleanupStatus(c, status) == resource' = [resource EXCEPT ![c] = status]

KeepEntries ==
    /\ pc = "cleanup"
    /\ keep
    /\ resource' = [c \in Categories |-> IF c \in Pending THEN "kept" ELSE resource[c]]
    /\ pc' = "finish"
    /\ UNCHANGED <<shared, n, world, engines, initialized, benchmark, manifest,
                   removal, outcome, interrupted, aborting>>

RefuseEntry ==
    /\ pc = "cleanup"
    /\ ~keep
    /\ \E c \in Pending :
        /\ Matches(c) = {}
        /\ SetCleanupStatus(c, "failed")
    /\ UNCHANGED <<shared, progress, world, engines, initialized, benchmark, manifest,
                   removal, outcome, interrupted, aborting>>

CleanEntry ==
    /\ pc = "cleanup"
    /\ ~keep
    /\ \E c \in Pending :
        /\ Matches(c) # {}
        /\ entry' = c
        /\ left' = Matches(c)
    /\ pc' = "verify"
    /\ UNCHANGED <<shared, n, world, memory, outcome, interrupted, aborting>>

\* engine.Cleanup returned for one matching manifest entry; the last result of
\* the inner loop is the one that counts.
CleanupReturned(ok) ==
    \E d \in left :
        /\ left' = left \ {d}
        /\ IF left' # {}
           THEN pc' = "verify" /\ UNCHANGED <<resource, entry>>
           ELSE /\ SetCleanupStatus(entry, IF ok THEN "deleted" ELSE "failed")
                /\ entry' = NoCategory
                /\ pc' = "cleanup"

VerifyMarker ==
    /\ pc = "verify"
    /\ \E ok \in BOOLEAN :
        /\ ok => KindOf[entry] \in engines
        /\ VerifyCall(remote[KindOf[entry]], ok)
        /\ IF ok THEN /\ pc' = IF KindOf[entry] = "s3_bucket" THEN "purge" ELSE "drop"
                      /\ UNCHANGED <<resource, removal>>
                 ELSE CleanupReturned(FALSE)
    /\ UNCHANGED <<shared, n, world, engines, initialized, benchmark, manifest,
                   outcome, interrupted, aborting>>

PurgeBucket ==
    /\ pc = "purge"
    /\ \E t \in RemoteStates, ok \in BOOLEAN :
        /\ PurgeCall(remote[KindOf[entry]], t, ok)
        /\ remote' = [remote EXCEPT ![KindOf[entry]] = t]
        /\ IF ok THEN pc' = "drop" /\ UNCHANGED <<resource, removal>>
                 ELSE CleanupReturned(FALSE)
    /\ UNCHANGED <<disk, n, world, engines, initialized, benchmark, manifest,
                   outcome, interrupted, aborting>>

DropResource ==
    /\ pc = "drop"
    /\ \E t \in RemoteStates, ok \in BOOLEAN :
        /\ DropCall(KindOf[entry], remote[KindOf[entry]], t, ok)
        /\ remote' = [remote EXCEPT ![KindOf[entry]] = t]
        /\ CleanupReturned(ok)
    /\ UNCHANGED <<disk, n, world, engines, initialized, benchmark, manifest,
                   outcome, interrupted, aborting>>

\* Mutant of CleanupComplete: kept and failed entries count as complete.
CleanupAlwaysComplete == TRUE

CleanupComplete == \A c \in Categories : resource[c] \in {"none", "deleted"}

\* Every entry has been handled: the manifest goes if nothing is left of them.
EndCleanup ==
    /\ pc = "cleanup"
    /\ ~keep
    /\ Pending = {}
    /\ IF CleanupComplete THEN Delete ELSE UNCHANGED disk
    /\ pc' = "finish"
    /\ UNCHANGED <<remote, n, world, memory, removal, outcome, interrupted, aborting>>

-----------------------------------------------------------------------------
\* Mutant of RunStatus: a failed cleanup does not make the run partial.
RunStatusOfBenchmarks ==
    CASE interrupted -> "interrupted"
      [] \E c \in Categories : benchmark[c] \notin {"none", "success"} -> "partial"
      [] OTHER -> "success"

RunStatus ==
    CASE interrupted -> "interrupted"
      [] \/ \E c \in Categories : benchmark[c] \notin {"none", "success"}
         \/ \E c \in Categories : resource[c] = "failed" -> "partial"
      [] OTHER -> "success"

ExitCode(status) ==
    CASE status = "interrupted" -> 130
      [] status = "success" -> 0
      [] OTHER -> 1

\* Mutant of ReturnError: the cleanup is not deferred, so an early return skips it.
ReturnErrorAtOnce ==
    /\ pc \in {"cleanup", "finish"}
    /\ aborting
    /\ exit' = 2
    /\ pc' = "ended"
    /\ UNCHANGED <<shared, n, world, memory, removal, doc, interrupted, aborting>>

\* Execute returns the error of a failed persist ...
ReturnError ==
    /\ pc = "finish"
    /\ aborting
    /\ exit' = 2
    /\ pc' = "ended"
    /\ UNCHANGED <<shared, n, world, memory, removal, doc, interrupted, aborting>>

\* ... or settles the run's status, writes the last document and returns.
ReturnResult ==
    /\ pc = "finish"
    /\ ~aborting
    /\ \E ok \in BOOLEAN :
        /\ Persist(RunStatus, ok)
        /\ exit' = IF ok THEN ExitCode(RunStatus) ELSE 2
    /\ pc' = "ended"
    /\ UNCHANGED <<shared, n, world, memory, removal, interrupted, aborting>>

-----------------------------------------------------------------------------
\* SIGINT; NotifyContext keeps later ones from killing the process.
Interrupt ==
    /\ pc \notin Over
    /\ ~interrupted
    /\ interrupted' = TRUE
    /\ UNCHANGED <<shared, progress, world, memory, removal, outcome, aborting>>

\* Any other end of the process: SIGTERM, SIGKILL, a reboot.  No deferred
\* function runs; what was in memory stays in the state for the properties only.
Kill ==
    /\ pc \notin Over
    /\ pc' = "killed"
    /\ UNCHANGED <<shared, n, world, memory, removal, outcome, interrupted, aborting>>

LoopStep ==
    \/ Ask \/ Refuse \/ Begin \/ LeaveLoop \/ RunLocal
    \/ EngineUnavailable \/ EngineReady
    \/ CreateResource \/ WriteMarker \/ RecordResource \/ Measure
    \/ PersistCategory

CleanupStep ==
    \/ KeepEntries \/ RefuseEntry \/ CleanEntry
    \/ VerifyMarker \/ PurgeBucket \/ DropResource
    \/ EndCleanup

ExecuteStep == LoopStep \/ CleanupStep \/ ReturnError \/ ReturnResult

RunNext == ExecuteStep \/ Interrupt \/ Kill

RunOver == pc \in Over /\ UNCHANGED vars

Next == RunNext \/ RunOver

\* Mutant of Bounded: the cleanup closure works on a context without a deadline.
BoundedByInterrupt == interrupted /\ pc \notin Confirming

\* Without an interrupt a call of the loop may wait for ever.  A call on a
\* cancelled context returns, and the cleanup context has a deadline.  The
\* prompt has neither; of what comes before it nothing is claimed.
Bounded ==
    \/ interrupted /\ pc \notin Confirming
    \/ pc \in {"cleanup", "verify", "purge", "drop", "finish"}

Fairness == WF_vars(Bounded /\ ExecuteStep)

Spec == Init /\ [][Next]_vars /\ Fairness
-----------------------------------------------------------------------------
(* Properties *)

\* A crash during a measurement, which may take hours, loses nothing: the
\* resource measured is marked and the manifest on disk lists it, also when
\* the other ClickHouse category created it (EnsureDatabase, s3bench.Run).
MeasuredIsRecorded ==
    pc = "measure" =>
        /\ remote[CurrentKind] = "marked"
        /\ CurrentKind \in KindsOf(disk)

\* A resource is listed at most once as owned, so no entry is cleaned up with
\* the outcome of another one's cleanup: after a failed EnsureDatabase the
\* second ClickHouse category tries again and must not list it again.
OneEntryPerResource ==
    \A c, d \in Owners :
        c # d /\ KindOf[c] = KindOf[d] =>
            resource[c] = "none" \/ resource[d] = "none"

\* A cleanup_status of "deleted" is never said of a resource that exists.
DeletedIsGone ==
    \A c \in Owners : resource[c] = "deleted" => ~Ours(remote[KindOf[c]])

\* However Execute returns, also with an error, the cleanup closure has
\* handled every resource it was told of.
CleanupAttempted == pc = "ended" => Pending = {}

\* What a run leaves behind it says in its last document: the resource is
\* listed as kept or failed, or the category that lost the reply of the create
\* call is listed as failed.
Reported(k) ==
    \E c \in Owners :
        /\ KindOf[c] = k
        /\ \/ doc.resource[c] \in {"kept", "failed"}
           \/ doc.resource[c] = "none" /\ doc.benchmark[c] = "failed"

LeftoverIsReported ==
    exit \in {0, 1, 130} => \A k \in Kinds : Ours(remote[k]) => Reported(k)

\* Exit 0: every selected benchmark succeeded and nothing of the run is left,
\* except what --keep-resources asked to keep.
ExitZeroIsClean ==
    exit = 0 =>
        /\ \A i \in 1..Len(selection) : doc.benchmark[selection[i]] = "success"
        /\ ~keep => \A k \in Kinds : ~Ours(remote[k])

\* The same of a result document, which is what anybody reads later: once it
\* has its final status it accounts for all that is left.
DocumentAccounts ==
    doc.status \in FinalStatuses => \A k \in Kinds : Ours(remote[k]) => Reported(k)

\* "success" in a document and exit 0 are both said only of a run that measured
\* everything and left nothing that was not to be kept.
SuccessIsClean ==
    exit = 0 \/ doc.status = "success" =>
        /\ \A i \in 1..Len(selection) :
            /\ benchmark[selection[i]] = "success"
            /\ doc.status = "success" => doc.benchmark[selection[i]] = "success"
        /\ ~keep => \A k \in Kinds : ~Ours(remote[k])

\* What --keep-resources keeps after exit 0 can be found again by `cleanup`.
KeptIsRecoverable ==
    exit = 0 /\ keep =>
        \A k \in Kinds : Ours(remote[k]) => remote[k] = "marked" /\ k \in KindsOf(disk)

(* What the documentation says and the code does not do.                   *)

\* "Exit 2 is reserved for usage, invalid configuration, and failures that
\* prevent a plan" (docs/benchmark-contract.md): so no benchmark has run.
ExitTwoRanNothing == exit = 2 => \A c \in Categories : benchmark[c] = "none"

\* "Every remote resource contains a marker" (docs/benchmark-contract.md), at
\* least when the run has ended.
LeftoverIsMarked == pc = "ended" => \A k \in Kinds : remote[k] # "bare"

-----------------------------------------------------------------------------
\* The run keeps the promises of OwnedResources at every step.
Holder == [k \in Kinds |-> IF Ours(remote[k]) THEN "ours"
                           ELSE IF remote[k] = "foreign" THEN "taken" ELSE "free"]

Promise == INSTANCE OwnedResources WITH
    Names <- Kinds,
    holder <- Holder,
    recorded <- KindsOf(manifest),
    ledger <- KindsOf(disk)

KeepsPromise == Promise!PromiseSpec

\* A confirmed run that is interrupted, and one whose cleanup has begun, ends,
\* whatever call it was waiting for.
BoundedRunEnds == (interrupted /\ pc \notin Confirming) \/ pc = "cleanup" ~> pc \in Over
=============================================================================
