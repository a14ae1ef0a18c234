# A TLA+ model of lihacloud-bench

lihacloud-bench is a command-line tool that measures a machine and the services
it can reach.  Most of its code runs a workload and reports numbers; what can go
wrong in ways that tests hardly reach is around the workloads: remote buckets
and databases that the tool creates and must remove again, a manifest that two
commands share without a lock, goroutines that outlive the call that started
them, a cache that several processes use.  This directory models those parts,
checks them with TLC on small instances and proves the central ones with TLAPS.

Every definition is translated from the code under `src/`; `PROJECT.json` names
the lines ("map").  In the modules, a comment that starts with "Mutant of"
precedes a definition that the specification never uses: the same step with a
plausible bug, which the properties must catch ("mutants" in `PROJECT.json`).

## 1. The system

| Component | State | Operations | Interacts with | Modelled by |
|---|---|---|---|---|
| Run life cycle: `runBenchmarks` (internal/cli), `Execute` (internal/runner) | result document, category index, engines, owned resources, manifest in memory, context | plan, loop over categories, persist, deferred cleanup, status, exit code | every engine, manifest, SIGINT | `Runner` |
| Engines of S3, PostgreSQL, ClickHouse | remote bucket or database and its marker | create, mark, record (callback), measure, verify, purge, drop | the services; `Execute`; `Cleanup` | `RemoteResource`, and actions of `Runner` and `CleanupCommand` |
| Manifest (internal/manifest) | one JSON file per run ID | save (replace by rename), load, delete | run and cleanup commands, no lock | `SharedState` |
| Cleanup command: `runCleanup`, `Cleanup` | the loaded manifest, failures | load, per entry verify/purge/drop, delete the file | manifest, services, a run that may still be going | `CleanupCommand`, `BenchSystem` |
| Ownership promise (docs/benchmark-contract.md) | who holds a name, what is recorded | acquire, record, release, forget | implemented by `Runner` | `OwnedResources` |
| S3 small-object pool (`smallOperation`) | jobs channel, worker goroutines, atomic counter | hand over, request, close, wait | run context | `SmallOperations` |
| Peer benchmark (network/peer) | server: token, session; client: phases, goroutines, channels | authorize, download, upload, shutdown; transfer, collect | two hosts over TLS, SIGINT on both | `PeerServer`, `PeerBench` |
| ClickCannon helper cache | cached file, mode, temporary files | checksum, download, rename, chmod, execute, prune | several processes, loss of power | `HelperCache` |
| Selection and planning | selected categories, two plans, host facts | select, plan, confirm, plan again, pre-start checks | config, engines | `Planning` |
| ClickBench dataset cache (`cacheDataset`, and the load in `RunClickBench`) | data file, checksum file, temporary files; what the URL serves | reuse, download, replace both, load | several processes, prune, loss of power, the origin | `DatasetCache` |
| ClickBench queries (`RunClickBench`, `clickBenchPhase`) | query, trial, whether an eviction is worth asking for | evict, query, label | ClickHouse and its cache | `ClickBench` |
| Disk benchmark without fio (`runBuiltin`, `measureBuiltin`) | one file and its position, a buffer, counters | read, write, start again at the front, flush | local file system | `DiskWorkload` |
| Steps of cpu, memory, disk, S3, pgbench, iperf and ndt7 (their `Run`s and `DefaultSpec`s) | where the workload is, metrics, time and requests spent | next step, failure | `Plan`, external programs | `Workloads` |
| Configuration (`common`, `Load`, `ApplyEnvironment`, `ValidateResolved`) | the `Config` while it is put together | parse, load, overlay, validate | every command | `Configuration` |
| Statistics, host, redaction, build info, schemas, CI | none | pure functions, input and output | | not modelled |

What makes the tool correct, per component:

* **Run**: whatever is measured is recorded first; nothing is reported deleted
  that exists; nothing is left behind unreported; the exit code tells the truth;
  a confirmed run ends after an interrupt.
* **Cleanup**: nothing is removed that the run did not create and record; the
  manifest is forgotten only when nothing of it is left; exit 0 means gone; a
  started command ends.
* **Pool**: every object counts once, as served or as an error; nobody writes
  after the return; a cancelled operation returns.
* **Peer**: a token serves one session and all of its streams; phases do not
  overlap on the wire; the run, its goroutines and an interrupted server end.
* **Helper cache**: only released bytes are executed.
* **Dataset cache**: the checksum in a result is that of bytes which this process has
  hashed and some run has downloaded (the code pins a length and an ETag, no checksum);
  what concurrent runs of the same bytes leave in the cache can be reused.
* **ClickBench**: the labels of the trials are true.
* **Disk**: what is counted was done, and inside the file.
* **Workloads**: the approved plan covers what is run, and is exceeded in time by iperf2
  and NDT7 only and by a known amount; no two metrics have one name.
* **Configuration**: the strongest source wins, and only what wins can be refused.
* **Planning**: nothing is created or shared that was not in the approved plan;
  nothing is measured twice.

Hard behaviours, with their lines, are listed under "hazards" in `PROJECT.json`.

## 2. The modules

```
RemoteResource <- SharedState <- Runner ---------------> OwnedResources (INSTANCE)
                       ^            ^  ^
                       |            |  +-- RunnerInvariant <- MCRunner
                       |            |            ^-- RunnerProofs
                CleanupCommand      |                    ^
                       ^------------+-- BenchSystem <- SystemProofs
                                             ^-- MCBenchSystem
PeerServer <- PeerBench <- MCPeerBench
                  ^-- PeerProofs
SmallOperations, Planning, HelperCache, DatasetCache,
DiskWorkload, ClickBench, Workloads, Configuration <- MCComponents
SmallOperations, HelperCache, DatasetCache <- ConcurrencyProofs
DiskWorkload, ClickBench                   <- MeasurementProofs
Configuration, Planning                    <- CommandLineProofs
Workloads                                  <- WorkloadProofs
MCComponents, the four above               <- ComponentsProofs
```

**RemoteResource** is the outside world: one bucket or database is absent,
foreign (the name is taken by someone else), bare (ours, no marker) or marked.
Each remote call is a relation between the state before, the state after and
whether the engine sees a success.  A failing call may have been applied: the
reply was lost.  A deadline that passes is a failing call.

**SharedState** holds what commands of one run ID share: the remote resources
and the manifest file.  An entry is named by the category that recorded it.
`Save` replaces the whole file or fails; `Delete` may fail silently, as in the
code, which drops its error.  The order of entries is abstracted: the loops that
go through them take any entry next, which includes the order of the file.

**Runner** is `Execute` step by step.  `pc` is where it is; the steps between
two remote calls or file writes are one action.  `Ask` is the question of
`confirmation`, which waits for a line whatever happens to the context; `Begin` is a
confirmed run, by the answer or by `--yes`.  `CreateResource`, `WriteMarker`
and `RecordResource` are the three parts of `EnsureDatabase` (PostgreSQL and
ClickHouse) and of the start of `s3bench.Run`; `RecordResource` is also the
record callback of `Execute`, which appends in memory before it saves.
`VerifyMarker`, `PurgeBucket` and `DropResource` are `engine.Cleanup` called by
the deferred closure; `CleanupReturned` is the inner loop over matching manifest
entries, in which the last result counts.  `Interrupt` is SIGINT: from then on
no call on the run's context is applied (`OnRunContext`), while the closure has
a context of its own.  `Kill` ends the process without deferred functions.

**CleanupCommand** is one `cleanup --run-id` process for each element of
`Commands`, restarted at will and killed by any signal, since it handles none.
It works from the manifest it loaded and never rewrites the file.
**BenchSystem** puts the run and the commands side by side; `CleanupDuringRun`
says whether a command may start before the run is over, `PowerMayFail` whether
the host may go down.  `PowerFails`, at any time and any number of times, ends the run,
if it still goes on, and all commands at once; since `Save` and `Delete` sync nothing, the
manifest file is afterwards as it was after any earlier save, or absent, or there again
after its removal.  `WriteAtomic` syncs the bytes of the result document and not its rename:
so the document is afterwards any that has been there, or none (`PersistedDocuments`).

**SmallOperations** is the dispatcher and the workers of `smallOperation`.  The
unbuffered channel is a rendezvous (`HandOver`), and `select` may choose it even
when the context is done; such a request is `doomed`.

**PeerServer** is `Server.Serve`: `Authorize` is one critical section of the
mutex, `Answer` and `Break` are the ends of a handler, `Drained` and
`DrainTimeout` the two ends of `Shutdown`.  **PeerBench** adds any number of
clients: each phase of `Run` starts one goroutine per stream, which makes one
request and sends a byte count or an error over one of two buffered channels.
A round trip is a phase whose only stream is `Run` itself.  TLS, byte counts and the statistics of
round trips are left out.

**HelperCache** is `ResolveClickCannon` and the two helper phases, run by several
processes.  A file has bytes (the released ones or spoilt ones) and an execute
permission; `PowerLoss` may spoil what was renamed without a sync, and `Prune`
removes entries one by one.  The override variable and `PATH` never reach the
cache and are left out.

**Planning** goes from `--only` to the statuses.  `Choose` is one turn of the loop of
`SelectCategories` (or one test of `ConfiguredCategories`), and `looked` says how many
names it has seen.  `facts` is what the host and
the configuration offer (an engine on PATH, a variable, a target, consent), and
`Drift` lets engines come and go between the plan that was approved, the plan
that is recorded and the look that each engine takes for itself.

**DatasetCache** is `cacheDataset`, run by several processes, and the load that follows.  The
dataset and its checksum are two files: `ReplaceDataset` renames a verified part over the
first, `TruncateChecksum` and `WriteChecksum` are the two halves of `os.WriteFile` on the
second.  `Editions` are bytes that come with the pinned length and ETag: the pinned ones and
others, between which the origin may change; the code cannot tell them apart, and compares the
hash of a file only with the `.sha256` file beside it.  Different bytes have different hashes;
a torn checksum matches nothing.  `installed` is a history variable: what downloads have put in
place.  `reported` is the `dataset_sha256` of the result, `loaded` what the server has fetched
from the URL for itself (`LoadTable`).  `disturbed` is a history variable: once a process was
killed between the two halves, or prune, the user or a loss of power has touched the files, the
cache need not be usable, only safe.

**DiskWorkload** is `runBuiltin` with `measureBuiltin` in units of blocks: `position`
is where the file descriptor is, `offset` where the loop believes to be, `buffered`
whether the `bufio.Writer` holds its one block.  `WriteSequentially` follows what
`bufio` does with a buffer of exactly one block: a block is written when the next one
comes.  `Advance` is everything after an operation, the rewind included.

**ClickBench** is the two loops over queries and trials.  `Evict` may be refused, also
after it was applied; `warm` says what really is in the server's cache, `phase` what the
label says.

**Workloads** gives each benchmark its list of steps, from its `DefaultSpec` and the
loops of its `Run`; a step has the time and the requests it takes, the metrics it adds
and whether its failure ends the benchmark (the small-object steps of S3 count failures
and go on).  `AnnouncedSeconds` and `AnnouncedRequests` are the estimates of `Plan`,
which stand in another package.  A step takes the duration that the code
gives the program it starts, or the limit it sets it (NDT7: 60 seconds each way); a step
with neither takes no time here, since the plan can only cover what the code itself fixes.
A reverse run takes two durations under iperf2, the engine of Windows: its `-r` measures the
forward direction again before the other.

**Configuration** follows one option of each sort through `common`: a name with a flag
(`profile`), a boolean with a flag (`keep`), a boolean without one (`s3_enabled`) and a
name without one (`region`).

**MCComponents** is the sum of the eight modules above that share no state with a run's
resources or with one another: `component` names the one that moves, the others stay in
an initial state.  Each question is asked of its own component only; one run asks them.

## 3. What is checked

Runs that must pass:

| Run | Instance | What it shows |
|---|---|---|
| `runner` | three lists of three categories, every subset of names taken | all ten run properties with failures, a lost reply, an interrupt and a kill between any two steps; refinement of `OwnedResources`; termination of a confirmed run after an interrupt |
| `cleanup` | a bucket and a database; two commands; losses of power | no process forgets the manifest before its entries are gone, and exit 0 is true, whatever two commands do to each other and whatever version of the file they find |
| `live` | the two ClickHouse categories, or a bucket; one command during the run; losses of power, which may replace the manifest and the result document | a final document that is there accounts for all that is left, success and exit 0 stay true, nothing unrecorded or foreign is removed, a started command ends or is killed |
| `peer` | 2 runs, one of them possibly without the token; a round trip and a transfer of 2 streams | one session, no refused stream, no overlap |
| `peer_live` | 1 run, a round trip and a transfer of 3 streams | `Run`, its goroutines and an interrupted server end |
| `components` | see below | each of the eight components for itself: |
| &nbsp; pool | 3 workers, 4 objects | exact error count, quiet after the return, cancellation returns |
| &nbsp; planning | 2 optional services, 6 values of `--only`, 6 sets of facts, 2 of them volatile | nothing is created, shared or measured that was not approved, also when engines come and go after the approval |
| &nbsp; helper | 3 processes | only released bytes are executed |
| &nbsp; dataset | 2 processes, an origin with two contents of one identity | only the checksum of hashed and downloaded bytes is reported; two runs of the same bytes leave a usable cache |
| &nbsp; disk | a file of 3 blocks, up to 7 operations per workload | one block is lost per pass and no more; the file stays in bounds, no read meets its end |
| &nbsp; clickbench | 5 queries, 3 trials, both cache modes | labels and the one warning are true |
| &nbsp; workload | 7 benchmarks, both profiles, 1, 2, 32, 64 and 80 CPUs, with and without UDP and Windows | the plan covers the run, and two benchmarks exceed its time by no more than `Excess`; names are distinct |
| &nbsp; configuration | 4 options, every combination of sources | precedence, and refusals only for what wins |

Why the bounds are enough.  A run has three resource kinds and at most one resource of each;
the only categories that share one are the two ClickHouse ones, and a category list interacts
with itself only through the kinds, so lists of three with both orders of the sharing pair meet
every combination; the proofs of section 5 remove the bound.  Two commands are the fewest that
race, and one bucket (three calls) and one database (two) are all the ways in which a command
handles an entry; with the loss of power and a command during the run, `live` has them in lists
of their own, and the proofs have every list.  `cleanup` takes the two commands, which are
alike, as symmetric and does not tell states apart by the result document (VIEW): no action
reads it but the loss of power, for the next document, and none of this run's properties speaks
of it beyond its type.  Three workers let two of them finish while a third is doomed; four
indexes are more than the workers.  Two streams and two clients are enough for every race to
the token; three streams leave two goroutines behind an error. Three processes let one rename
while another executes and a third downloads; two are enough for the dataset, where the race is
between the two files.  Three blocks have a first, a middle and a last one, and seven
operations pass twice through the file and one block further.  The numbers of CPUs include
those where two entries of the client list meet (1, and 64 by `min(2 * cpus, 64)`), those just
beside them and one beyond; the counts of small objects are those of the code.  Five queries
and three trials let a refusal come first, in the middle and last.  A configuration has four
sources per option, all of whose combinations are initial states.

Runs that TLC must find violated, each a disagreement of the code and its
documentation (`docs/benchmark-contract.md`):

| Run | Documentation | Code |
|---|---|---|
| `exit_two` | exit 2 is for "failures that prevent a plan" (100-101) | a result document that cannot be written after benchmarks have run also exits 2 (runner.go:420, cli.go:313) |
| `leftover_marker` | "Every remote resource contains a marker" (107-108) | the resource exists before its marker; if writing the marker fails, it stays bare and no cleanup will touch it |
| `cleanup_retry` | exit 1 means "left cleanup incomplete" (99-100) | the manifest keeps entries that are already gone, whose marker check then fails in every later `cleanup` |
| `dataset_unpinned` | "ClickHouse fetches the verified dataset URL server-side" (clickhouse.go:141); "Pinned 100M-row dataset" (64) | the URL is fetched again at load time without its identity, and after a reuse of the cache the origin was never asked; the row count is reported, not compared |
| `disk_lost` | the fallback is a "sequential 1 MiB read/write" (61) | a block that is counted is dropped from the buffer at each end of the file (disk.go:253); with a file of one block nothing is written |
| `helper_unavailable` | a required engine that is unavailable is "blocked" (95-96) | between rename and chmod, or for ever after a kill at that point, the helper is accepted by its checksum, cannot be executed and the benchmark is "failed" |

`RemovesOnlyRecorded`, `DocumentAccounts` and `SuccessIsClean` survive a `cleanup` during the
run and losses of power.  `LeftoverIsReported` does not survive a loss of power: the last
document of a run that has ended may be gone or say `pending` again, and what is left is then
in no final document.  `DocumentAccounts` says what stays true: no document that is there with
a final status leaves anything out.  `MeasuredIsRecorded`, `OneEntryPerResource` and
`ForgetsOnlyWhatIsGone` do not survive a `cleanup` during the run: the command may remove what
is being measured and its manifest entry, and a later category creates the name again and
writes the file anew.  Nothing in the code or its documentation promises otherwise, so they are
stated for a run whose cleanup starts after it.

### Other divergences met, without a run

* `status` answers "interrupted" before it looks at the resources
  (runner.go:466), so exit 130 also follows a failed cleanup, where the
  documentation reserves 1 for "left cleanup incomplete".
* `SelectCategories` checks `--only` against all known categories, not the
  configured ones (runner.go:69); the documentation says that it "restricts that
  set" (29-30).
* The signal handler is installed before the question whether to proceed (cli.go:301), and
  the answer is read without the context (cli.go:356): an interrupt at the prompt is
  swallowed, and the command goes on waiting for a line (`Ask`, `Bounded`).
* On Windows the engine of iperf is iperf2 (iperf.go:35-38), whose `-r` (123) measures the
  forward direction again before the reverse one, as the warning at 73 half says; the plan
  counts one duration for each run of either engine (runner.go:205-215).  Without UDP it
  announces 20 or 120 seconds, and the runs take 30 or 180, although the durations are
  printed "first" (docs/benchmark-contract.md:35-37).
* The two limits of NDT7 are 60 seconds each (ndt7.go:42, 51); the plan announces 55 for both
  (runner.go:228).  `Excess` has the amount of both divergences, and `PlanCoversTheRun` says
  that there is no other among the benchmarks of `Workloads`.
* A category without a peer or iperf target is "blocked" in the plan and
  "failed" in the result (iperf.go:69, peer.go:58).
* The plan announces 4 requests for the peer transfers; the run makes
  1 + 1 + 8 + 8 (runner.go:188, peer.go:87-92).
* `UDPBitsPerSecond * 30 / 8` wraps for rates near 2^64 (runner.go:217).
* On a host with one CPU the memory benchmark measures "all workers" under the name of
  one: each metric appears twice (memory.go:73-80); `NamesAreDistinct` says so.  The cpu
  benchmark reports both names for the same thing.
* An NDT7 upload that is cut short ends its channel like a complete one; if a first
  measurement is there, the benchmark is a success (ndt7.go:57-65).
* The buffered disk fallback reads a sparse file, and `sequential_write` starts where
  `sequential_read` has stopped, so the file may grow to almost twice `file_bytes`
  (`StaysInTheFile` has the bound).
* The small-object percentiles of a cancelled operation include the zeros of requests that
  were never made (s3.go:180-225).

## 4. Assumptions

* **Fresh names.**  Names contain a random run ID, so nobody else creates one
  between the marker check and the drop; a name may be taken before the run
  (`TakenNames`) and is then refused: that S3 in us-east-1 answers a create call
  for a bucket of the caller's own account with success is not modelled.
* **Calls.**  Any remote call may fail, applied or not.  A call on a cancelled
  context is not applied; one already cancelled while in flight is covered by
  the lost reply, since the interrupt may come right after it.
* **Processes.**  A kill loses memory, never a renamed file.  A loss of power may also take
  back or spoil what was not synced: the helper's bytes, the dataset's rename and its checksum
  file, saves and removals of the manifest, the rename of the result document. In `BenchSystem`
  it comes during the run or later, and any earlier version of the two files may return,
  however old: more than a real file system does.  `RemovesOnlyRecorded`, `CommandZeroIsClean`,
  `DocumentAccounts` and `SuccessIsClean` must survive it.  That a resource may then be
  recorded nowhere is a fact of the code that no property denies: `ForgetsOnlyWhatIsGone` asks
  it of every other step.
* **Fairness.**  `Runner`: weak fairness of `Execute` only when it is interrupted after the
  confirmation or cleaning up, because an HTTP or SQL call returns once its context is
  cancelled and the closure's context has two minutes (runner.go:264-318); an uninterrupted
  benchmark may wait for ever, and so may the prompt, interrupted or not; of the plan before it
  nothing is assumed either.  `CleanupCommand`: weak fairness of a started command, whose
  context has five minutes (cli.go:394).  `SmallOperations`: of goroutines that can go on, and
  of requests only when cancelled.  `PeerBench`: of goroutines and of `Run`, since each stream
  has the deadline of its phase and a round trip the client's timeout, and of `Shutdown`, which
  has ten seconds; none of the server's handlers, of the signals or of the network.  The other
  components have no liveness property and assume none; in `MCComponents` the pool's fairness
  asks nothing while another component moves, since a pool that is left out waits for its first
  index.
* **Constants.**  The assumptions are named in the modules that declare the constants.  A
  session is 16 random bytes, so no client's is the empty one (`ClientsAssumption`); a
  transfer has at least one stream (`PhasesAssumption`); a file has at least one block and
  a query at least one trial; an engine may come and go during a command, the consent
  may not, which is read once with the configuration (`GivenAssumption`); `--only` is a
  list of strings (`AskedAssumption`); a pool has finitely many workers and at least one.
* **Deadlock** is checked in every run; processes that are over stutter in a step
  of their own (`RunOver`, `Finished`, `PeerOver`, `AllOver`, `PlanOver`, `LoadersOver`, `DiskOver`,
  `ClickBenchOver`, `WorkloadOver`, `ConfigOver`).

## 5. What is proved

Every theorem is about a specification and every value of its constants within their
assumptions (section 4).  "theorems" in `PROJECT.json` lists them.

| Module | Proves, of | That every behaviour satisfies |
|---|---|---|
| `RunnerProofs` | `Spec`: a run alone with its resources | `KeepsPromise`: each step is one of `OwnedResources` or leaves what it promises unchanged; `TypeOK`, `MeasuredIsRecorded`, `OneEntryPerResource`, `DeletedIsGone`, `CleanupAttempted`, `LeftoverIsReported`, `ExitZeroIsClean`, `KeptIsRecoverable` |
| `SystemProofs` | `SystemSpec`: a run, `cleanup` commands and losses of power at any time | `SystemTypeOK`, `RemovesOnlyRecorded`, `DocumentAccounts`, `SuccessIsClean`, `DeletedIsGone` |
| | the same, if `cleanup` comes after the run (`~CleanupDuringRun`) | `CommandZeroIsClean`, `ForgetsOnlyWhatIsGone`, `MeasuredIsRecorded`, `KeepsPromiseButForPower` |
| | the same, and no power is lost (`~PowerMayFail`) | `KeepsPromise` |
| `PeerProofs` | `PeerSpec` | `PeerTypeOK`, `OneSessionServed`, `HolderNeverRefused`, `PhasesDoNotOverlap`, `SendersHaveRoom` |
| `ConcurrencyProofs` | `PoolSpec`, `HelperSpec`, `DatasetSpec` | `PoolTypeOK`, `ErrorsAreExact`, `QuietAfterReturn`; `RunsOnlyReleased`; `ReportsWhatItHashed`, `StaysUsable` |
| `MeasurementProofs` | `DiskSpec`, `ClickBenchSpec` | `LosesOneBlockPerPass`, `StaysInTheFile`; `LabelsAreTrue` |
| `CommandLineProofs` | `ConfigSpec`, `PlanSpec` | `StrongestSourceWins`; `PlanTypeOK`, `MeasuredOnce`, `CreatesOnlyApproved`, `SharesOnlyApproved` |
| `WorkloadProofs` | `WorkloadSpec` | `WorkloadTypeOK`, `NamesAreDistinct`, `PlanCoversTheRun` |
| `ComponentsProofs` | `ComponentsSpec` | the specification of each of the eight components; so `ComponentsTypeOK` and every other safety property of `components` |

Each module first proves an inductive invariant (`InitInv`, one lemma per action or group of
actions, `NextInv`, and a theorem `...InvariantHolds` that they make), then the properties
from it.

### The run, and the run among others

None of the run's properties is inductive.  `LeftoverIsReported` speaks of the moment the
process exits, and what it says depends on what was known at each remote call: so the
invariant (module `RunnerInvariant`) follows every resource through the whole of `Execute`.
It has two parts, `IInv == RobustInv /\ AloneInv`.

`RobustInv` holds whoever else removes resources or manifest entries meanwhile:

* `LoopInv`: which categories have run, and that later ones have no entry yet (the list has
  no repetitions, so the current category is new);
* `LedgerInv`: the file lists no more than the memory, the memory only what the result lists
  as owned, what is "deleted" is gone, and whatever the run holds is accounted for
  (`Accounted`): about to be recorded, listed, or lost with the reply of its create call;
* `RemovalInv`: what is marked, recorded or removed was not there before the run, and the
  entry being removed is recorded and not to be kept;
* `ReturnInv`: what is known of the status, the exit code and the document, if there is one
  with a final status.

`WrittenInv` says that a run which has returned a result has such a document.  Alone it does
(`WrittenHolds`); a loss of power may take the document back, so `WrittenInv` is no part of
`RobustInv`: with it `DocumentAccounts` becomes `LeftoverIsReported`, and `SuccessIsClean`
becomes `ExitZeroIsClean`.

`AloneInv` needs the run to be the only one that removes: what is listed exists (`OwnedInv`),
a resource has one entry, an initialised one stays marked and on disk until the cleanup
(`InitializedInv`), what is purged was verified and what is dropped exists (`TargetInv`).

The `...Keeps` lemmas prove that each action keeps `RobustInv`, from `RobustInv` alone; the
`...Inv` lemmas add `AloneInv`.  The split is what makes the run's proof reusable: in
`SystemProofs`, what the commands and a power failure can do to the shared state is `TakesAway`
(nobody's resource becomes ours or foreign, the file lists no more than the run's memory), and
`Interference` says that `RobustInv` survives it.  `SystemInv` adds what a command works on:
entries it loaded, which the run had recorded (`EntriesInv`).  So `DocumentAccounts` and
`SuccessIsClean` hold in the system as they do alone, while the properties that rest on
`AloneInv` or `WrittenInv` do not (section 3).  `RunGoneInv`, for commands that start after the
run, says that an entry a command has handled is gone or was counted as a failure, and that the
file lists only what the command has loaded.  Such commands also leave `AloneInv` to the run
until it is over (`AloneUntilOver`), so the run's steps keep the promise of `OwnedResources` by
`NextPromise`, and `CommandPromise` adds the commands': `KeepsPromise` then holds of both
together.  A loss of power keeps all of these invariants too: of a run that is over it is one
more way of `TakesAway`, of one that is not it is a kill with another file, and no command
survives it to meet the file it has changed (`PowerFailsInv`, `RunGoneHolds`).  The document it
brings back has no final status, unless it is the one that was there (`PersistedFacts`).  What
it costs is said in the terms of the promise: `Lose` takes the ledger back to some of what was
recorded, and changes neither who holds a name nor what is recorded (`SystemPromise`).

The refinement uses `IInv` for the two steps that could break the promise: a drop releases a
name only after it was recorded (`EntryInv`), and the file is deleted only when every entry is
gone (`EndCleanupPromise`).

### The other components

* **Peer** (`SessionInv`, `StreamInv`): the session is claimed once, by a client with the
  token; whoever is served holds it, and a client that was refused never will.  A stream
  that has been collected, or is not of this phase, has no request with the server.
  `SendersHaveRoom` counts: a channel holds at most as many messages as the phase has
  streams, and a stream that has one to send has not sent it, so the send never blocks.
* **Pool** (`WorkInv`, `SentInv`, `CountInv`, `LeaveInv`): an index that was sent is served or
  in exactly one worker's hands, and served ones are counted once.  At the return no worker
  has one, so the unserved ones are the unsent ones.
* **Helper** (`CheckedInv`): bytes are spoilt only by a loss of power, which no process
  survives, so whoever is past the checksum meets released bytes.
* **Dataset** (`HashedInv`, `InstalledInv`, `UndisturbedInv`): from the replacement on a
  process has hashed the bytes it installs; what the files hold, and what a process has read of
  the checksum file, was downloaded, or is spoilt, torn or absent; while nothing disturbs the
  cache, the data file comes before the checksum file, and a torn checksum has a writer who
  will finish it.
* **Disk** (`BufferInv`, `AccountInv`, `PlaceInv`): a counted block is in the file, in the
  buffer or was dropped at the end of a pass; `sequential_write` is ahead of its offset by
  less than a pass, which bounds the file.
* **ClickBench** (`WarnedInv`, `LabelInv`, `OrderInv`): the label that is about to be given is
  true of the server's cache, and earlier trials are of earlier queries.
* **Configuration** (`StageInv`): what each stage has made of an option, as a function of the
  sources read so far.  Its options and sources are fixed sets: the theorem says no more than
  the run, for the same values.
* **Planning** (`SelectionInv`, `ApprovalInv`, `RunInv`): the selection has no name twice, and
  the approved plan covers everything the selected categories may do, ready or blocked, so it
  does not matter what changes after the approval.
* **Workloads** (`TimeInv`, `RequestsInv`, `NamesInv`): the time spent is at most, and the
  requests of a benchmark without a failure exactly, a sum over the steps that are over; the
  metrics are named by these steps and by no step twice.  The lists have a length that depends
  on the number of CPUs, but only through the one to three entries of the client list, so no
  induction over data is needed: a sum over a concatenation is unfolded for lists of one, two
  and three parts, and a sum is any function `f` with `f[0] = 0` and `f[i]` the value of step
  `i` more than `f[i - 1]` (`Sums`).  TLC cannot evaluate the quantifier over such functions:
  `TimeInv` and `RequestsInv` are the two invariants only the proof has checked.
* **The components together**: a step of `MCComponents` is a step of one component and a
  stutter of the others (`ComponentSteps`), so the composition implements each specification
  (`ComponentsCompose`) and has what is proved of it.

### Only model-checked

* All liveness: `BoundedRunEnds`, `CommandEnds`, `CancelledReturns`, `RunReturns`,
  `NoGoroutineLeaks`, `ServerStops`.  The proof system has no support for reasoning from
  fairness about ENABLED.
* The runs of section 3 that must be violated: a counterexample needs no proof.

## 6. Not modelled, and why

* The workloads inside a run: one step of `Runner` with any outcome.  Their steps are in
  `Workloads`, `DiskWorkload`, `ClickBench` and `SmallOperations`; their numbers are data.
* fio, pgbench, psql, iperf, the ndt7 client and ClickHouse itself: external.  The parsing
  of their output (`ParseFio`, `ParseOutput`, `parse` of iperf, `summarize`) turns text into
  numbers.
* The kernels of cpu and memory: goroutines that share nothing but a wait group and, for
  memory, disjoint parts of two buffers.
* `statistics`: means and interpolated percentiles over floats, whose hazard is rounding.
* The error path of `sql.Open` (clickhouse.go:99), which `New` has already passed;
  the name-length check of a bucket, which is part of `Refuse`.
* The transfer sizes of the plan, ClickBench's and the peer's share of the estimates.
* Host facts, redaction, printing, schemas, release tooling: pure functions or input and
  output.

## 7. Plan

Done: every component of section 1 checked, and every safety property of a passing run proved.
Left:

1. Liveness beyond the bounds of section 3, once the proof system can reason from fairness.
2. The interval in which a loss of power can still take the manifest back, should the code
   sync what it saves: `PowerFails` would then lose its choice of versions.
