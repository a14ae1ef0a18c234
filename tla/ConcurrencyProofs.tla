-------------------------- MODULE ConcurrencyProofs --------------------------
(***************************************************************************)
(* The components that several workers or processes share, for any number  *)
(* of them.  The small-object pool: the counter of errors is exact and     *)
(* nobody writes after the return.  The two caches in the user's           *)
(* directory: what is executed was released (HelperCache), the checksum of *)
(* a result is that of downloaded bytes its process has hashed itself, and *)
(* concurrent downloads of the same bytes leave a cache that can be used   *)
(* again (DatasetCache).                                                   *)
(***************************************************************************)
EXTENDS SmallOperations, HelperCache, DatasetCache, FiniteSetTheorems, TLAPS

(* The small-object pool: PoolInv follows each index from the channel to a    *)
(* worker and into the counters.                                              *)

\* An index in work was sent, has no latency yet and is in one pair of hands.
WorkInv ==
    /\ \A w \in Workers : worker[w] = "requesting" => job[w] \in 0..(index - 1) /\ job[w] \notin served
    /\ \A v, w \in Workers :
        worker[v] = "requesting" /\ worker[w] = "requesting" /\ job[v] = job[w] => v = w

\* What was sent is served or in work, and nothing else is.
SentInv ==
    /\ served \subseteq 0..(index - 1)
    /\ \A i \in 0..(index - 1) :
        i \in served \/ \E w \in Workers : worker[w] = "requesting" /\ job[w] = i

\* Every served index is counted once, as a success or as a failure.
CountInv == failures = Cardinality(served) - Cardinality(succeeded)

\* Workers leave only after the close, and Return waits for all of them.
LeaveInv ==
    /\ closed <=> at # "sending"
    /\ \A w \in Workers : worker[w] = "done" => closed
    /\ at = "returned" => \A w \in Workers : worker[w] = "done"
    /\ at = "returned" => errors = failures + (Count - index)

PoolInv == PoolTypeOK /\ WorkInv /\ SentInv /\ CountInv /\ LeaveInv

-----------------------------------------------------------------------------
\* The sets of indexes are finite, and no larger than the range they come from.
LEMMA IndexSets ==
    ASSUME NEW m \in 0..Count, NEW S \in SUBSET (0..(m - 1))
    PROVE  IsFiniteSet(S) /\ Cardinality(S) \in 0..m /\ Cardinality(0..(m - 1)) = m
<1>1. m \in Nat /\ m - 1 \in Int
    BY CountAssumption
<1>2. IsFiniteSet(0..(m - 1)) /\ Cardinality(0..(m - 1)) = m
  <2>1. /\ IsFiniteSet(0..(m - 1))
        /\ Cardinality(0..(m - 1)) = IF 0 > m - 1 THEN 0 ELSE (m - 1) - 0 + 1
    BY <1>1, 0 \in Int, FS_Interval, Zenon
  <2> QED BY <1>1, <2>1
<1>3. IsFiniteSet(S) /\ Cardinality(S) <= m
    BY <1>2, FS_Subset
<1>4. Cardinality(S) \in Nat
    BY <1>3, FS_CardinalityType
<1> QED BY <1>1, <1>2, <1>3, <1>4

LEMMA ServedIsFinite ==
    ASSUME PoolTypeOK
    PROVE  /\ IsFiniteSet(served) /\ Cardinality(served) \in 0..Count
           /\ IsFiniteSet(succeeded) /\ Cardinality(succeeded) \in Nat
           /\ Cardinality(succeeded) <= Cardinality(served)
<1>1. IsFiniteSet(served) /\ Cardinality(served) \in 0..Count
  <2>1. Count \in 0..Count /\ served \in SUBSET (0..(Count - 1))
    BY CountAssumption DEF PoolTypeOK, Indexes
  <2> QED BY <2>1, IndexSets
<1>2. IsFiniteSet(succeeded) /\ Cardinality(succeeded) <= Cardinality(served)
    BY <1>1, FS_Subset DEF PoolTypeOK
<1> QED BY <1>1, <1>2, FS_CardinalityType

LEMMA PoolInitInv == PoolInit => PoolInv
<1> SUFFICES ASSUME PoolInit PROVE PoolInv
    OBVIOUS
<1>1. PoolTypeOK
  <2>1. index \in 0..Count /\ failures \in 0..Count
    BY CountAssumption DEF PoolInit
  <2>2. job \in [Workers -> Indexes \union {NoJob}] /\ errors \in 0..Count \union {NoJob}
    BY DEF PoolInit
  <2> QED BY <2>1, <2>2 DEF PoolInit, PoolTypeOK
<1>2. WorkInv /\ SentInv /\ LeaveInv
    BY DEF PoolInit, WorkInv, SentInv, LeaveInv
<1>3. CountInv
    BY FS_EmptySet DEF PoolInit, CountInv
<1> QED BY <1>1, <1>2, <1>3 DEF PoolInv

-----------------------------------------------------------------------------
\* The index is a new one: no other worker has it and it is not served.
LEMMA HandOverInv ==
    ASSUME PoolInv, NEW w \in Workers, HandOver(w)
    PROVE  PoolInv'
<1> USE DEF PoolInv, HandOver
<1>1. PoolTypeOK'
    BY CountAssumption DEF PoolTypeOK, Indexes
<1>2. index \in Nat /\ index' = index + 1 /\ served' = served
    BY CountAssumption DEF PoolTypeOK
<1>3. /\ \A v \in Workers \ {w} : worker'[v] = worker[v] /\ job'[v] = job[v]
      /\ worker'[w] = "requesting" /\ job'[w] = index
    BY DEF PoolTypeOK
<1>4. WorkInv'
    BY <1>2, <1>3 DEF WorkInv, SentInv
<1>5. SentInv'
  <2>1. served' \subseteq 0..(index' - 1)
    BY <1>2 DEF SentInv
  <2>2. ASSUME NEW i \in 0..(index' - 1), i \notin served'
        PROVE  \E v \in Workers : worker'[v] = "requesting" /\ job'[v] = i
    <3>1. CASE i = index
      BY <3>1, <1>3
    <3>2. CASE i # index
      <4>1. PICK v \in Workers : worker[v] = "requesting" /\ job[v] = i
        BY <3>2, <2>2, <1>2 DEF SentInv
      <4> QED BY <4>1, <1>3
    <3> QED BY <3>1, <3>2
  <2> QED BY <2>1, <2>2 DEF SentInv
<1>6. CountInv' /\ LeaveInv'
    BY <1>3 DEF CountInv, LeaveInv
<1> QED BY <1>1, <1>4, <1>5, <1>6

\* The index moves from the worker into served, and into one of the counts.
LEMMA RespondInv ==
    ASSUME PoolInv, NEW w \in Workers, Respond(w)
    PROVE  PoolInv'
<1> DEFINE i == job[w]
<1>1. i \in Indexes /\ i \in 0..(index - 1) /\ i \notin served /\ i \notin succeeded
    BY CountAssumption DEF PoolInv, Respond, WorkInv, PoolTypeOK, Indexes
<1>2. served' = served \union {i} /\ Cardinality(served') = Cardinality(served) + 1
    BY <1>1, ServedIsFinite, FS_AddElement DEF PoolInv, Respond
<1>3. CountInv'
  <2>1. CASE succeeded' = succeeded \union {i} /\ failures' = failures
    <3>1. Cardinality(succeeded') = Cardinality(succeeded) + 1
      BY <2>1, <1>1, ServedIsFinite, FS_AddElement DEF PoolInv
    <3> QED BY <3>1, <2>1, <1>2, ServedIsFinite DEF PoolInv, CountInv
  <2>2. CASE succeeded' = succeeded /\ failures' = failures + 1
    BY <2>2, <1>2, ServedIsFinite DEF PoolInv, CountInv
  <2> QED BY <2>1, <2>2 DEF Respond
<1>4. PoolTypeOK'
  <2>1. served' \subseteq Indexes /\ succeeded' \subseteq served'
    BY <1>1, <1>2 DEF PoolInv, PoolTypeOK, Respond
  <2>2. IsFiniteSet(served') /\ Cardinality(served') \in 0..Count
    BY <2>1, IndexSets, CountAssumption DEF Indexes
  <2>3. IsFiniteSet(succeeded') /\ Cardinality(succeeded') <= Cardinality(served')
    BY <2>1, <2>2, FS_Subset
  <2>4. Cardinality(succeeded') \in Nat
    BY <2>3, FS_CardinalityType
  <2>5. failures' \in 0..Count
    BY <1>3, <2>2, <2>3, <2>4, CountAssumption DEF CountInv
  <2> QED BY <2>1, <2>5 DEF PoolInv, PoolTypeOK, Respond
<1>5. /\ \A v \in Workers \ {w} : worker'[v] = worker[v] /\ job'[v] = job[v]
      /\ worker'[w] = "receiving"
    BY DEF PoolInv, PoolTypeOK, Respond
<1>6. WorkInv'
    BY <1>2, <1>5 DEF PoolInv, WorkInv, Respond
<1>7. SentInv'
  <2>1. \A k \in 0..(index - 1) : k \notin served' =>
            \E v \in Workers : worker'[v] = "requesting" /\ job'[v] = k
    BY <1>2, <1>5 DEF PoolInv, SentInv
  <2> QED BY <2>1, <1>1, <1>2 DEF PoolInv, SentInv, Respond
<1>8. LeaveInv'
    BY <1>5 DEF PoolInv, LeaveInv, Respond
<1> QED BY <1>3, <1>4, <1>6, <1>7, <1>8 DEF PoolInv

LEMMA LeaveKeepsInv ==
    ASSUME PoolInv, NEW w \in Workers, Leave(w)
    PROVE  PoolInv'
<1> USE DEF PoolInv, Leave
<1>1. PoolTypeOK'
    BY DEF PoolTypeOK
<1>2. /\ \A v \in Workers \ {w} : worker'[v] = worker[v]
      /\ worker[w] # "requesting" /\ worker'[w] = "done"
    BY DEF PoolTypeOK
<1>3. WorkInv' /\ SentInv' /\ CountInv' /\ LeaveInv'
    BY <1>2 DEF WorkInv, SentInv, CountInv, LeaveInv
<1> QED BY <1>1, <1>3

LEMMA CloseJobsInv == ASSUME PoolInv, CloseJobs PROVE PoolInv'
BY DEF PoolInv, CloseJobs, PoolTypeOK, WorkInv, SentInv, CountInv, LeaveInv

\* When every worker is done nothing is in work: what was sent is served.
LEMMA AllServed ==
    ASSUME PoolInv, \A w \in Workers : worker[w] = "done"
    PROVE  failures + (Count - index) = Count - Cardinality(succeeded)
<1>1. served = 0..(index - 1)
    BY DEF PoolInv, SentInv
<1>2. index \in 0..Count /\ Cardinality(served) = index
    BY <1>1, IndexSets DEF PoolInv, PoolTypeOK
<1> QED BY <1>2, ServedIsFinite, CountAssumption DEF PoolInv, CountInv

LEMMA ReturnInv == ASSUME PoolInv, Return PROVE PoolInv'
<1>1. errors' \in 0..Count
  <2>1. errors' = Count - Cardinality(succeeded)
    BY AllServed DEF PoolInv, Return
  <2> QED BY <2>1, ServedIsFinite, CountAssumption DEF PoolInv
<1>2. PoolTypeOK'
    BY <1>1 DEF PoolInv, Return, PoolTypeOK
<1>3. WorkInv' /\ SentInv' /\ CountInv' /\ LeaveInv'
    BY DEF PoolInv, Return, WorkInv, SentInv, CountInv, LeaveInv
<1> QED BY <1>2, <1>3 DEF PoolInv

LEMMA CancelInv == ASSUME PoolInv, Cancel PROVE PoolInv'
BY DEF PoolInv, Cancel, PoolTypeOK, WorkInv, SentInv, CountInv, LeaveInv

LEMMA PoolNextInv == PoolInv /\ [PoolNext]_poolVars => PoolInv'
<1> SUFFICES ASSUME PoolInv, [PoolNext]_poolVars PROVE PoolInv'
    OBVIOUS
<1>1. CASE UNCHANGED poolVars
    BY <1>1 DEF poolVars, PoolInv, PoolTypeOK, WorkInv, SentInv, CountInv, LeaveInv
<1>2. CASE PoolStep
    BY <1>2, HandOverInv, RespondInv, LeaveKeepsInv, CloseJobsInv, ReturnInv DEF PoolStep
<1>3. CASE Cancel
    BY <1>3, CancelInv
<1> QED BY <1>1, <1>2, <1>3 DEF PoolNext, Finished

-----------------------------------------------------------------------------
\* PoolInv holds in every reachable state of smallOperation, for every finite
\* pool and every number of objects.
THEOREM PoolInvariantHolds == PoolSpec => []PoolInv
<1>1. PoolSpec => PoolInit /\ [][PoolNext]_poolVars
    BY DEF PoolSpec
<1> QED BY <1>1, PoolInitInv, PoolNextInv, PTL

\* The variables of smallOperation keep their types; the counter never exceeds
\* the number of objects.
THEOREM PoolTypeCorrect == PoolSpec => []PoolTypeOK
<1>1. PoolInv => PoolTypeOK
    BY DEF PoolInv
<1> QED BY <1>1, PoolInvariantHolds, PTL

\* result.errors is the number of objects without a successful request, whenever
\* the cancellation comes and however the workers interleave.
THEOREM ErrorsAreExactHolds == PoolSpec => []ErrorsAreExact
<1>1. PoolInv => ErrorsAreExact
    BY AllServed DEF PoolInv, LeaveInv, ErrorsAreExact
<1> QED BY <1>1, PoolInvariantHolds, PTL

\* After the return no worker writes a latency or the counter: operationMetrics
\* reads them without synchronisation.
THEOREM QuietAfterReturnHolds == PoolSpec => QuietAfterReturn
<1>1. PoolInv /\ [PoolNext]_poolVars => [at = "returned" => UNCHANGED <<served, failures>>]_poolVars
  <2> SUFFICES ASSUME PoolInv, PoolNext, at = "returned"
               PROVE  UNCHANGED <<served, failures>>
    OBVIOUS
  <2>1. \A w \in Workers : worker[w] = "done"
    BY DEF PoolInv, LeaveInv
  <2> QED BY <2>1 DEF PoolNext, PoolStep, HandOver, Respond, Leave, CloseJobs, Return, Cancel,
                  Finished, poolVars
<1>2. PoolSpec => [][PoolNext]_poolVars
    BY DEF PoolSpec
<1> QED BY <1>1, <1>2, PoolInvariantHolds, PTL DEF QuietAfterReturn

-----------------------------------------------------------------------------
(* The ClickCannon helper *)

\* Bytes are spoilt by a loss of power only, which no process survives that has
\* checked them: whoever is past the checksum never meets spoilt bytes.
CheckedInv == \A p \in Processes : doing[p] \in {"chmod", "insert", "query"} => file.bytes # "spoilt"

HelperInv == HelperTypeOK /\ CheckedInv /\ RunsOnlyReleased

\* A helper stays one when its bytes or its permission change.
LEMMA HelperFacts ==
    /\ NoHelper \in Helpers /\ NoHelper.bytes = "none"
    /\ \A e \in BOOLEAN : [bytes |-> "pinned", executable |-> e] \in Helpers
    /\ \A h \in Helpers, e \in BOOLEAN :
        [h EXCEPT !.executable = e] \in Helpers /\ [h EXCEPT !.executable = e].bytes = h.bytes
    /\ \A h \in Helpers : [h EXCEPT !.bytes = "spoilt"] \in Helpers
BY DEF Helpers, NoHelper, Bytes

LEMMA HelperInitInv == HelperInit => HelperInv
<1> SUFFICES ASSUME HelperInit PROVE HelperInv
    OBVIOUS
<1>1. HelperTypeOK
    BY HelperFacts DEF HelperInit, HelperTypeOK, Steps
<1>2. CheckedInv /\ RunsOnlyReleased
    BY DEF HelperInit, CheckedInv, RunsOnlyReleased
<1> QED BY <1>1, <1>2 DEF HelperInv

\* One step of a process that leaves the file alone and executes nothing.
LEMMA ResolveInv ==
    ASSUME HelperInv, NEW p \in Processes,
           \/ MakeDirectory(p) \/ FetchChecksum(p) \/ HashCached(p) \/ Download(p) \/ Unprepared(p)
           \/ KillProcess(p)
    PROVE  HelperInv'
<1> USE DEF HelperInv, MakeDirectory, FetchChecksum, HashCached, Download, Unprepared, KillProcess, GoTo, End
<1>1. HelperTypeOK'
    BY DEF HelperTypeOK, Steps
<1>2. CheckedInv'
    BY DEF HelperTypeOK, CheckedInv
<1>3. RunsOnlyReleased'
    BY DEF RunsOnlyReleased
<1> QED BY <1>1, <1>2, <1>3

\* A renamed helper has the released bytes; chmod leaves the bytes alone.
LEMMA InstallInv ==
    ASSUME HelperInv, NEW p \in Processes, Rename(p) \/ Chmod(p)
    PROVE  HelperInv'
<1> USE DEF HelperInv, Rename, Chmod, GoTo, End
<1>1. file' \in Helpers /\ file'.bytes \in {file.bytes, "pinned"}
  <2>1. (file.bytes # "none") \in BOOLEAN
    OBVIOUS
  <2> QED BY <2>1, HelperFacts DEF HelperTypeOK
<1>2. HelperTypeOK'
    BY <1>1 DEF HelperTypeOK, Steps
<1>3. file'.bytes \in {file.bytes, "pinned"}
    BY <1>1
<1>4. CheckedInv'
    BY <1>3 DEF HelperTypeOK, CheckedInv
<1>5. RunsOnlyReleased'
    BY DEF RunsOnlyReleased
<1> QED BY <1>2, <1>4, <1>5

\* Both phases execute the file that is there, which CheckedInv says is not spoilt.
LEMMA PhaseInv ==
    ASSUME HelperInv, NEW p \in Processes, Insert(p) \/ Query(p)
    PROVE  HelperInv'
<1>1. CASE CannotRun(p, "insert") \/ CannotRun(p, "query")
    BY <1>1 DEF HelperInv, CannotRun, End, HelperTypeOK, Steps, CheckedInv, RunsOnlyReleased
<1>2. CASE Runs(p, "insert", GoTo(p, "query")) \/ Runs(p, "query", End(p, "success"))
  <2> USE <1>2 DEF HelperInv, Runs, GoTo, End
  <2>1. file.bytes = "pinned"
    BY DEF HelperTypeOK, Helpers, Bytes, CheckedInv
  <2>2. HelperTypeOK'
    BY <2>1 DEF HelperTypeOK, Steps
  <2>3. CheckedInv'
    BY <2>1 DEF CheckedInv
  <2>4. RunsOnlyReleased'
    BY <2>1 DEF RunsOnlyReleased, HelperTypeOK
  <2> QED BY <2>2, <2>3, <2>4
<1> QED BY <1>1, <1>2 DEF Insert, Query

LEMMA PruneInv == ASSUME HelperInv, Prune PROVE HelperInv'
<1>1. HelperTypeOK'
    BY HelperFacts DEF HelperInv, Prune, HelperTypeOK
<1>2. CheckedInv' /\ RunsOnlyReleased'
    BY HelperFacts DEF HelperInv, Prune, CheckedInv, RunsOnlyReleased
<1> QED BY <1>1, <1>2 DEF HelperInv

\* Whoever has checked the bytes that are lost is killed.
LEMMA PowerLossInv == ASSUME HelperInv, PowerLoss PROVE HelperInv'
<1>1. file' \in Helpers
    BY HelperFacts DEF HelperInv, PowerLoss, HelperTypeOK
<1>2. HelperTypeOK'
    BY <1>1 DEF HelperInv, PowerLoss, HelperTypeOK, Steps
<1>3. CheckedInv'
    BY DEF HelperInv, PowerLoss, Running, CheckedInv
<1>4. RunsOnlyReleased'
    BY DEF HelperInv, PowerLoss, RunsOnlyReleased
<1> QED BY <1>2, <1>3, <1>4 DEF HelperInv

LEMMA HelperNextInv == HelperInv /\ [HelperNext]_helperVars => HelperInv'
<1> SUFFICES ASSUME HelperInv, [HelperNext]_helperVars PROVE HelperInv'
    OBVIOUS
<1>1. CASE UNCHANGED helperVars
    BY <1>1 DEF helperVars, HelperInv, HelperTypeOK, CheckedInv, RunsOnlyReleased
<1>2. ASSUME NEW p \in Processes, HelperStep(p) \/ KillProcess(p) PROVE HelperInv'
    BY <1>2, ResolveInv, InstallInv, PhaseInv DEF HelperStep
<1> QED BY <1>1, <1>2, PruneInv, PowerLossInv DEF HelperNext, AllOver

\* HelperInv holds in every reachable state, for every set of processes.
THEOREM HelperInvariantHolds == HelperSpec => []HelperInv
BY HelperInitInv, HelperNextInv, PTL DEF HelperSpec

\* Only released bytes are executed, whatever other downloads, a prune or a loss
\* of power do to the cached file (ResolveClickCannon, RunClickCannon).
THEOREM RunsOnlyReleasedHolds == HelperSpec => []RunsOnlyReleased
<1>1. HelperInv => RunsOnlyReleased
    BY DEF HelperInv
<1> QED BY <1>1, HelperInvariantHolds, PTL

-----------------------------------------------------------------------------
(* The ClickBench dataset *)

\* Nothing is reported before cacheDataset returns; from the download on a process
\* has hashed one of the editions itself, from the replacement on an installed one.
HashedInv ==
    /\ \A p \in Loaders : reported[p] # "none" => load[p] \in {"load", "over", "killed"}
    /\ \A p \in Loaders : load[p] \in {"replace", "truncate", "write"} => hashed[p] \in Editions
    /\ \A p \in Loaders : load[p] \in {"truncate", "write"} => hashed[p] \in installed

\* Whatever is found in the cache, and is neither spoilt nor torn, was downloaded.
InstalledInv ==
    /\ dataset \in installed \union {"none", "spoilt"}
    /\ sumFile \in installed \union {"none", "torn"}
    /\ \A p \in Loaders : claimed[p] \in installed \union {"none", "torn"}
    /\ \A p \in Loaders : load[p] = "hash" => claimed[p] # "none"

\* As long as nothing has disturbed the cache, the first file is there before the
\* second, the second stays once it is there, and it is torn only while somebody
\* writes it.
UndisturbedInv ==
    /\ dataset # "spoilt"
    /\ sumFile = "torn" => \E p \in Loaders : load[p] = "write"
    /\ sumFile # "none" => dataset # "none"
    /\ \A p \in Loaders : load[p] \in {"truncate", "write"} => dataset # "none"
    /\ \A p \in Loaders : load[p] = "write" \/ claimed[p] # "none" \/ reported[p] # "none" => sumFile # "none"

DatasetInv ==
    /\ DatasetTypeOK /\ HashedInv /\ InstalledInv /\ ReportsWhatItHashed
    /\ ~disturbed => UndisturbedInv

LEMMA DatasetInitInv == DatasetInit => DatasetInv
BY DEF DatasetInit, DatasetInv, DatasetTypeOK, HashedInv, InstalledInv, ReportsWhatItHashed,
       UndisturbedInv, Editions, Contents, Checksums, LoadSteps

\* Each step of a process keeps the types.
LEMMA LoaderTypes ==
    ASSUME DatasetTypeOK, HashedInv, NEW p \in Loaders, LoaderStep(p) \/ KillLoader(p)
    PROVE  DatasetTypeOK'
<1> USE DEF DatasetTypeOK, Editions, Contents, Checksums, LoadSteps, Proceed, GiveUpDataset, Accept
<1>1. CASE PrepareFolder(p)
    BY <1>1 DEF PrepareFolder
<1>2. CASE CreatePart(p)
    BY <1>2 DEF CreatePart
<1>3. CASE ReadChecksum(p)
    BY <1>3 DEF ReadChecksum
<1>4. CASE HashDataset(p)
  <2>1. dataset = claimed[p] => claimed[p] \in Editions \union {"none"}
    OBVIOUS
  <2>2. /\ hashed' \in [Loaders -> Contents]
        /\ reported' \in [Loaders -> Editions \union {"none"}]
        /\ load' \in [Loaders -> LoadSteps]
    BY <1>4, <2>1 DEF HashDataset
  <2> QED BY <1>4, <2>2 DEF HashDataset
<1>5. CASE TruncateChecksum(p)
    BY <1>5 DEF TruncateChecksum
<1>6. CASE WriteChecksum(p)
  <2>1. hashed[p] \in Editions
    BY <1>6 DEF WriteChecksum, HashedInv
  <2>2. /\ sumFile' \in Checksums /\ disturbed' \in BOOLEAN
        /\ reported' \in [Loaders -> Editions \union {"none"}]
    BY <1>6, <2>1 DEF WriteChecksum
  <2>3. load' \in [Loaders -> LoadSteps]
    BY <1>6 DEF WriteChecksum
  <2> QED BY <1>6, <2>2, <2>3 DEF WriteChecksum
<1>7. CASE LoadTable(p)
    BY <1>7 DEF LoadTable
<1>8. CASE KillLoader(p)
  <2>1. (disturbed \/ load[p] = "write") \in BOOLEAN
    OBVIOUS
  <2> QED BY <1>8, <2>1 DEF KillLoader
<1>9. CASE FetchDataset(p)
    BY <1>9 DEF FetchDataset
<1>10. CASE ReplaceDataset(p)
  <2>1. hashed[p] \in Editions
    BY <1>10 DEF ReplaceDataset, HashedInv
  <2>2. dataset' \in Contents /\ installed' \subseteq Editions
    BY <1>10, <2>1 DEF ReplaceDataset, Install
  <2> QED BY <1>10, <2>2 DEF ReplaceDataset, Install
<1> QED BY <1>1, <1>2, <1>3, <1>4, <1>5, <1>6, <1>7, <1>8, <1>9, <1>10 DEF LoaderStep

\* The steps up to the download: they leave both files alone.
LEMMA ReuseInv ==
    ASSUME DatasetInv, NEW p \in Loaders,
           \/ PrepareFolder(p) \/ ReadChecksum(p) \/ HashDataset(p) \/ CreatePart(p) \/ FetchDataset(p)
    PROVE  DatasetInv'
<1> USE DEF DatasetInv, PrepareFolder, ReadChecksum, HashDataset, CreatePart, FetchDataset,
            Proceed, GiveUpDataset, Accept
<1>1. DatasetTypeOK'
    BY LoaderTypes DEF LoaderStep
<1>2. HashedInv' /\ InstalledInv' /\ ReportsWhatItHashed'
    BY DEF DatasetTypeOK, HashedInv, InstalledInv, ReportsWhatItHashed
<1>3. disturbed' = disturbed /\ (~disturbed => UndisturbedInv')
    BY DEF DatasetTypeOK, HashedInv, UndisturbedInv
<1> QED BY <1>1, <1>2, <1>3

\* The steps that replace the two files, the load and a kill.
LEMMA ReplaceInv ==
    ASSUME DatasetInv, NEW p \in Loaders,
           \/ ReplaceDataset(p) \/ TruncateChecksum(p) \/ WriteChecksum(p) \/ LoadTable(p) \/ KillLoader(p)
    PROVE  DatasetInv'
<1> USE DEF DatasetInv, ReplaceDataset, Install, TruncateChecksum, WriteChecksum, LoadTable, KillLoader,
            Loading, Proceed, GiveUpDataset, Accept
<1>1. DatasetTypeOK'
    BY LoaderTypes DEF LoaderStep
<1>2. HashedInv' /\ InstalledInv' /\ ReportsWhatItHashed'
    BY DEF DatasetTypeOK, HashedInv, InstalledInv, ReportsWhatItHashed
<1>3. ~disturbed' => UndisturbedInv'
  <2> SUFFICES ASSUME ~disturbed' PROVE UndisturbedInv'
      OBVIOUS
  <2>1. ~disturbed /\ UndisturbedInv
    BY DEF DatasetTypeOK
  <2>2. CASE ReplaceDataset(p)
    <3>1. hashed[p] \notin {"none", "spoilt"}
      BY <2>2 DEF HashedInv, Editions
    <3> QED BY <2>1, <2>2, <3>1 DEF DatasetTypeOK, UndisturbedInv
  <2>3. CASE TruncateChecksum(p) \/ WriteChecksum(p)
    <3>1. hashed[p] \notin {"none", "torn"} \/ load[p] = "truncate"
      BY <2>3 DEF HashedInv, Editions
    <3> QED BY <2>1, <2>3, <3>1 DEF DatasetTypeOK, UndisturbedInv
  <2>4. CASE LoadTable(p)
    BY <2>1, <2>4 DEF DatasetTypeOK, UndisturbedInv
  <2>5. CASE KillLoader(p)
    BY <2>1, <2>5 DEF DatasetTypeOK, UndisturbedInv
  <2> QED BY <2>2, <2>3, <2>4, <2>5
<1> QED BY <1>1, <1>2, <1>3

\* What happens to the cache from outside disturbs it, but no process's memory.
LEMMA OutsideInv ==
    ASSUME DatasetInv, OriginChanges \/ PruneDataset \/ SpoilDataset \/ PowerFails
    PROVE  DatasetInv'
<1> USE DEF DatasetInv, OriginChanges, PruneDataset, SpoilDataset, PowerFails
<1>1. DatasetTypeOK'
  <2>1. dataset' \in Contents /\ sumFile' \in Checksums /\ load' \in [Loaders -> LoadSteps]
    BY DEF DatasetTypeOK, Contents, Checksums, LoadSteps
  <2>2. parts' \subseteq Loaders /\ folder' \in BOOLEAN /\ origin' \in Editions \union {"changed"}
    BY DEF DatasetTypeOK
  <2>3. disturbed' \in BOOLEAN /\ UNCHANGED <<installed, claimed, hashed, reported, loaded>>
    BY DEF DatasetTypeOK
  <2> QED BY <2>1, <2>2, <2>3 DEF DatasetTypeOK
<1>2. HashedInv' /\ InstalledInv' /\ ReportsWhatItHashed'
    BY DEF DatasetTypeOK, HashedInv, InstalledInv, ReportsWhatItHashed, Loading
<1>3. ~disturbed' => UndisturbedInv'
    BY DEF UndisturbedInv
<1> QED BY <1>1, <1>2, <1>3

LEMMA DatasetNextInv == DatasetInv /\ [DatasetNext]_datasetVars => DatasetInv'
<1> SUFFICES ASSUME DatasetInv, [DatasetNext]_datasetVars PROVE DatasetInv'
    OBVIOUS
<1>1. CASE UNCHANGED datasetVars
    BY <1>1 DEF datasetVars, DatasetInv, DatasetTypeOK, HashedInv, InstalledInv, ReportsWhatItHashed,
               UndisturbedInv
<1>2. ASSUME NEW p \in Loaders, LoaderStep(p) \/ KillLoader(p) PROVE DatasetInv'
    BY <1>2, ReuseInv, ReplaceInv DEF LoaderStep
<1> QED BY <1>1, <1>2, OutsideInv DEF DatasetNext, LoadersOver

\* DatasetInv holds in every reachable state, for every set of processes.
THEOREM DatasetInvariantHolds == DatasetSpec => []DatasetInv
BY DatasetInitInv, DatasetNextInv, PTL DEF DatasetSpec

\* The dataset_sha256 of a result is that of bytes which this process has hashed
\* and some run has downloaded, whatever is found in the cache (cacheDataset).
THEOREM ReportsWhatItHashedHolds == DatasetSpec => []ReportsWhatItHashed
<1>1. DatasetInv => ReportsWhatItHashed
    BY DEF DatasetInv
<1> QED BY <1>1, DatasetInvariantHolds, PTL

\* Once somebody has finished and nobody is writing, the two files fit together,
\* in whatever order any number of processes have replaced them with the same
\* bytes (cacheDataset).
THEOREM StaysUsableHolds == DatasetSpec => []StaysUsable
<1>1. DatasetInv => StaysUsable
    BY DEF DatasetInv, DatasetTypeOK, InstalledInv, UndisturbedInv, StaysUsable
<1> QED BY <1>1, DatasetInvariantHolds, PTL
=============================================================================
