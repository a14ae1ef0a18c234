------------------------------ MODULE Workloads ------------------------------
(***************************************************************************)
(* The benchmarks that go through a fixed list of measurements (cpu,        *)
(* memory, disk, s3bench, postgres, iperf and ndt7bench), against the       *)
(* duration and the number of requests that Plan announces for them         *)
(* (internal/runner).  The durations are those the code gives to its        *)
(* measurements, or the limits it sets them.                                *)
(***************************************************************************)
EXTENDS Integers, Sequences, SequencesExt

CONSTANT CPUs    \* the numbers of logical CPUs a host may have

ASSUME CPUsAssumption == CPUs \subseteq Nat \ {0}

VARIABLES
    benchmark,  \* the category that runs
    profile,    \* "quick" or "standard"
    cpus,       \* runtime.NumCPU
    udp,        \* whether a UDP rate is configured for iperf
    windows,    \* whether the host runs Windows, whose iperf is iperf2
    done,       \* how many steps of the workload are over
    metrics,    \* the names of the metrics, in order
    seconds,    \* the longest time that the steps so far may have taken
    requests,   \* the requests or runs that were made
    verdict     \* the status of the benchmark, "running" before it has one

workloadVars == <<benchmark, profile, cpus, udp, windows, done, metrics, seconds, requests, verdict>>

Benchmarks == {"cpu", "memory", "disk", "object-s3", "postgres-pgbench", "network-iperf",
               "network-internet"}
Quick == profile = "quick"
For(quick, standard) == IF Quick THEN quick ELSE standard

-----------------------------------------------------------------------------
(* The steps of each benchmark.  A step takes some time, at most that given (0 *)
(* when the code sets none), and some requests, and adds metrics if it         *)
(* succeeds; if it fails, most end the benchmark.                              *)

Step(time, sent, names) == [seconds |-> time, requests |-> sent, names |-> names, fatal |-> TRUE]

\* The step for each element of a sequence, in order.
Each(seq, StepsOf(_)) == FlattenSeq([i \in DOMAIN seq |-> StepsOf(seq[i])])

Include(result, value) ==
    IF value \in ToSet(result) THEN result ELSE Append(result, value)

\* Mutant of Unique: every number of clients is run.
UniqueNot(values) == values

Unique(values) ==
    LET result[i \in 0..Len(values)] ==
            IF i = 0 THEN <<>> ELSE Include(result[i - 1], values[i])
    IN  result[Len(values)]

Clients == Unique(For(<<1, cpus>>, <<1, cpus, IF 2 * cpus < 64 THEN 2 * cpus ELSE 64>>))

\* For each number of clients a warm-up and a measured run.
PgbenchRuns(workload) ==
    Each(Clients, LAMBDA clients :
        For(<<>>, <<Step(30, 0, <<>>)>>) \o <<Step(For(30, 120), 0, <<<<workload, clients>>>>)>>)

\* The initialization and the three workloads.
PgbenchSteps ==
    <<Step(0, 0, <<>>)>> \o Each(<<"tpcb_like", "select_only", "simple_update">>, PgbenchRuns)

Rounds == 1..For(1, 3)

\* trials for one worker and for all; the metrics come at the end.
CPUSteps ==
    [trial \in 1..(2 * For(1, 3)) |->
        Step(For(5, 30), 0, IF trial = 2 * For(1, 3) THEN <<<<"single">>, <<"multi">>, <<"scale">>>> ELSE <<>>)]

\* With one CPU "all workers" is measured under the name of one.
Mode(workers) == IF workers = 1 THEN "single" ELSE "multi"

MemoryRuns(operation) ==
    Each(<<1, cpus>>, LAMBDA workers :
        [trial \in Rounds |-> Step(0, 0, IF trial = For(1, 3) THEN <<<<Mode(workers), operation>>>> ELSE <<>>)])

MemorySteps == Each(<<"read", "write", "copy">>, MemoryRuns)

DiskSteps ==
    LET names == <<"sequential_read", "sequential_write", "random_read", "random_write">>
    IN  [i \in 1..4 |-> Step(For(5, 60), 0, <<<<names[i]>>>>)]

\* CreateBucket and the marker; the large object up and down; the small objects,
\* whose failures are counted and end nothing.
SmallRuns(concurrency) ==
    [i \in 1..2 |->
        [Step(0, For(100, 10000), <<<<<<"small_put", "small_get">>[i], concurrency>>>>) EXCEPT !.fatal = FALSE]]

S3Steps ==
    <<Step(0, 2, <<>>)>> \o
    [trial \in Rounds |-> Step(0, 2, IF trial = For(1, 3) THEN <<<<"large_upload">>, <<"large_download">>>> ELSE <<>>)] \o
    Each(<<"c1", "c32">>, SmallRuns)

\* iperf3 -R measures one direction; iperf2 -r, tradeoff mode, both in turn.
ReverseTime == IF windows THEN 2 * For(5, 30) ELSE For(5, 30)

\* The two directions report together.
IPerfRunsOf(streams) ==
    <<Step(For(5, 30), 1, <<>>), Step(ReverseTime, 1, <<<<"upload", streams>>, <<"download", streams>>>>)>>

IPerfSteps ==
    Each(<<"1_stream", "8_stream">>, IPerfRunsOf) \o
    (IF udp THEN <<Step(For(5, 30), 1, <<<<"udp_throughput">>, <<"udp_jitter">>, <<"udp_loss">>>>)>> ELSE <<>>)

\* The download and the upload, each within its own limit; one that is cut short
\* may still be complete enough to be summarized.
NDT7Steps == <<Step(60, 1, <<>>), Step(60, 1, <<<<"download_throughput">>, <<"upload_throughput">>>>)>>

Workload ==
    CASE benchmark = "cpu" -> CPUSteps
      [] benchmark = "memory" -> MemorySteps
      [] benchmark = "disk" -> DiskSteps
      [] benchmark = "object-s3" -> S3Steps
      [] benchmark = "postgres-pgbench" -> PgbenchSteps
      [] benchmark = "network-iperf" -> IPerfSteps
      [] benchmark = "network-internet" -> NDT7Steps

-----------------------------------------------------------------------------
(* Plan *)

\* Mutant of IPerfRuns: the UDP run is not announced.
IPerfRunsTCP == 4

IPerfRuns == IF udp THEN 5 ELSE 4

AnnouncedSeconds ==
    CASE benchmark = "cpu" -> For(10, 180)
      [] benchmark = "memory" -> For(5, 30)
      [] benchmark = "disk" -> For(20, 240)
      [] benchmark = "object-s3" -> For(60, 900)
      [] benchmark = "postgres-pgbench" -> For(180, 1500)
      [] benchmark = "network-iperf" -> IPerfRuns * For(5, 30)
      [] benchmark = "network-internet" -> 55

AnnouncedRequests ==
    CASE benchmark = "object-s3" -> For(404, 40008)
      [] benchmark = "network-iperf" -> IPerfRuns
      [] benchmark = "network-internet" -> 2
      [] OTHER -> 0

-----------------------------------------------------------------------------
(* Run *)

WorkloadTypeOK ==
    /\ benchmark \in Benchmarks /\ profile \in {"quick", "standard"}
    /\ cpus \in CPUs /\ udp \in BOOLEAN /\ windows \in BOOLEAN
    /\ done \in 0..Len(Workload)
    /\ seconds \in Nat /\ requests \in Nat
    /\ verdict \in {"running", "failing", "success", "failed"}

WorkloadInit ==
    /\ benchmark \in Benchmarks /\ profile \in {"quick", "standard"}
    /\ cpus \in CPUs /\ udp \in BOOLEAN /\ windows \in BOOLEAN
    /\ done = 0 /\ metrics = <<>> /\ seconds = 0 /\ requests = 0
    /\ verdict = "running"

Underway == verdict \in {"running", "failing"} /\ done < Len(Workload)

Spend(step, sent) ==
    /\ seconds' = seconds + step.seconds
    /\ requests' = requests + sent
    /\ UNCHANGED <<benchmark, profile, cpus, udp, windows>>

StepSucceeds ==
    /\ Underway
    /\ LET step == Workload[done + 1] IN
       Spend(step, step.requests) /\ metrics' = metrics \o step.names
    /\ done' = done + 1
    /\ UNCHANGED verdict

\* An error, or the run's context is done: with the code of this step and the
\* metrics so far.
StepFails ==
    /\ Underway
    /\ LET step == Workload[done + 1] IN
       /\ step.fatal
       /\ \E sent \in {0, step.requests} : Spend(step, sent)
    /\ verdict' = "failed"
    /\ UNCHANGED <<done, metrics>>

\* smallOperation counts the objects without a request as errors.
SomeRequestsFail ==
    /\ Underway
    /\ LET step == Workload[done + 1] IN
       /\ ~step.fatal
       /\ \E sent \in {0, step.requests} : Spend(step, sent)
       /\ metrics' = metrics \o step.names
    /\ done' = done + 1
    /\ verdict' = "failing"

WorkloadEnds ==
    /\ done = Len(Workload)
    /\ verdict' = IF verdict = "failing" THEN "failed" ELSE "success"
    /\ verdict \in {"running", "failing"}
    /\ UNCHANGED <<benchmark, profile, cpus, udp, windows, done, metrics, seconds, requests>>

WorkloadOver == verdict \in {"success", "failed"} /\ UNCHANGED workloadVars

WorkloadNext == StepSucceeds \/ StepFails \/ SomeRequestsFail \/ WorkloadEnds \/ WorkloadOver

WorkloadSpec == WorkloadInit /\ [][WorkloadNext]_workloadVars

-----------------------------------------------------------------------------
(* Properties *)

\* No two metrics of a benchmark have one name, whatever the number of CPUs
\* (unique in postgres); but for memory on a host with one.
NamesAreDistinct == IsInjective(metrics) \/ (benchmark = "memory" /\ cpus = 1)

\* How much longer than Plan announces two benchmarks may last: the reverse runs of
\* iperf2 measure the forward direction again, and NDT7 has 60 seconds each way.
Excess ==
    CASE benchmark = "network-iperf" /\ windows -> 2 * For(5, 30)
      [] benchmark = "network-internet" -> 2 * 60 - 55
      [] OTHER -> 0

\* What the user has approved is not exceeded, but for that: the steps whose
\* duration is given take no longer than Plan has announced, the requests are no
\* more, and a benchmark that succeeds makes all of them (Plan, the DefaultSpecs).
PlanCoversTheRun ==
    /\ seconds <= AnnouncedSeconds + Excess
    /\ requests <= AnnouncedRequests
    /\ verdict = "success" => requests = AnnouncedRequests
=============================================================================
