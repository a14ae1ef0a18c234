-------------------------- MODULE MeasurementProofs --------------------------
(***************************************************************************)
(* What two benchmarks report is what they did: the blocks that the disk   *)
(* fallback counts, for every file size and any number of operations, and  *)
(* the labels of the ClickBench trials, for any number of queries and      *)
(* trials.                                                                 *)
(***************************************************************************)
EXTENDS DiskWorkload, ClickBench, TLAPS

(* The disk benchmark *)

\* Between the workloads the buffer is empty, and only sequential_write fills it.
BufferInv == buffered => workload = 2 /\ stage \in {"measuring", "failed"}

\* Every counted block of a write is in the file, in the buffer or dropped at the
\* end of a pass.
AccountInv ==
    stage \in {"measuring", "measured"} =>
        /\ ~Writes => reached = 0
        /\ Writes /\ ~Random => counted - reached = passes + Flushed
        /\ Writes /\ Random => counted = reached

\* The sequential workloads are where they believe to be; sequential_write may be
\* ahead by what sequential_read has left, which is less than a pass.
PlaceInv ==
    /\ length < 2 * FileBlocks
    /\ stage = "prepare" => workload = 1 /\ position = 0 /\ offset = 0 /\ reached = 0
    /\ workload = 1 /\ stage \in {"measuring", "measured"} => length = FileBlocks /\ position < FileBlocks
    /\ workload = 1 /\ stage = "measuring" => position = offset
    /\ workload = 2 /\ stage = "measuring" => position + Flushed <= offset + (FileBlocks - 1)

DiskInv == DiskTypeOK /\ BufferInv /\ AccountInv /\ PlaceInv

-----------------------------------------------------------------------------
\* Max of two numbers is the larger one.
LEMMA LargerOfTwo ==
    ASSUME NEW a \in Nat, NEW b \in Nat
    PROVE  /\ Max({a, b}) \in {a, b}
           /\ Max({a, b}) >= a /\ Max({a, b}) >= b
<1>1. \E x \in {a, b} : \A y \in {a, b} : x >= y
  <2>1. CASE a >= b
    BY <2>1
  <2>2. CASE ~(a >= b)
    BY <2>2
  <2> QED BY <2>1, <2>2
<1>2. Max({a, b}) \in {a, b} /\ \A y \in {a, b} : Max({a, b}) >= y
    BY <1>1 DEF Max
<1> QED BY <1>2

\* A flush writes at most one block and never shortens the file.
LEMMA FlushFacts ==
    ASSUME DiskTypeOK
    PROVE  /\ Flushed \in {0, 1}
           /\ position \in Nat /\ position + Flushed \in 0..Grown
           /\ Grown \in {length, position + Flushed} /\ Grown \in Nat /\ Grown >= length
<1>1. length \in Nat /\ position \in Nat /\ position + Flushed \in Nat /\ Flushed \in {0, 1}
    BY DEF DiskTypeOK, Flushed
<1> QED BY <1>1, LargerOfTwo DEF Grown

LEMMA DiskInitInv == DiskInit => DiskInv
<1> SUFFICES ASSUME DiskInit PROVE DiskInv
    OBVIOUS
<1>1. DiskTypeOK
  <2>1. 0 \in 0..0 /\ 0 \in 0..(FileBlocks - 1) /\ 0 \in 0..MaxOperations
    BY FileBlocksAssumption, MaxOperationsAssumption
  <2>2. workload \in 1..4 /\ length \in Nat
    BY DEF DiskInit
  <2>3. position \in 0..length /\ reached \in 0..counted /\ passes \in 0..counted
    BY <2>1 DEF DiskInit
  <2> QED BY <2>1, <2>2, <2>3 DEF DiskInit, DiskTypeOK
<1>2. BufferInv /\ AccountInv /\ PlaceInv
    BY FileBlocksAssumption DEF DiskInit, BufferInv, AccountInv, PlaceInv
<1> QED BY <1>1, <1>2 DEF DiskInv

LEMMA PrepareInv == ASSUME DiskInv, Prepare PROVE DiskInv'
<1> USE FileBlocksAssumption, MaxOperationsAssumption DEF DiskInv, Prepare
<1>1. DiskTypeOK' /\ BufferInv'
    BY DEF DiskTypeOK, BufferInv, PlaceInv
<1>2. AccountInv'
    BY DEF AccountInv, PlaceInv, Writes
<1>3. PlaceInv'
    BY DEF PlaceInv, DiskTypeOK, Flushed
<1> QED BY <1>1, <1>2, <1>3

\* The test for the end of the file keeps the offset inside it and counts the pass.
LEMMA AdvanceFacts ==
    ASSUME NEW ahead \in 1..FileBlocks, DiskTypeOK, Measuring, Advance(ahead)
    PROVE  /\ stage' = "measuring" /\ workload' = workload
           /\ counted' = counted + 1 /\ counted' \in 0..MaxOperations
           /\ offset' \in 0..(FileBlocks - 1)
           /\ Rewound(ahead) => offset' = 0 /\ passes' = passes + 1
           /\ ~Rewound(ahead) => offset' = ahead /\ passes' = passes
           /\ passes' \in 0..counted'
BY FileBlocksAssumption, MaxOperationsAssumption DEF DiskTypeOK, Measuring, Advance, Rewound

\* The position is the offset and both are inside the file: the read is counted.
LEMMA ReadSequentiallyInv == ASSUME DiskInv, ReadSequentially PROVE DiskInv'
<1> USE FileBlocksAssumption DEF DiskInv, ReadSequentially
<1>1. workload = 1 /\ stage = "measuring" /\ ~buffered
    BY DEF DiskTypeOK, Writes, Random, Measuring, BufferInv
<1>2. position = offset /\ position \in 0..(FileBlocks - 1) /\ length = FileBlocks
    BY <1>1 DEF PlaceInv, DiskTypeOK
<1>3. Advance(offset + 1) /\ position' = IF Rewound(offset + 1) THEN 0 ELSE position + 1
    BY <1>2
<1>4. offset + 1 \in 1..FileBlocks
    BY <1>2
<1>5. /\ stage' = "measuring" /\ workload' = 1 /\ position' = offset'
      /\ offset' \in 0..(FileBlocks - 1)
      /\ counted' \in 0..MaxOperations /\ counted' = counted + 1 /\ passes' \in 0..counted'
    BY <1>1, <1>2, <1>3, <1>4, AdvanceFacts
<1>6. DiskTypeOK' /\ BufferInv'
    BY <1>1, <1>2, <1>5 DEF DiskTypeOK, BufferInv
<1>7. AccountInv'
    BY <1>1, <1>5 DEF AccountInv, Writes
<1>8. PlaceInv'
    BY <1>2, <1>5 DEF PlaceInv
<1> QED BY <1>6, <1>7, <1>8

\* A block enters the buffer, or is dropped with it at the end of the pass.
LEMMA WriteSequentiallyInv == ASSUME DiskInv, WriteSequentially PROVE DiskInv'
<1> USE FileBlocksAssumption DEF DiskInv, WriteSequentially
<1>1. workload = 2 /\ stage = "measuring"
    BY DEF DiskTypeOK, Writes, Random, Measuring
<1>2. offset + 1 \in 1..FileBlocks
    BY DEF DiskTypeOK
<1>3. /\ stage' = "measuring" /\ workload' = 2 /\ offset' \in 0..(FileBlocks - 1)
      /\ counted' \in 0..MaxOperations /\ counted' = counted + 1 /\ passes' \in 0..counted'
      /\ Rewound(offset + 1) => offset' = 0 /\ passes' = passes + 1
      /\ ~Rewound(offset + 1) => offset' = offset + 1 /\ passes' = passes
    BY <1>1, <1>2, AdvanceFacts
<1>4. counted - reached = passes + Flushed
    BY <1>1 DEF AccountInv, Writes, Random
<1>5. Flushed' = (IF Rewound(offset + 1) THEN 0 ELSE 1) /\ buffered' \in BOOLEAN
    BY DEF Flushed
<1>6. counted' - reached' = passes' + Flushed'
    BY <1>3, <1>4, <1>5, FlushFacts DEF DiskTypeOK
<1>7. reached' \in 0..counted'
    BY <1>3, <1>5, <1>6, FlushFacts DEF DiskTypeOK
<1>8. length' \in Nat /\ position' \in 0..length'
    BY FlushFacts DEF DiskTypeOK
<1>9. length' < 2 * FileBlocks
    BY <1>1, FlushFacts DEF PlaceInv, DiskTypeOK
<1>10. position' + Flushed' <= offset' + (FileBlocks - 1)
    BY <1>1, <1>3, <1>5, FlushFacts DEF PlaceInv, DiskTypeOK
<1>11. DiskTypeOK' /\ BufferInv'
    BY <1>3, <1>5, <1>7, <1>8 DEF DiskTypeOK, BufferInv
<1>12. AccountInv' /\ PlaceInv'
    BY <1>3, <1>6, <1>9, <1>10 DEF AccountInv, PlaceInv, Writes, Random
<1> QED BY <1>11, <1>12

\* Each block is read or written at once; the position is only ever set back.
LEMMA AccessRandomlyInv == ASSUME DiskInv, AccessRandomly PROVE DiskInv'
<1> USE FileBlocksAssumption DEF DiskInv, AccessRandomly
<1>1. workload \in {3, 4} /\ stage = "measuring" /\ ~buffered
    BY DEF Random, Measuring, BufferInv
<1>2. PICK block \in 0..(FileBlocks - 1) :
        Advance(block + 1) /\ position' = IF Rewound(block + 1) THEN 0 ELSE position
    OBVIOUS
<1>3. /\ stage' = "measuring" /\ workload' = workload /\ offset' \in 0..(FileBlocks - 1)
      /\ counted' \in 0..MaxOperations /\ counted' = counted + 1 /\ passes' \in 0..counted'
    BY <1>1, <1>2, AdvanceFacts
<1>4. reached \in 0..counted /\ reached' \in 0..counted'
    BY <1>3 DEF DiskTypeOK
<1>5. position' \in 0..length
    BY <1>2 DEF DiskTypeOK
<1>6. DiskTypeOK' /\ BufferInv'
    BY <1>1, <1>3, <1>4, <1>5 DEF DiskTypeOK, BufferInv
<1>7. AccountInv'
    BY <1>1, <1>3, <1>4 DEF AccountInv, Writes, Random
<1>8. PlaceInv'
    BY <1>1, <1>3 DEF PlaceInv
<1> QED BY <1>6, <1>7, <1>8

\* The last flush of sequential_write; the other workloads have nothing to flush.
LEMMA TimeIsUpInv == ASSUME DiskInv, TimeIsUp PROVE DiskInv'
<1> USE FileBlocksAssumption DEF DiskInv, TimeIsUp
<1>1. workload # 2 => Flushed = 0
    BY DEF BufferInv, Flushed
<1>2. Flushed' = 0 /\ ~buffered'
    BY DEF Flushed
<1>3. workload = 2 => counted' - reached' = passes'
    BY FlushFacts DEF AccountInv, Writes, Random, DiskTypeOK
<1>4. workload # 2 => reached' = reached /\ position' = position /\ length' = length
    BY <1>1, FlushFacts DEF DiskTypeOK
<1>5. reached' \in 0..counted
    BY <1>3, <1>4, FlushFacts DEF DiskTypeOK
<1>6. DiskTypeOK' /\ BufferInv'
    BY <1>2, <1>5, FlushFacts DEF DiskTypeOK, BufferInv
<1>7. AccountInv'
    BY <1>2, <1>3, <1>4 DEF AccountInv, Writes, Random, DiskTypeOK
<1>8. PlaceInv'
    BY <1>4, FlushFacts DEF PlaceInv, DiskTypeOK
<1> QED BY <1>6, <1>7, <1>8

LEMMA FailsInv == ASSUME DiskInv, Fails PROVE DiskInv'
BY DEF DiskInv, Fails, DiskTypeOK, BufferInv, AccountInv, PlaceInv

\* The next workload starts with an empty buffer, where the last one has stopped.
LEMMA NextWorkloadInv == ASSUME DiskInv, NextWorkload PROVE DiskInv'
<1> USE FileBlocksAssumption, MaxOperationsAssumption DEF DiskInv, NextWorkload
<1>1. ~buffered /\ Flushed' = 0
    BY DEF BufferInv, Flushed
<1>2. workload' \in 1..4 /\ (stage' = "measuring" => workload' = workload + 1) /\ stage' \in {"measuring", "done"}
    BY DEF DiskTypeOK
<1>3. DiskTypeOK' /\ BufferInv'
    BY <1>1, <1>2 DEF DiskTypeOK, BufferInv
<1>4. AccountInv'
    BY <1>1 DEF AccountInv
<1>5. PlaceInv'
    BY <1>1, <1>2 DEF PlaceInv, DiskTypeOK
<1> QED BY <1>3, <1>4, <1>5

LEMMA DiskNextInv == DiskInv /\ [DiskNext]_diskVars => DiskInv'
<1> SUFFICES ASSUME DiskInv, [DiskNext]_diskVars PROVE DiskInv'
    OBVIOUS
<1>1. CASE UNCHANGED diskVars
    BY <1>1 DEF diskVars, DiskInv, DiskTypeOK, BufferInv, AccountInv, PlaceInv, Writes, Random, Flushed
<1> QED BY <1>1, PrepareInv, ReadSequentiallyInv, WriteSequentiallyInv, AccessRandomlyInv, TimeIsUpInv,
           FailsInv, NextWorkloadInv DEF DiskNext, DiskOver

\* DiskInv holds in every reachable state, for every file size.
THEOREM DiskInvariantHolds == DiskSpec => []DiskInv
BY DiskInitInv, DiskNextInv, PTL DEF DiskSpec

\* sequential_write counts one block too many for each pass through the file, and
\* none else; random_write counts what it writes (measureBuiltin).
THEOREM LosesOneBlockPerPassHolds == DiskSpec => []LosesOneBlockPerPass
<1>1. DiskInv => LosesOneBlockPerPass
  <2> SUFFICES ASSUME DiskInv, stage = "measured", Writes
               PROVE  counted - reached = IF Random THEN 0 ELSE passes
      BY DEF LosesOneBlockPerPass
  <2>1. Flushed = 0
    BY DEF DiskInv, BufferInv, Flushed
  <2> QED BY <2>1 DEF DiskInv, AccountInv, DiskTypeOK
<1> QED BY <1>1, DiskInvariantHolds, PTL

\* The file stays below twice its size and sequential_read never meets its end,
\* for every file size and any number of operations (measureBuiltin).
THEOREM StaysInTheFileHolds == DiskSpec => []StaysInTheFile
<1>1. DiskInv => StaysInTheFile
  <2> SUFFICES ASSUME DiskInv PROVE StaysInTheFile
      OBVIOUS
  <2>1. length < Max({2 * FileBlocks, 2})
    BY FileBlocksAssumption, LargerOfTwo DEF DiskInv, DiskTypeOK, PlaceInv
  <2>2. ~Writes /\ ~Random /\ stage = "measuring" => position = offset /\ position < length
    BY FileBlocksAssumption DEF DiskInv, DiskTypeOK, PlaceInv, Writes, Random
  <2> QED BY <2>1, <2>2 DEF StaysInTheFile
<1> QED BY <1>1, DiskInvariantHolds, PTL

-----------------------------------------------------------------------------
(* The ClickBench queries *)

\* An eviction is worth asking for until the user has been warned, which happens
\* at most once and not later than the query at hand.
WarnedInv ==
    /\ coldAvailable <=> cacheMode = "true-cold" /\ warnedAt = <<>>
    /\ Len(warnedAt) <= 1
    /\ \A j \in DOMAIN warnedAt : warnedAt[j] <= query

\* The label of the trial that is about to run.
LabelInv ==
    outcome = "none" =>
        /\ trial < Trials
        /\ phase # "none" => query <= Queries
        /\ phase # "none" => (phase = "hot" <=> trial > 0)
        /\ phase = "cold" => ~warm
        /\ phase # "none" => (phase = "cold" <=> /\ trial = 0
                                                /\ cacheMode = "true-cold"
                                                /\ \A j \in DOMAIN warnedAt : query < warnedAt[j])

\* The trials before this one: of earlier queries, and of this one if it is not
\* the first.
OrderInv ==
    /\ \A i \in DOMAIN labelled : labelled[i].query <= query
    /\ trial > 0 => labelled # <<>> /\ labelled[Len(labelled)].query = query
    /\ trial = 0 => \A i \in DOMAIN labelled : labelled[i].query < query
    /\ trial = 0 /\ phase = "none" => \A j \in DOMAIN warnedAt : warnedAt[j] < query

QueryInv == ClickBenchTypeOK /\ WarnedInv /\ LabelInv /\ OrderInv /\ LabelsAreTrue

-----------------------------------------------------------------------------
LEMMA ClickBenchInitInv == ClickBenchInit => QueryInv
<1> SUFFICES ASSUME ClickBenchInit PROVE QueryInv
    OBVIOUS
<1>1. ClickBenchTypeOK
    BY TrialsAssumption DEF ClickBenchInit, ClickBenchTypeOK, Labels
<1>2. DOMAIN labelled = {} /\ DOMAIN warnedAt = {} /\ Len(warnedAt) = 0 /\ trial = 0
    BY DEF ClickBenchInit
<1>3. coldAvailable <=> cacheMode = "true-cold" /\ warnedAt = <<>>
    BY Zenon DEF ClickBenchInit
<1>4. WarnedInv /\ OrderInv /\ LabelsAreTrue
  <2>1. WarnedInv
    BY <1>2, <1>3 DEF WarnedInv
  <2>2. OrderInv
    BY <1>2 DEF OrderInv
  <2>3. LabelsAreTrue
    BY <1>2 DEF LabelsAreTrue
  <2> QED BY <2>1, <2>2, <2>3
<1>5. LabelInv
    BY TrialsAssumption DEF ClickBenchInit, LabelInv
<1> QED BY <1>1, <1>4, <1>5 DEF QueryInv

\* The other first trials are lukewarm: the mode or a warning says so.
LEMMA WithoutEvictionInv == ASSUME QueryInv, WithoutEviction PROVE QueryInv'
<1> USE TrialsAssumption DEF QueryInv, WithoutEviction, AtTrial
<1>1. ClickBenchTypeOK'
    BY DEF ClickBenchTypeOK, Labels
<1>2. WarnedInv' /\ OrderInv' /\ LabelsAreTrue'
    BY DEF WarnedInv, OrderInv, LabelsAreTrue
<1>3. LabelInv'
  <2>1. CASE trial > 0 /\ phase' = "hot"
    BY <2>1 DEF LabelInv, ClickBenchTypeOK
  <2>2. CASE trial = 0 /\ ~coldAvailable /\ phase' = "lukewarm"
    <3>1. cacheMode = "true-cold" => warnedAt # <<>>
      BY <2>2 DEF WarnedInv
    <3>2. cacheMode = "true-cold" => \E j \in DOMAIN warnedAt : ~(query < warnedAt[j])
      BY <3>1, <2>2 DEF WarnedInv, ClickBenchTypeOK
    <3> QED BY <2>2, <3>2 DEF LabelInv, ClickBenchTypeOK
  <2> QED BY <2>1, <2>2
<1> QED BY <1>1, <1>2, <1>3

\* A refusal is the first one; the trials before it belong to earlier queries.
LEMMA EvictInv == ASSUME QueryInv, Evict PROVE QueryInv'
<1> USE TrialsAssumption DEF QueryInv, Evict, AtTrial
<1>1. warnedAt = <<>> /\ trial = 0 /\ query \in 1..Queries
    BY DEF WarnedInv, ClickBenchTypeOK
<1>2. CASE phase' = "cold" /\ warm' = FALSE /\ UNCHANGED <<coldAvailable, warnedAt>>
  <2>1. ClickBenchTypeOK'
    BY <1>2 DEF ClickBenchTypeOK, Labels
  <2>2. WarnedInv' /\ LabelInv' /\ OrderInv' /\ LabelsAreTrue'
    BY <1>1, <1>2 DEF WarnedInv, LabelInv, OrderInv, LabelsAreTrue
  <2> QED BY <2>1, <2>2
<1>3. CASE /\ phase' = "lukewarm" /\ warm' \in {FALSE, warm}
           /\ coldAvailable' = FALSE
           /\ warnedAt' = Append(warnedAt, query)
  <2>1. warnedAt' = <<query>> /\ Len(warnedAt') = 1 /\ DOMAIN warnedAt' = {1} /\ warnedAt'[1] = query
    BY <1>1, <1>3
  <2>2. ClickBenchTypeOK'
    <3>1. warnedAt' \in Seq(1..Queries)
      BY <1>1, <2>1
    <3>2. phase' \in Labels \union {"none"} /\ warm' \in BOOLEAN /\ coldAvailable' \in BOOLEAN
      BY <1>3 DEF ClickBenchTypeOK, Labels
    <3> QED BY <3>1, <3>2 DEF ClickBenchTypeOK
  <2>3. WarnedInv' /\ LabelInv' /\ OrderInv'
    BY <1>1, <1>3, <2>1 DEF WarnedInv, LabelInv, OrderInv
  <2>4. LabelsAreTrue'
    BY <1>1, <1>3, <2>1 DEF LabelsAreTrue, OrderInv
  <2> QED BY <2>2, <2>3, <2>4
<1> QED BY <1>2, <1>3

\* The trial is labelled with what LabelInv says of it.
LEMMA RunQueryInv == ASSUME QueryInv, RunQuery PROVE QueryInv'
<1> DEFINE last == [query |-> query, trial |-> trial, phase |-> phase, warm |-> warm]
           n == Len(labelled)
           Trial == [query : 1..Queries, trial : 0..(Trials - 1), phase : Labels, warm : BOOLEAN]
<1>1. query \in 1..Queries /\ trial \in 0..(Trials - 1) /\ phase \in Labels /\ warm \in BOOLEAN
    BY TrialsAssumption DEF QueryInv, RunQuery, LabelInv, ClickBenchTypeOK
<1>2. last \in Trial /\ last.query = query /\ last.trial = trial /\ last.phase = phase /\ last.warm = warm
    BY <1>1
<1>3. labelled \in Seq(Trial) /\ labelled' = Append(labelled, last)
    BY DEF QueryInv, ClickBenchTypeOK, RunQuery
<1> HIDE DEF last, Trial
<1>4. /\ n \in Nat /\ DOMAIN labelled = 1..n /\ (labelled # <<>> <=> n > 0)
      /\ DOMAIN labelled' = 1..(n + 1) /\ Len(labelled') = n + 1 /\ labelled'[n + 1] = last
      /\ \A i \in 1..n : labelled'[i] = labelled[i]
      /\ labelled' \in Seq(Trial) /\ labelled' # <<>>
    BY <1>2, <1>3
<1>5. \A i \in 1..n : labelled[i].query \in Int
  <2>1. \A i \in 1..n : labelled[i] \in Trial
    BY <1>3, <1>4
  <2> QED BY <2>1 DEF Trial
<1> HIDE DEF n
<1>6. /\ query' \in 1..(Queries + 1) /\ trial' \in 0..(Trials - 1)
      /\ trial' > 0 => query' = query
      /\ trial' = 0 => query' = query + 1
      /\ phase' = "none" /\ warm' = TRUE
    BY <1>1, TrialsAssumption DEF RunQuery
<1>7. UNCHANGED <<cacheMode, coldAvailable, warnedAt, outcome>>
    BY DEF RunQuery
<1>8. /\ Len(warnedAt) <= 1
      /\ \A j \in DOMAIN warnedAt : warnedAt[j] <= query /\ warnedAt[j] \in Int
  <2>1. \A j \in DOMAIN warnedAt : warnedAt[j] \in 1..Queries
    <3> DEFINE Q == 1..Queries
    <3>1. warnedAt \in Seq(Q)
      BY DEF QueryInv, ClickBenchTypeOK
    <3> HIDE DEF Q
    <3>2. \A j \in DOMAIN warnedAt : warnedAt[j] \in Q
      BY <3>1
    <3> QED BY <3>2 DEF Q
  <2> QED BY <2>1, TrialsAssumption DEF QueryInv, WarnedInv
<1>9. ClickBenchTypeOK'
    BY <1>4, <1>6, <1>7, TrialsAssumption DEF QueryInv, ClickBenchTypeOK, Trial
<1>10. WarnedInv' /\ LabelInv'
    BY <1>1, <1>6, <1>7, <1>8, TrialsAssumption DEF QueryInv, WarnedInv, LabelInv
<1>11. OrderInv'
  <2>1. \A i \in 1..(n + 1) : labelled'[i].query <= query /\ labelled'[i].query \in Int
    BY <1>1, <1>2, <1>4, <1>5 DEF QueryInv, OrderInv
  <2> QED BY <1>1, <1>2, <1>4, <1>6, <1>7, <1>8, <2>1 DEF OrderInv
<1>12. LabelsAreTrue'
  <2> DEFINE TrueLabel(it, follows) ==
                /\ it.phase = "cold" => ~it.warm
                /\ it.phase = "hot" <=> follows
                /\ it.phase = "cold" <=> /\ it.trial = 0
                                         /\ cacheMode = "true-cold"
                                         /\ \A j \in DOMAIN warnedAt : it.query < warnedAt[j]
  <2>1. \A i \in 1..n : TrueLabel(labelled'[i], i > 1 /\ labelled'[i - 1].query = labelled'[i].query)
    <3> SUFFICES ASSUME NEW i \in 1..n
                 PROVE  TrueLabel(labelled'[i], i > 1 /\ labelled'[i - 1].query = labelled'[i].query)
        OBVIOUS
    <3>1. labelled'[i] = labelled[i] /\ (i > 1 => labelled'[i - 1] = labelled[i - 1])
      BY <1>4
    <3>2. TrueLabel(labelled[i], i > 1 /\ labelled[i - 1].query = labelled[i].query)
      BY <1>4 DEF QueryInv, LabelsAreTrue
    <3> HIDE DEF TrueLabel
    <3>3. (i > 1 /\ labelled'[i - 1].query = labelled'[i].query)
            = (i > 1 /\ labelled[i - 1].query = labelled[i].query)
      BY <3>1, Zenon
    <3> QED BY <3>1, <3>2, <3>3, Zenon
  <2>2. TrueLabel(last, trial > 0)
    BY <1>1, <1>2, TrialsAssumption DEF QueryInv, RunQuery, LabelInv, Labels
  <2>3. trial > 0 <=> n + 1 > 1 /\ labelled'[(n + 1) - 1].query = query
    <3>1. n > 0 => (n + 1) - 1 = n /\ labelled'[n] = labelled[n]
      BY <1>4
    <3>2. trial = 0 /\ n > 0 => labelled[n].query # query
      BY <1>1, <1>4, <1>5 DEF QueryInv, OrderInv
    <3>3. trial > 0 => n > 0 /\ labelled[n].query = query
      BY <1>4 DEF QueryInv, OrderInv, n
    <3>4. trial > 0 \/ trial = 0
      BY <1>1, TrialsAssumption
    <3>5. n = 0 \/ n > 0
      BY <1>4
    <3> QED BY <1>4, <3>1, <3>2, <3>3, <3>4, <3>5
  <2>4. TrueLabel(labelled'[n + 1], n + 1 > 1 /\ labelled'[(n + 1) - 1].query = labelled'[n + 1].query)
    BY <1>2, <1>4, <2>2, <2>3
  <2>5. \A i \in 1..(n + 1) : i = n + 1 \/ i \in 1..n
    BY <1>4
  <2>6. \A i \in 1..(n + 1) :
            TrueLabel(labelled'[i], i > 1 /\ labelled'[i - 1].query = labelled'[i].query)
    <3> HIDE DEF TrueLabel
    <3> QED BY <2>1, <2>4, <2>5
  <2> QED BY <1>4, <1>7, <1>8, <2>6 DEF LabelsAreTrue
<1> QED BY <1>9, <1>10, <1>11, <1>12 DEF QueryInv

LEMMA QueryEndsInv == ASSUME QueryInv, QueryFails \/ AllQueriesRun PROVE QueryInv'
<1>1. ClickBenchTypeOK'
    BY DEF QueryInv, QueryFails, AllQueriesRun, ClickBenchTypeOK
<1>2. /\ UNCHANGED <<cacheMode, query, trial, phase, coldAvailable, labelled, warnedAt>>
      /\ outcome' # "none"
    BY DEF QueryFails, AllQueriesRun
<1>3. WarnedInv' /\ LabelInv'
    BY <1>2 DEF QueryInv, WarnedInv, LabelInv
<1>4. OrderInv' /\ LabelsAreTrue'
    BY <1>2 DEF QueryInv, OrderInv, LabelsAreTrue
<1> QED BY <1>1, <1>3, <1>4 DEF QueryInv

LEMMA ClickBenchNextInv == QueryInv /\ [ClickBenchNext]_queryVars => QueryInv'
<1> SUFFICES ASSUME QueryInv, [ClickBenchNext]_queryVars PROVE QueryInv'
    OBVIOUS
<1>1. CASE UNCHANGED queryVars
    BY <1>1 DEF queryVars, QueryInv, ClickBenchTypeOK, WarnedInv, LabelInv, OrderInv, LabelsAreTrue
<1> QED BY <1>1, WithoutEvictionInv, EvictInv, RunQueryInv, QueryEndsInv DEF ClickBenchNext, ClickBenchOver

\* QueryInv holds in every reachable state, for any number of queries and trials.
THEOREM QueryInvariantHolds == ClickBenchSpec => []QueryInv
BY ClickBenchInitInv, ClickBenchNextInv, PTL DEF ClickBenchSpec

\* Cold, lukewarm and hot are what the labels say, and so is the one warning
\* (clickBenchPhase, RunClickBench).
THEOREM LabelsAreTrueHolds == ClickBenchSpec => []LabelsAreTrue
<1>1. QueryInv => LabelsAreTrue
    BY DEF QueryInv
<1> QED BY <1>1, QueryInvariantHolds, PTL
====
