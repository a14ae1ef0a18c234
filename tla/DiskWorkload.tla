---------------------------- MODULE DiskWorkload ----------------------------
(***************************************************************************)
(* The disk benchmark without fio: runBuiltin and measureBuiltin            *)
(* (internal/bench/disk).  Four workloads share one file and its position;  *)
(* each counts blocks until its time is up.  The sequential ones read and   *)
(* write through buffers of exactly one block, and start again at the front *)
(* of the file when they have gone through it.                              *)
(***************************************************************************)
EXTENDS Integers, FiniteSetsExt

CONSTANTS
    FileBlocks,     \* Spec.FileSize, in blocks
    MaxOperations   \* a bound on the blocks that fit into spec.Duration

ASSUME FileBlocksAssumption == FileBlocks \in Nat \ {0}
ASSUME MaxOperationsAssumption == MaxOperations \in Nat

VARIABLES
    stage,      \* "prepare", "measuring", "measured", "done" or "failed"
    workload,   \* the index of the workload, 1 to 4
    length,     \* how many blocks the file has
    position,   \* the position of the file descriptor
    offset,     \* where the workload believes to be
    buffered,   \* the bufio.Writer holds a block
    counted,    \* operations
    reached,    \* the blocks of the workload that were written to the file
    passes      \* how often the workload came to the end of the file

diskVars == <<stage, workload, length, position, offset, buffered, counted, reached, passes>>

\* sequential_read, sequential_write, random_read, random_write.
Writes == workload \in {2, 4}
Random == workload \in {3, 4}

DiskTypeOK ==
    /\ stage \in {"prepare", "measuring", "measured", "done", "failed"}
    /\ workload \in 1..4
    /\ length \in Nat /\ position \in 0..length
    /\ offset \in 0..(FileBlocks - 1)
    /\ buffered \in BOOLEAN
    /\ counted \in 0..MaxOperations /\ reached \in 0..counted /\ passes \in 0..counted

DiskInit ==
    /\ stage = "prepare"
    /\ workload = 1
    /\ length = 0 /\ position = 0 /\ offset = 0
    /\ buffered = FALSE
    /\ counted = 0 /\ reached = 0 /\ passes = 0

\* os.CreateTemp and Truncate: the file has its size and no data.
Prepare ==
    /\ stage = "prepare"
    /\ \/ length' = FileBlocks /\ stage' = "measuring"
       \/ UNCHANGED length /\ stage' = "failed"
    /\ UNCHANGED <<workload, position, offset, buffered, counted, reached, passes>>

-----------------------------------------------------------------------------
(* measureBuiltin *)

\* The blocks that a flush of the writer puts at the position, and the length
\* of the file after it.
Flushed == IF buffered THEN 1 ELSE 0
Grown == Max({length, position + Flushed})

Measuring == stage = "measuring" /\ counted < MaxOperations

\* Mutant of Rewound: the test is made one block too late.
RewoundLate(ahead) == ahead > FileBlocks

\* The test for the end of the file after each operation.
Rewound(ahead) == ahead + 1 > FileBlocks

\* offset += count, and Seek and Reset at the end: the buffered block is dropped.
Advance(ahead) ==
    /\ counted' = counted + 1
    /\ offset' = IF Rewound(ahead) THEN 0 ELSE ahead
    /\ passes' = IF Rewound(ahead) THEN passes + 1 ELSE passes
    /\ UNCHANGED <<stage, workload>>

\* io.ReadFull with a buffer of one block reads one block.  At the end of the
\* file it starts again without counting.
ReadSequentially ==
    /\ Measuring /\ ~Writes /\ ~Random
    /\ IF position < length
       THEN /\ Advance(offset + 1)
            /\ position' = IF Rewound(offset + 1) THEN 0 ELSE position + 1
       ELSE position' = 0 /\ UNCHANGED <<stage, workload, offset, counted, passes>>
    /\ UNCHANGED <<length, buffered, reached>>

\* writer.Write: the block stays in the buffer, and the one before it is
\* written to make room.
WriteSequentially ==
    /\ Measuring /\ Writes /\ ~Random
    /\ length' = Grown
    /\ reached' = reached + Flushed
    /\ position' = IF Rewound(offset + 1) THEN 0 ELSE position + Flushed
    /\ buffered' = ~Rewound(offset + 1)
    /\ Advance(offset + 1)

\* ReadAt and WriteAt do not move the file position, but the test for the end
\* of the file does.
AccessRandomly ==
    /\ Measuring /\ Random
    /\ \E block \in 0..(FileBlocks - 1) :
        /\ Advance(block + 1)
        /\ position' = IF Rewound(block + 1) THEN 0 ELSE position
    /\ reached' = IF Writes THEN reached + 1 ELSE reached
    /\ UNCHANGED <<length, buffered>>

\* Mutant of TimeIsUp: the last block stays in the buffer.
TimeIsUpUnflushed ==
    /\ stage = "measuring"
    /\ stage' = "measured"
    /\ buffered' = FALSE
    /\ UNCHANGED <<workload, length, position, offset, counted, reached, passes>>

\* Flush and Sync, at any time.
TimeIsUp ==
    /\ stage = "measuring"
    /\ length' = Grown
    /\ reached' = reached + Flushed
    /\ position' = position + Flushed
    /\ buffered' = FALSE
    /\ stage' = "measured"
    /\ UNCHANGED <<workload, offset, counted, passes>>

\* The context is done, or an operation, the flush or the sync fails.
Fails ==
    /\ stage = "measuring"
    /\ stage' = "failed"
    /\ UNCHANGED <<workload, length, position, offset, buffered, counted, reached, passes>>

\* runBuiltin goes to the next workload: fresh buffers, but the same file, at
\* the position where it is.
NextWorkload ==
    /\ stage = "measured"
    /\ IF workload < 4 THEN workload' = workload + 1 /\ stage' = "measuring"
                       ELSE stage' = "done" /\ UNCHANGED workload
    /\ offset' = 0 /\ counted' = 0 /\ reached' = 0 /\ passes' = 0
    /\ UNCHANGED <<length, position, buffered>>

DiskOver == stage \in {"done", "failed"} /\ UNCHANGED diskVars

DiskNext ==
    \/ Prepare \/ ReadSequentially \/ WriteSequentially \/ AccessRandomly
    \/ TimeIsUp \/ Fails \/ NextWorkload \/ DiskOver

DiskSpec == DiskInit /\ [][DiskNext]_diskVars

-----------------------------------------------------------------------------
(* Properties *)

\* The counted blocks are the written ones, but for the one block that is
\* dropped each time sequential_write comes to the end of the file
\* (writer.Reset in measureBuiltin); random_write loses nothing.
LosesOneBlockPerPass ==
    stage = "measured" /\ Writes => counted - reached = IF Random THEN 0 ELSE passes

\* The file never doubles, although sequential_write starts where
\* sequential_read has stopped, and no read meets the end of the file: no
\* iteration is spent without an operation (the test for the end of the file).
StaysInTheFile ==
    /\ length < Max({2 * FileBlocks, 2})
    /\ ~Writes /\ ~Random /\ stage = "measuring" => position = offset /\ position < length

\* docs/benchmark-contract.md: the fallback is a "sequential 1 MiB read/write":
\* a block that sequential_write_throughput counts has been written.
CountsWhatIsWritten == stage = "measured" /\ Writes => counted = reached
=============================================================================
