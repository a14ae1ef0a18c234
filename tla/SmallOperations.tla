--------------------------- MODULE SmallOperations ---------------------------
(***************************************************************************)
(* Engine.smallOperation (internal/bench/s3bench): a dispatcher hands the  *)
(* indexes of the small objects over an unbuffered channel to a pool of    *)
(* workers, each of which performs one request per index.  The run's       *)
(* context may be cancelled at any point.                                  *)
(***************************************************************************)
EXTENDS Integers, FiniteSets

CONSTANTS
    Workers,    \* the goroutines of the pool
    Count       \* the number of small objects

ASSUME WorkersAssumption == IsFiniteSet(Workers) /\ Workers # {}
ASSUME CountAssumption == Count \in Nat

Indexes == 0..(Count - 1)
NoJob == -1

VARIABLES
    at,          \* dispatcher: "sending", "waiting" or "returned"
    index,       \* the next index to send
    closed,      \* close(jobs) was called
    worker,      \* worker[w]: "receiving", "requesting" or "done"
    job,         \* job[w]: the index w is working on
    doomed,      \* workers whose request was made on a cancelled context
    cancelled,   \* ctx.Done() is closed
    failures,    \* the shared atomic counter
    served,      \* indexes whose latency has been written
    succeeded,   \* indexes whose request succeeded
    errors       \* result.errors, NoJob before the return

poolVars == <<at, index, closed, worker, job, doomed, cancelled, failures,
              served, succeeded, errors>>

PoolTypeOK ==
    /\ at \in {"sending", "waiting", "returned"}
    /\ index \in 0..Count
    /\ closed \in BOOLEAN
    /\ worker \in [Workers -> {"receiving", "requesting", "done"}]
    /\ job \in [Workers -> Indexes \union {NoJob}]
    /\ doomed \subseteq Workers
    /\ cancelled \in BOOLEAN
    /\ failures \in 0..Count
    /\ served \subseteq Indexes
    /\ succeeded \subseteq served
    /\ errors \in 0..Count \union {NoJob}

PoolInit ==
    /\ at = "sending"
    /\ index = 0
    /\ closed = FALSE
    /\ worker = [w \in Workers |-> "receiving"]
    /\ job = [w \in Workers |-> NoJob]
    /\ doomed = {}
    /\ cancelled \in BOOLEAN
    /\ failures = 0
    /\ served = {}
    /\ succeeded = {}
    /\ errors = NoJob

-----------------------------------------------------------------------------
\* The send and a receive meet.  When the context is done as well, select
\* takes either case.
HandOver(w) ==
    /\ at = "sending"
    /\ index < Count
    /\ worker[w] = "receiving"
    /\ job' = [job EXCEPT ![w] = index]
    /\ worker' = [worker EXCEPT ![w] = "requesting"]
    /\ doomed' = IF cancelled THEN doomed \union {w} ELSE doomed
    /\ index' = index + 1
    /\ UNCHANGED <<at, closed, cancelled, failures, served, succeeded, errors>>

\* The latency is stored whatever the outcome; a failure is counted.
Respond(w) ==
    /\ worker[w] = "requesting"
    /\ served' = served \union {job[w]}
    /\ \/ /\ w \notin doomed
          /\ succeeded' = succeeded \union {job[w]}
          /\ UNCHANGED failures
       \/ /\ failures' = failures + 1
          /\ UNCHANGED succeeded
    /\ worker' = [worker EXCEPT ![w] = "receiving"]
    /\ job' = [job EXCEPT ![w] = NoJob]
    /\ doomed' = doomed \ {w}
    /\ UNCHANGED <<at, index, closed, cancelled, errors>>

\* The range over the closed channel ends.
Leave(w) ==
    /\ worker[w] = "receiving"
    /\ closed
    /\ worker' = [worker EXCEPT ![w] = "done"]
    /\ UNCHANGED <<at, index, closed, job, doomed, cancelled, failures, served,
                   succeeded, errors>>

\* Mutant of CloseJobs: the cancelled branch returns without closing the channel.
CloseJobsWhenSent ==
    /\ at = "sending"
    /\ index = Count \/ cancelled
    /\ closed' = (index = Count)
    /\ at' = "waiting"
    /\ UNCHANGED <<index, worker, job, doomed, cancelled, failures, served,
                   succeeded, errors>>

\* Either every index was sent or the context was cancelled first.
CloseJobs ==
    /\ at = "sending"
    /\ index = Count \/ cancelled
    /\ closed' = TRUE
    /\ at' = "waiting"
    /\ UNCHANGED <<index, worker, job, doomed, cancelled, failures, served,
                   succeeded, errors>>

\* Mutants of Return: off by one; no wait for the workers.
ReturnOffByOne ==
    /\ at = "waiting"
    /\ \A w \in Workers : worker[w] = "done"
    /\ errors' = IF index < Count THEN failures + (Count - index - 1) ELSE failures
    /\ at' = "returned"
    /\ UNCHANGED <<index, closed, worker, job, doomed, cancelled, failures,
                   served, succeeded>>

ReturnWithoutWait ==
    /\ at = "waiting"
    /\ errors' = failures + (Count - index)
    /\ at' = "returned"
    /\ UNCHANGED <<index, closed, worker, job, doomed, cancelled, failures,
                   served, succeeded>>

\* wait.Wait() is over; indexes that were never sent count as errors.
Return ==
    /\ at = "waiting"
    /\ \A w \in Workers : worker[w] = "done"
    /\ errors' = failures + (Count - index)
    /\ at' = "returned"
    /\ UNCHANGED <<index, closed, worker, job, doomed, cancelled, failures,
                   served, succeeded>>

Cancel ==
    /\ at # "returned"
    /\ ~cancelled
    /\ cancelled' = TRUE
    /\ UNCHANGED <<at, index, closed, worker, job, doomed, failures, served,
                   succeeded, errors>>

Finished == at = "returned" /\ UNCHANGED poolVars

PoolStep ==
    \/ \E w \in Workers : HandOver(w) \/ Respond(w) \/ Leave(w)
    \/ CloseJobs \/ Return

PoolNext == PoolStep \/ Cancel \/ Finished

\* A request may wait for ever, except on a cancelled context; goroutines that
\* can go on do.
Responds(w) == cancelled /\ Respond(w)

PoolFairness ==
    /\ \A w \in Workers : WF_poolVars(Responds(w)) /\ WF_poolVars(Leave(w))
    /\ WF_poolVars(CloseJobs)
    /\ WF_poolVars(Return)

PoolSpec == PoolInit /\ [][PoolNext]_poolVars /\ PoolFairness

-----------------------------------------------------------------------------
(* Properties *)

\* result.errors counts every object without a successful request exactly
\* once, also when requests fail while the pool is being cancelled.
ErrorsAreExact == at = "returned" => errors = Count - Cardinality(succeeded)

\* After the return nobody writes result.latencies or the counter any more:
\* operationMetrics reads them without synchronisation.
QuietAfterReturn == [][at = "returned" => UNCHANGED <<served, failures>>]_poolVars

\* A cancelled operation returns.
CancelledReturns == cancelled ~> at = "returned"
=============================================================================
