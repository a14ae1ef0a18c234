----------------------------- MODULE ClickBench -----------------------------
(***************************************************************************)
(* The queries of RunClickBench and the labels of their trials              *)
(* (internal/bench/clickhouse): in true-cold mode the server's filesystem   *)
(* cache is dropped before the first trial of each query, which a managed   *)
(* service may refuse.                                                      *)
(***************************************************************************)
EXTENDS Naturals, Sequences

CONSTANTS
    Queries,    \* spec.Queries
    Trials      \* spec.Trials

ASSUME TrialsAssumption == Queries \in Nat /\ Trials \in Nat \ {0}

VARIABLES
    cacheMode,      \* clickbench_cache_mode of the configuration
    query,          \* the query of the next trial
    trial,          \* the trial of this query, from 0
    phase,          \* the label of the trial that is about to run, "none" before
    coldAvailable,  \* whether an eviction is still worth asking for
    warm,           \* whether anything was read since the last eviction
    labelled,       \* the trials in the metrics, with what was in the cache
    warnedAt,       \* the queries at which the user was warned
    outcome         \* the status of the benchmark, "none" while it runs

queryVars == <<cacheMode, query, trial, phase, coldAvailable, warm, labelled, warnedAt, outcome>>

Labels == {"cold", "lukewarm", "hot"}

ClickBenchTypeOK ==
    /\ cacheMode \in {"lukewarm", "true-cold"}
    /\ query \in 1..(Queries + 1) /\ trial \in 0..Trials
    /\ phase \in Labels \union {"none"}
    /\ coldAvailable \in BOOLEAN /\ warm \in BOOLEAN
    /\ labelled \in Seq([query : 1..Queries, trial : 0..(Trials - 1), phase : Labels, warm : BOOLEAN])
    /\ warnedAt \in Seq(1..Queries)
    /\ outcome \in {"none", "success", "failed"}

\* The table has been loaded.
ClickBenchInit ==
    /\ cacheMode \in {"lukewarm", "true-cold"}
    /\ coldAvailable = (cacheMode = "true-cold")
    /\ query = 1 /\ trial = 0 /\ phase = "none"
    /\ warm = TRUE
    /\ labelled = <<>> /\ warnedAt = <<>>
    /\ outcome = "none"

AtTrial == outcome = "none" /\ query <= Queries /\ phase = "none"

-----------------------------------------------------------------------------
(* clickBenchPhase *)

WithoutEviction ==
    /\ AtTrial
    /\ \/ trial > 0 /\ phase' = "hot"
       \/ trial = 0 /\ ~coldAvailable /\ phase' = "lukewarm"
    /\ UNCHANGED <<cacheMode, query, trial, coldAvailable, warm, labelled, warnedAt, outcome>>

\* Mutant of Evict: a refusal is forgotten at the next query.
EvictAgain ==
    /\ AtTrial /\ trial = 0 /\ coldAvailable
    /\ \/ /\ phase' = "cold" /\ warm' = FALSE
          /\ UNCHANGED <<coldAvailable, warnedAt>>
       \/ /\ phase' = "lukewarm" /\ warm' \in {FALSE, warm}
          /\ warnedAt' = Append(warnedAt, query)
          /\ UNCHANGED coldAvailable
    /\ UNCHANGED <<cacheMode, query, trial, labelled, outcome>>

\* SYSTEM DROP FILESYSTEM CACHE; an error may also mean a lost answer.
Evict ==
    /\ AtTrial /\ trial = 0 /\ coldAvailable
    /\ \/ /\ phase' = "cold" /\ warm' = FALSE
          /\ UNCHANGED <<coldAvailable, warnedAt>>
       \/ /\ phase' = "lukewarm" /\ warm' \in {FALSE, warm}
          /\ coldAvailable' = FALSE
          /\ warnedAt' = Append(warnedAt, query)
    /\ UNCHANGED <<cacheMode, query, trial, labelled, outcome>>

-----------------------------------------------------------------------------
(* The loops of RunClickBench *)

\* The trial goes into the metrics, under its label.
RunQuery ==
    /\ outcome = "none" /\ phase # "none"
    /\ labelled' = Append(labelled, [query |-> query, trial |-> trial, phase |-> phase, warm |-> warm])
    /\ warm' = TRUE
    /\ phase' = "none"
    /\ IF trial + 1 < Trials THEN trial' = trial + 1 /\ UNCHANGED query
                             ELSE trial' = 0 /\ query' = query + 1
    /\ UNCHANGED <<cacheMode, coldAvailable, warnedAt, outcome>>

QueryFails ==
    /\ outcome = "none" /\ phase # "none"
    /\ outcome' = "failed"
    /\ warm' \in {TRUE, warm}
    /\ UNCHANGED <<cacheMode, query, trial, phase, coldAvailable, labelled, warnedAt>>

AllQueriesRun ==
    /\ outcome = "none" /\ query > Queries
    /\ outcome' = "success"
    /\ UNCHANGED <<cacheMode, query, trial, phase, coldAvailable, warm, labelled, warnedAt>>

ClickBenchOver == outcome # "none" /\ UNCHANGED queryVars

ClickBenchNext ==
    WithoutEviction \/ Evict \/ RunQuery \/ QueryFails \/ AllQueriesRun \/ ClickBenchOver

ClickBenchSpec == ClickBenchInit /\ [][ClickBenchNext]_queryVars

-----------------------------------------------------------------------------
(* Properties *)

\* A trial is labelled cold only if nothing was read since an eviction that
\* succeeded, and hot only if the same query ran directly before it.  The one
\* warning ("first runs from this query onward are labeled lukewarm") is true:
\* nothing is cold from that query on, and in true-cold mode every first trial
\* before it is (clickBenchPhase and coldAvailable).
LabelsAreTrue ==
    /\ Len(warnedAt) <= 1
    /\ \A i \in DOMAIN labelled : LET it == labelled[i] IN
        /\ it.phase = "cold" => ~it.warm
        /\ it.phase = "hot" <=> i > 1 /\ labelled[i - 1].query = it.query
        /\ it.phase = "cold" <=> /\ it.trial = 0
                                 /\ cacheMode = "true-cold"
                                 /\ \A j \in DOMAIN warnedAt : it.query < warnedAt[j]
=============================================================================
