---------------------------- MODULE MCBenchSystem ----------------------------
(* BenchSystem for TLC. *)
EXTENDS BenchSystem, TLC

\* The two categories that share a database, whose second one meets what
\* `cleanup` has left of the first one's, and a bucket.
MCShared == {<<"clickhouse-clickbench", "clickhouse-clickcannon">>, <<"object-s3">>}

\* A bucket, removed in three calls, and a database, removed in two.
MCPair == {<<"object-s3", "postgres-pgbench">>}

MCTaken == {{}, {"clickhouse_database"}}
MCUntaken == {{}}

Symmetry == Permutations(Commands)

\* Every variable but the result document: no action reads it, but PowerFails when
\* it chooses the next one.
WithoutDocument == <<selection, keep, pc, interrupted, n, engines, initialized, benchmark,
    resource, manifest, aborting, entry, left, exit, shared, commandVars>>
=============================================================================
