------------------------------ MODULE MCRunner ------------------------------
(* Runner on its own, for TLC. *)
EXTENDS RunnerInvariant

\* Every owning category, both orders of the two that share a database, and
\* local categories between and after them.
MCSelections == {
    <<"clickhouse-clickbench", "clickhouse-clickcannon", "object-s3">>,
    <<"clickhouse-clickcannon", "postgres-pgbench", "clickhouse-clickbench">>,
    <<"cpu", "object-s3", "network-peer">>}

\* One bucket, one database.
MCSmall == {<<"object-s3">>, <<"postgres-pgbench">>}

\* Any of the names may be in use.
MCTaken == SUBSET Kinds

\* None of them is.
MCUntaken == {{}}
=============================================================================
