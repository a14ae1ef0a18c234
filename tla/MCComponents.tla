---------------------------- MODULE MCComponents ----------------------------
(***************************************************************************)
(* The components that share no state with a run's resources, as one        *)
(* specification for TLC: a behaviour is a behaviour of one of them, which  *)
(* the initial state names, while the others stay as they are.              *)
(***************************************************************************)
EXTENDS SmallOperations, Planning, HelperCache, DatasetCache, DiskWorkload, ClickBench,
        Workloads, Configuration

VARIABLE component

vars == <<component, poolVars, planVars, helperVars, datasetVars, diskVars, queryVars,
          workloadVars, configVars>>

-----------------------------------------------------------------------------
(* The instances *)

MCConfigurable == {"postgres", "internet"}

\* No --only, names given twice and in another order, an unknown name and none.
MCAsked == {<<>>, <<"postgres-pgbench", "object-s3", "postgres-pgbench">>,
            <<"clickhouse-clickcannon", "clickhouse-clickbench">>,
            <<"network-internet", "network-peer", "network-iperf">>, <<"cpu", "gpu">>, <<"">>}

MCGiven == {Facts, {}, Facts \ {"pgbench"}, Facts \ {"consent", "peer_token"},
            Facts \ {"clickhouse_url", "iperf"}, Facts \ {"peer_target", "iperf_target"}}

MCVolatile == {"pgbench", "iperf"}

\* One CPU and 64 meet another number of clients; 80 exceeds the cap of 64.
MCCPUs == {1, 2, 32, 64, 80}


-----------------------------------------------------------------------------

Components == {"pool", "planning", "helper", "dataset", "disk", "clickbench", "workload", "configuration"}

\* A component that is left out has one initial state.
ComponentsInit ==
    /\ component \in Components
    /\ PoolInit
    /\ component # "pool" => ~cancelled
    /\ PlanInit
    /\ component # "planning" => enabled = {} /\ only = <<>> /\ facts = {}
    /\ HelperInit
    /\ DatasetInit
    /\ DiskInit
    /\ ClickBenchInit
    /\ component # "clickbench" => cacheMode = "lukewarm"
    /\ WorkloadInit
    /\ component # "workload" => benchmark = "cpu" /\ profile = "quick" /\ cpus = 1 /\ ~udp /\ ~windows
    /\ ConfigInit
    /\ component # "configuration" =>
        \A o \in Options : flag[o] = "unset" /\ environment[o] = "unset" /\ yaml[o] = "unset"
    /\ component # "configuration" => malformed = {}

Unless(name, variables) == IF component = name THEN TRUE ELSE UNCHANGED variables

\* The other components stay as they are.
OthersStay ==
    /\ UNCHANGED component
    /\ Unless("pool", poolVars)
    /\ Unless("planning", planVars)
    /\ Unless("helper", helperVars)
    /\ Unless("dataset", datasetVars)
    /\ Unless("disk", diskVars)
    /\ Unless("clickbench", queryVars)
    /\ Unless("workload", workloadVars)
    /\ Unless("configuration", configVars)

ComponentsNext ==
    \/ component = "pool" /\ PoolNext /\ OthersStay
    \/ component = "planning" /\ PlanNext /\ OthersStay
    \/ component = "helper" /\ HelperNext /\ OthersStay
    \/ component = "dataset" /\ DatasetNext /\ OthersStay
    \/ component = "disk" /\ DiskNext /\ OthersStay
    \/ component = "clickbench" /\ ClickBenchNext /\ OthersStay
    \/ component = "workload" /\ WorkloadNext /\ OthersStay
    \/ component = "configuration" /\ ConfigNext /\ OthersStay

\* A pool that is left out waits for its first index: no part of PoolFairness
\* asks anything of it.
ComponentsSpec == ComponentsInit /\ [][ComponentsNext]_vars /\ PoolFairness

-----------------------------------------------------------------------------
(* Properties *)

\* Every component's variables keep their types.
ComponentsTypeOK ==
    /\ component \in Components
    /\ PoolTypeOK /\ PlanTypeOK /\ HelperTypeOK /\ DatasetTypeOK
    /\ DiskTypeOK /\ ClickBenchTypeOK /\ WorkloadTypeOK /\ ConfigTypeOK
=============================================================================
