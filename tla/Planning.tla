------------------------------ MODULE Planning ------------------------------
(***************************************************************************)
(* From the command line to the benchmarks: SelectCategories, the plan that *)
(* the user approves, the plan that Execute makes again and records, and    *)
(* the checks that each category makes before it starts (internal/cli,      *)
(* internal/runner and the engines).                                        *)
(***************************************************************************)
EXTENDS Integers, Sequences, SequencesExt

CONSTANTS
    Configurable,   \* the services that the configuration may enable
    Asked,          \* the sequences of names that --only may hold, trimmed
    Given,          \* the sets of facts the command may start with
    Volatile        \* the facts that may change while the command runs

\* What a category needs and the host or the configuration may lack; a peer
\* target counts with its certificate fingerprint, pgbench with psql.
Facts == {"pgbench", "postgres_url", "clickhouse_url", "peer_target", "peer_token",
          "iperf", "iperf_target", "consent"}

\* Consent is part of the configuration, which is read once.
ASSUME GivenAssumption == Given \subseteq SUBSET Facts /\ Volatile \subseteq Facts \ {"consent"}
ASSUME AskedAssumption == \A names \in Asked : names \in Seq(STRING)

VARIABLES
    enabled,    \* the services that are enabled in the configuration
    only,       \* the values of --only, in order
    facts,      \* what is there now
    step,       \* "select", "choose", "plan", "approve", "execute", "run" or "over"
    looked,     \* how many names SelectCategories has looked at
    selected,   \* the categories of this command, in order
    approved,   \* the plan that was printed and approved
    recorded,   \* the plan of the result document
    statuses,   \* the status of each benchmark that has ended, in order
    created,    \* the kinds of resources that the run created
    shared      \* whether M-Lab has received a measurement

planVars == <<enabled, only, facts, step, looked, selected, approved, recorded, statuses, created, shared>>

InOrder == <<"cpu", "memory", "disk", "object-s3", "postgres-pgbench", "clickhouse-clickbench",
    "clickhouse-clickcannon", "network-peer", "network-iperf", "network-internet">>
Known == ToSet(InOrder)

ServiceOf(category) ==
    CASE category = "object-s3" -> {"s3"}
      [] category = "postgres-pgbench" -> {"postgres"}
      [] category \in {"clickhouse-clickbench", "clickhouse-clickcannon"} -> {"clickhouse"}
      [] category = "network-peer" -> {"peer"}
      [] category = "network-iperf" -> {"iperf"}
      [] category = "network-internet" -> {"internet"}
      [] OTHER -> {}

\* What Plan wants a category to have.
Wanted(category) ==
    CASE category = "postgres-pgbench" -> {"pgbench", "postgres_url"}
      [] category \in {"clickhouse-clickbench", "clickhouse-clickcannon"} -> {"clickhouse_url"}
      [] category = "network-peer" -> {"peer_target", "peer_token"}
      [] category = "network-iperf" -> {"iperf", "iperf_target"}
      [] category = "network-internet" -> {"consent"}
      [] OTHER -> {}

ResourceOf(category) ==
    CASE category = "object-s3" -> {"s3_bucket"}
      [] category = "postgres-pgbench" -> {"postgres_database"}
      [] category \in {"clickhouse-clickbench", "clickhouse-clickcannon"} -> {"clickhouse_database"}
      [] OTHER -> {}

-----------------------------------------------------------------------------
(* Selection *)

\* ValidateResolved: what an enabled network service cannot do without.
Resolved ==
    /\ "peer" \in enabled => "peer_target" \in facts
    /\ "iperf" \in enabled => "iperf_target" \in facts
    /\ "internet" \in enabled => "consent" \in facts

\* Mutant of Added: what --only names twice is selected twice.
AddedTwice(category) == Append(selected, category)

\* What --only names twice is selected once, where it is named first.
Added(category) == IF category \in ToSet(selected) THEN selected ELSE Append(selected, category)

\* Without --only the services that are enabled decide.
Names == IF only = <<>> THEN InOrder ELSE only

\* common; a category command is --only with its own name.
Select ==
    /\ step = "select"
    /\ step' = IF Resolved THEN "choose" ELSE "over"
    /\ UNCHANGED <<enabled, only, facts, looked, selected, approved, recorded, statuses, created, shared>>

\* One turn of the loop of SelectCategories, or one test of ConfiguredCategories.
\* An empty name is skipped, an unknown one is refused.
Choose ==
    /\ step = "choose" /\ looked < Len(Names)
    /\ LET category == Names[looked + 1] IN
        \/ /\ only = <<>>
           /\ selected' = IF ServiceOf(category) \subseteq enabled THEN Append(selected, category) ELSE selected
           /\ UNCHANGED step
        \/ /\ only # <<>> /\ category \in Known
           /\ selected' = Added(category)
           /\ UNCHANGED step
        \/ /\ only # <<>> /\ category \notin Known
           /\ IF category = "" THEN UNCHANGED step ELSE step' = "over"
           /\ UNCHANGED selected
    /\ looked' = looked + 1
    /\ UNCHANGED <<enabled, only, facts, approved, recorded, statuses, created, shared>>

\* "--only did not select any categories", or on to the plan.
Chosen ==
    /\ step = "choose" /\ looked = Len(Names)
    /\ step' = IF selected = <<>> THEN "over" ELSE "plan"
    /\ UNCHANGED <<enabled, only, facts, looked, selected, approved, recorded, statuses, created, shared>>

-----------------------------------------------------------------------------
(* The plan *)

State(category) == IF Wanted(category) \subseteq facts THEN "ready" ELSE "blocked"

\* Mutant of PlannedResources: what is blocked creates nothing.
PlannedResourcesWhenReady ==
    UNION {ResourceOf(category) : category \in {c \in ToSet(selected) : State(c) = "ready"}}

\* A blocked category plans its resource too.
PlannedResources == UNION {ResourceOf(category) : category \in ToSet(selected)}

PlanNow == [engines |-> [i \in DOMAIN selected |-> State(selected[i])],
            resources |-> PlannedResources,
            sharing |-> "network-internet" \in ToSet(selected)]

NoPlan == [engines |-> <<>>, resources |-> {}, sharing |-> FALSE]

\* A bucket name that is too long, for its configured prefix, is the one error.
MakePlan ==
    /\ step = "plan"
    /\ \/ approved' = PlanNow /\ step' = "approve"
       \/ "s3_bucket" \in PlannedResources /\ step' = "over" /\ UNCHANGED approved
    /\ UNCHANGED <<enabled, only, facts, looked, selected, recorded, statuses, created, shared>>

\* confirmation: --yes or a "yes" on a terminal; else exit 2.
Confirm ==
    /\ step = "approve"
    /\ step' \in {"execute", "over"}
    /\ UNCHANGED <<enabled, only, facts, looked, selected, approved, recorded, statuses, created, shared>>

\* Execute starts with a plan of its own.
PlanAgain ==
    /\ step = "execute"
    /\ recorded' = PlanNow
    /\ step' = "run"
    /\ UNCHANGED <<enabled, only, facts, looked, selected, approved, statuses, created, shared>>

-----------------------------------------------------------------------------
(* Execution *)

\* Mutant of Blocking: the engine does not look for consent.
BlockingWithoutConsent(category) == Wanted(category) \ {"peer_target", "iperf_target", "consent"}

\* What the category answers "blocked" to when it lacks it.
Blocking(category) == Wanted(category) \ {"peer_target", "iperf_target"}

\* A peer or an iperf run without a target has "failed".
Failing(category) == Wanted(category) \intersect {"peer_target", "iperf_target"}

\* An engine may also be unavailable for a reason no plan looks for: a
\* configuration or a server that refuses, a helper that cannot be had.
Outcomes(category) ==
    IF ~(Blocking(category) \subseteq facts) THEN {"blocked"}
    ELSE IF ~(Failing(category) \subseteq facts) THEN {"failed"}
    ELSE IF category \in {"cpu", "memory", "disk", "network-peer", "network-iperf", "network-internet"}
         THEN {"success", "failed"}
         ELSE {"success", "failed", "blocked"}

\* One turn of the loop of Execute.
RunCategory ==
    /\ step = "run"
    /\ Len(statuses) < Len(selected)
    /\ LET category == selected[Len(statuses) + 1] IN
        /\ statuses' \in {Append(statuses, outcome) : outcome \in Outcomes(category)}
        /\ IF Blocking(category) \subseteq facts
           THEN created' \in {created, created \union ResourceOf(category)}
           ELSE UNCHANGED created
        /\ shared' = (shared \/ (category = "network-internet" /\ Blocking(category) \subseteq facts))
    /\ UNCHANGED <<enabled, only, facts, step, looked, selected, approved, recorded>>

\* The last category, an interrupt or an error of Execute.
EndRun ==
    /\ step = "run"
    /\ step' = "over"
    /\ UNCHANGED <<enabled, only, facts, looked, selected, approved, recorded, statuses, created, shared>>

\* An engine is installed or removed meanwhile.
Drift ==
    /\ step # "over"
    /\ \E fact \in Volatile : facts' = IF fact \in facts THEN facts \ {fact} ELSE facts \union {fact}
    /\ UNCHANGED <<enabled, only, step, looked, selected, approved, recorded, statuses, created, shared>>

PlanOver == step = "over" /\ UNCHANGED planVars

PlanInit ==
    /\ enabled \in SUBSET Configurable
    /\ only \in Asked
    /\ facts \in Given
    /\ step = "select"
    /\ looked = 0 /\ selected = <<>>
    /\ approved = NoPlan
    /\ recorded = NoPlan
    /\ statuses = <<>>
    /\ created = {}
    /\ shared = FALSE

PlanNext ==
    \/ Select \/ Choose \/ Chosen
    \/ MakePlan \/ Confirm \/ PlanAgain \/ RunCategory \/ EndRun \/ Drift \/ PlanOver

PlanSpec == PlanInit /\ [][PlanNext]_planVars

-----------------------------------------------------------------------------
(* Properties *)

Plans == [engines : Seq({"ready", "blocked"}), resources : SUBSET UNION {ResourceOf(c) : c \in Known},
          sharing : BOOLEAN]

PlanTypeOK ==
    /\ enabled \subseteq Configurable
    /\ only \in Asked
    /\ facts \subseteq Facts
    /\ step \in {"select", "choose", "plan", "approve", "execute", "run", "over"}
    /\ looked \in 0..Len(Names) /\ selected \in Seq(Known)
    /\ approved \in Plans /\ recorded \in Plans
    /\ statuses \in Seq({"success", "failed", "blocked"})
    /\ created \subseteq approved.resources \union recorded.resources
    /\ shared \in BOOLEAN

\* A category is measured at most once in a run, however it was named
\* (SelectCategories): the second would find its own bucket or database taken.
MeasuredOnce == IsInjective(selected) /\ Len(statuses) <= Len(selected)

\* Only resources that were named in the approved plan are ever created, also
\* when an engine that was missing then is there now (Plan, Execute).
CreatesOnlyApproved == created \subseteq approved.resources

\* M-Lab gets a measurement only if the plan announced it and consent was
\* given (Plan, ndt7bench.Run).
SharesOnlyApproved == shared => approved.sharing /\ "consent" \in facts
=============================================================================
