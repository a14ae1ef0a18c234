----------------------------- MODULE SharedState -----------------------------
(***************************************************************************)
(* What the `run` and `cleanup` commands of one run ID share: the remote   *)
(* resources of the run and its ownership manifest on the local disk.      *)
(*                                                                         *)
(* A manifest entry is named by the benchmark category whose engine        *)
(* recorded it, since a category records at most once in a run.  Two       *)
(* categories use the ClickHouse database, so two entries may name one     *)
(* resource.  The order of the entries is abstracted.                      *)
(***************************************************************************)
EXTENDS Integers, RemoteResource

CONSTANT TakenNames    \* the sets of kinds whose name may be in use before the run

ASSUME TakenNamesAssumption == TakenNames \subseteq SUBSET Kinds

VARIABLES
    remote,   \* remote[k]: the resource of kind k with this run's name
    disk      \* the entries of <cache>/runs/<run-id>.json; {} when there is no file

shared == <<remote, disk>>

NoKind == "none"
NoCategory == "none"
NoExit == -1      \* the exit code of a process that has not exited

Categories == {"cpu", "memory", "disk", "object-s3", "postgres-pgbench",
               "clickhouse-clickbench", "clickhouse-clickcannon",
               "network-peer", "network-iperf", "network-internet"}

KindOf == [c \in Categories |->
    CASE c = "object-s3" -> "s3_bucket"
      [] c = "postgres-pgbench" -> "postgres_database"
      [] c \in {"clickhouse-clickbench", "clickhouse-clickcannon"} -> "clickhouse_database"
      [] OTHER -> NoKind]

\* The categories that can record a manifest entry.
Owners == {c \in Categories : KindOf[c] # NoKind}

KindsOf(S) == {KindOf[c] : c \in S}

\* The run ID is new: no manifest has it.
SharedInit ==
    /\ \E T \in TakenNames :
        remote = [k \in Kinds |-> IF k \in T THEN "foreign" ELSE "absent"]
    /\ disk = {}

SharedTypeOK ==
    /\ remote \in [Kinds -> RemoteStates]
    /\ disk \subseteq Owners

(* manifest.Store: a file per run ID, replaced by renaming a temporary file. *)

\* Mutant of Save: success is reported although the rename never happened.
SaveWithoutRename(value, ok) == disk' = disk

\* The whole value replaces the file, or the call fails and the file stays.
Save(value, ok) == disk' = IF ok THEN value ELSE disk

\* A missing file is not an error; any other failure leaves the file.
Delete == disk' \in {{}, disk}
=============================================================================
