----------------------------- MODULE HelperCache -----------------------------
(***************************************************************************)
(* The ClickCannon helper in the user's cache directory: ResolveClickCannon *)
(* and the two helper phases of RunClickCannon (internal/bench/clickhouse), *)
(* run by any number of processes on one host, with `cache prune` and the   *)
(* loss of power at any point.  The helper named by the environment or      *)
(* found on PATH never reaches the cache.                                   *)
(***************************************************************************)
EXTENDS Naturals

CONSTANTS
    Processes   \* the runs that come to clickhouse-clickcannon on this host

VARIABLES
    file,       \* the cached helper: its bytes, and whether it may be executed
    directory,  \* whether the helper directory exists
    part,       \* part[p]: the temporary file of p is in the directory
    doing,      \* doing[p]: what p does next, "over" or "killed"
    status,     \* status[p]: the benchmark's status, "none" until it has one
    executed    \* executed[p]: the bytes of every helper p has executed

helperVars == <<file, directory, part, doing, status, executed>>

Bytes == {"none", "pinned", "spoilt"}
Helpers == [bytes : Bytes, executable : BOOLEAN]
NoHelper == [bytes |-> "none", executable |-> FALSE]
Steps == {"resolve", "checksums", "hash", "download", "rename", "chmod", "insert", "query", "over", "killed"}

HelperTypeOK ==
    /\ file \in Helpers
    /\ directory \in BOOLEAN
    /\ part \in [Processes -> BOOLEAN]
    /\ doing \in [Processes -> Steps]
    /\ status \in [Processes -> {"none", "blocked", "failed", "success"}]
    /\ executed \in [Processes -> SUBSET {"pinned", "spoilt"}]

HelperInit ==
    /\ file = NoHelper
    /\ directory = FALSE
    /\ part = [p \in Processes |-> FALSE]
    /\ doing = [p \in Processes |-> "resolve"]
    /\ status = [p \in Processes |-> "none"]
    /\ executed = [p \in Processes |-> {}]

GoTo(p, next) ==
    /\ doing' = [doing EXCEPT ![p] = next]
    /\ UNCHANGED status

End(p, result) ==
    /\ doing' = [doing EXCEPT ![p] = "over"]
    /\ status' = [status EXCEPT ![p] = result]

-----------------------------------------------------------------------------
(* ResolveClickCannon *)

MakeDirectory(p) ==
    /\ doing[p] = "resolve"
    /\ \/ directory' = TRUE /\ GoTo(p, "checksums")
       \/ UNCHANGED directory /\ End(p, "blocked")
    /\ UNCHANGED <<file, part, executed>>

\* Mutant of FetchChecksum: a run without the release is skipped.
FetchChecksumOrSkip(p) ==
    /\ doing[p] = "checksums"
    /\ GoTo(p, "hash") \/ End(p, "skipped")
    /\ UNCHANGED <<file, directory, part, executed>>

\* fetchExpectedChecksum: the release is asked on every run, cached helper or not.
FetchChecksum(p) ==
    /\ doing[p] = "checksums"
    /\ GoTo(p, "hash") \/ End(p, "blocked")
    /\ UNCHANGED <<file, directory, part, executed>>

\* A cached helper with the released checksum is used as it is.
HashCached(p) ==
    /\ doing[p] = "hash"
    /\ GoTo(p, IF file.bytes = "pinned" THEN "insert" ELSE "download")
    /\ UNCHANGED <<file, directory, part, executed>>

\* downloadVerified up to the checksum: nothing is left of a download that is
\* refused, cut short or altered.
Download(p) ==
    /\ doing[p] = "download"
    /\ \/ directory /\ part' = [part EXCEPT ![p] = TRUE] /\ GoTo(p, "rename")
       \/ UNCHANGED part /\ End(p, "blocked")
    /\ UNCHANGED <<file, directory, executed>>

\* Mutant of Rename: the part is copied over the cached helper.
CopyInPlace(p) ==
    /\ doing[p] = "rename"
    /\ part' = [part EXCEPT ![p] = FALSE]
    /\ file' \in {[bytes |-> b, executable |-> FALSE] : b \in {"pinned", "spoilt"}}
    /\ IF file'.bytes = "pinned" THEN GoTo(p, "chmod") ELSE End(p, "blocked")
    /\ UNCHANGED <<directory, executed>>

\* The end of downloadVerified.  The part has mode 0600 and brings it along; it
\* may have been pruned.
Rename(p) ==
    /\ doing[p] = "rename"
    /\ part' = [part EXCEPT ![p] = FALSE]
    /\ \/ part[p] /\ file' = [bytes |-> "pinned", executable |-> FALSE] /\ GoTo(p, "chmod")
       \/ UNCHANGED file /\ End(p, "blocked")
    /\ UNCHANGED <<directory, executed>>

\* The result of os.Chmod is not looked at; it fails when the helper was pruned.
Chmod(p) ==
    /\ doing[p] = "chmod"
    /\ file' = [file EXCEPT !.executable = file.bytes # "none"]
    /\ GoTo(p, "insert")
    /\ UNCHANGED <<directory, part, executed>>

-----------------------------------------------------------------------------
(* RunClickCannon *)

\* runClickCannonPhase: the path is executed anew in each phase.
Runs(p, phase, next) ==
    /\ doing[p] = phase
    /\ file.bytes # "none" /\ file.executable
    /\ executed' = [executed EXCEPT ![p] = @ \union {file.bytes}]
    /\ next \/ End(p, "failed")
    /\ UNCHANGED <<file, directory, part>>

CannotRun(p, phase) ==
    /\ doing[p] = phase
    /\ file.bytes = "none" \/ ~file.executable
    /\ End(p, "failed")
    /\ UNCHANGED <<file, directory, part, executed>>

Insert(p) == Runs(p, "insert", GoTo(p, "query")) \/ CannotRun(p, "insert")
Query(p) == Runs(p, "query", End(p, "success")) \/ CannotRun(p, "query")

\* The connection, the trace table or the URL scheme is refused after the
\* helper has been resolved.
Unprepared(p) ==
    /\ doing[p] = "insert"
    /\ End(p, "failed") \/ End(p, "blocked")
    /\ UNCHANGED <<file, directory, part, executed>>

-----------------------------------------------------------------------------
\* cache.Prune: RemoveAll goes through the directory entry by entry.
Prune ==
    /\ directory
    /\ \/ file # NoHelper /\ file' = NoHelper /\ UNCHANGED <<directory, part>>
       \/ \E p \in Processes : part[p] /\ part' = [part EXCEPT ![p] = FALSE] /\ UNCHANGED <<file, directory>>
       \/ /\ file = NoHelper /\ \A p \in Processes : ~part[p]
          /\ directory' = FALSE
          /\ UNCHANGED <<file, part>>
    /\ UNCHANGED <<doing, status, executed>>

Running(p) == doing[p] \notin {"over", "killed"}

\* The process ends between two steps; its part stays behind.
KillProcess(p) ==
    /\ Running(p)
    /\ GoTo(p, "killed")
    /\ UNCHANGED <<file, directory, part, executed>>

\* The host loses power: no process that has begun survives, and a helper that
\* was renamed but never synced may lose its bytes or its name.
PowerLoss ==
    /\ \E p \in Processes : Running(p)
    /\ doing' = [p \in Processes |-> IF Running(p) /\ doing[p] # "resolve" THEN "killed" ELSE doing[p]]
    /\ \/ file.bytes # "none" /\ file' \in {NoHelper, [file EXCEPT !.bytes = "spoilt"]}
       \/ UNCHANGED file
    /\ UNCHANGED <<directory, part, status, executed>>

AllOver == (\A p \in Processes : ~Running(p)) /\ UNCHANGED helperVars

HelperStep(p) ==
    \/ MakeDirectory(p) \/ FetchChecksum(p) \/ HashCached(p) \/ Download(p) \/ Rename(p) \/ Chmod(p)
    \/ Insert(p) \/ Query(p) \/ Unprepared(p)

HelperNext ==
    \/ \E p \in Processes : HelperStep(p) \/ KillProcess(p)
    \/ Prune \/ PowerLoss \/ AllOver

HelperSpec == HelperInit /\ [][HelperNext]_helperVars

-----------------------------------------------------------------------------
(* Properties *)

\* Only the released bytes are ever executed, whatever an earlier process, a
\* loss of power or a concurrent download left in the cache (ResolveClickCannon).
RunsOnlyReleased == \A p \in Processes : executed[p] \subseteq {"pinned"}

\* What docs/benchmark-contract.md says of "blocked": a required engine was not
\* available.  It is when the verified helper may not be executed.
UnavailableIsBlocked ==
    [][\A p \in Processes :
        doing[p] = "insert" /\ file.bytes = "pinned" /\ ~file.executable /\ doing'[p] = "over" => status'[p] = "blocked"]_helperVars
=============================================================================
