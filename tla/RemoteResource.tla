--------------------------- MODULE RemoteResource ---------------------------
(***************************************************************************)
(* One remote resource of a run (an S3 bucket, a PostgreSQL database or a  *)
(* ClickHouse database) as the service holds it, and what each remote call *)
(* of the engines can do to it.  The service is external: it is modelled   *)
(* from how the engines use it.  A call is a relation between the state s  *)
(* it finds, the state t it leaves and whether the engine sees a success.  *)
(* A call that fails may still have been applied: the reply is lost when a *)
(* connection breaks or the caller's context ends after the request left.  *)
(***************************************************************************)

Kinds == {"s3_bucket", "postgres_database", "clickhouse_database"}

\* "foreign": the name is in use by something this run did not create.
\* "bare":    created by this run, without its marker (for a bucket: no marker
\*            object, whatever other objects it holds).
\* "marked":  created by this run and carrying a marker with its run ID.
RemoteStates == {"absent", "foreign", "bare", "marked"}

\* The resource exists and this run created it.
Ours(s) == s \in {"bare", "marked"}

\* The call reached nobody, or was refused.
NotApplied(s, t, ok) == t = s /\ ~ok

\* Mutant of CreateCall: CREATE ... IF NOT EXISTS, which adopts a taken name.
CreateIfNotExists(s, t, ok) ==
    \/ NotApplied(s, t, ok)
    \/ s = "absent" /\ t = "bare"
    \/ s # "absent" /\ t = s /\ ok

\* CreateBucket and CREATE DATABASE never adopt an existing name.
CreateCall(s, t, ok) ==
    \/ NotApplied(s, t, ok)
    \/ s = "absent" /\ t = "bare"

\* The marker object or the marker table; nothing asks who made the resource.
MarkCall(s, t, ok) ==
    \/ NotApplied(s, t, ok)
    \/ s \in {"bare", "foreign"} /\ t = "marked"

\* Reading the marker succeeds only with this run's ID in it.
VerifyCall(s, ok) == ok => s = "marked"

\* S3 only: list and DeleteObjects, page by page.  Keys that a page fails to
\* delete are not reported, so a success may leave the marker in place, and
\* an error may come after the page that held the marker is gone.
PurgeCall(s, t, ok) ==
    \/ NotApplied(s, t, ok)
    \/ s # "absent" /\ t \in {s, "bare"}

\* DeleteBucket refuses a bucket that still holds an object; DROP DATABASE
\* takes whatever has the name.
DropCall(kind, s, t, ok) ==
    \/ NotApplied(s, t, ok)
    \/ s # "absent" /\ (kind = "s3_bucket" => s = "bare") /\ t = "absent"
=============================================================================
