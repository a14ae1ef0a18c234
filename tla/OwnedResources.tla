--------------------------- MODULE OwnedResources ---------------------------
(***************************************************************************)
(* What the tool promises about remote resources ("Resource ownership and  *)
(* cleanup", docs/benchmark-contract.md), with none of the steps by which  *)
(* it keeps the promise: a name that is taken is left alone, a resource of *)
(* the run goes away only once the run has recorded it, and the local      *)
(* ledger forgets a resource only when nothing of it is left.              *)
(***************************************************************************)
CONSTANT Names

VARIABLES
    holder,     \* holder[r]: "free", "taken" (by something else) or "ours"
    recorded,   \* the names the run has ever recorded as its own
    ledger      \* the names the local manifest lists

promiseVars == <<holder, recorded, ledger>>

PromiseInit ==
    /\ holder \in [Names -> {"free", "taken"}]
    /\ recorded = {}
    /\ ledger = {}

Acquire(r) ==
    /\ holder[r] = "free"
    /\ holder' = [holder EXCEPT ![r] = "ours"]
    /\ UNCHANGED <<recorded, ledger>>

\* Recording succeeds in memory and may fail on disk; a later record then
\* brings the ledger up to date.
Record(r) ==
    /\ holder[r] = "ours"
    /\ recorded' = recorded \union {r}
    /\ ledger' \in {ledger, recorded'}
    /\ UNCHANGED holder

Release(r) ==
    /\ holder[r] = "ours"
    /\ r \in recorded
    /\ holder' = [holder EXCEPT ![r] = "free"]
    /\ UNCHANGED <<recorded, ledger>>

Forget ==
    /\ \A r \in ledger : holder[r] # "ours"
    /\ ledger' = {}
    /\ UNCHANGED <<holder, recorded>>

PromiseNext ==
    \/ \E r \in Names : Acquire(r) \/ Record(r) \/ Release(r)
    \/ Forget

\* What a failure of the host may do to the ledger: an older one, or none, is
\* there afterwards.  No step of PromiseNext does that.
Lose ==
    /\ ledger' \in SUBSET recorded
    /\ UNCHANGED <<holder, recorded>>

PromiseSpec == PromiseInit /\ [][PromiseNext]_promiseVars
=============================================================================
