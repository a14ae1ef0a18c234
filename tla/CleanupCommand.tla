--------------------------- MODULE CleanupCommand ---------------------------
(***************************************************************************)
(* The `cleanup --run-id` command: runCleanup (internal/cli), Cleanup      *)
(* (internal/runner) and the Cleanup methods of the three engines, as a    *)
(* process that any number of terminals may start again and again.  Each   *)
(* command sees the manifest only once, when it loads it.                  *)
(***************************************************************************)
EXTENDS SharedState

CONSTANT Commands      \* the terminals `cleanup` is started from

VARIABLES
    at,        \* at[p]: the step command p is at
    loaded,    \* loaded[p]: the entries the manifest had when p read it
    todo,      \* todo[p]: the loaded entries p has not handled yet
    target,    \* target[p]: the entry whose engine.Cleanup is running
    failures,  \* failures[p]: whether a resource could not be removed
    code       \* code[p]: exit code of the last command that ended in p

commandVars == <<at, loaded, todo, target, failures, code>>

Steps == {"idle", "next", "verify", "purge", "drop"}

CommandTypeOK ==
    /\ at \in [Commands -> Steps]
    /\ loaded \in [Commands -> SUBSET Owners]
    /\ todo \in [Commands -> SUBSET Owners]
    /\ target \in [Commands -> Owners \union {NoCategory}]
    /\ failures \in [Commands -> BOOLEAN]
    /\ code \in [Commands -> {NoExit, 0, 1}]

CommandInit ==
    /\ at = [p \in Commands |-> "idle"]
    /\ loaded = [p \in Commands |-> {}]
    /\ todo = [p \in Commands |-> {}]
    /\ target = [p \in Commands |-> NoCategory]
    /\ failures = [p \in Commands |-> FALSE]
    /\ code = [p \in Commands |-> NoExit]

-----------------------------------------------------------------------------
\* No manifest, or one that cannot be read or is not this run's: exit 1.
LoadFails(p) ==
    /\ at[p] = "idle"
    /\ code' = [code EXCEPT ![p] = 1]
    /\ UNCHANGED <<shared, at, loaded, todo, target, failures>>

Load(p) ==
    /\ at[p] = "idle"
    /\ disk # {}
    /\ loaded' = [loaded EXCEPT ![p] = disk]
    /\ todo' = [todo EXCEPT ![p] = disk]
    /\ code' = [code EXCEPT ![p] = NoExit]
    /\ at' = [at EXCEPT ![p] = "next"]
    /\ UNCHANGED <<shared, target, failures>>

\* Mutants of Handled: the error is dropped; a failed entry is tried again.
HandledWithoutError(p, c, ok) ==
    /\ todo' = [todo EXCEPT ![p] = @ \ {c}]
    /\ target' = [target EXCEPT ![p] = NoCategory]
    /\ at' = [at EXCEPT ![p] = "next"]
    /\ UNCHANGED failures

HandledWithRetry(p, c, ok) ==
    /\ todo' = [todo EXCEPT ![p] = IF ok THEN @ \ {c} ELSE @]
    /\ target' = [target EXCEPT ![p] = NoCategory]
    /\ at' = [at EXCEPT ![p] = "next"]
    /\ UNCHANGED failures

\* engine.Cleanup, or making the engine, returned; the loop goes on either way.
Handled(p, c, ok) ==
    /\ todo' = [todo EXCEPT ![p] = @ \ {c}]
    /\ target' = [target EXCEPT ![p] = NoCategory]
    /\ failures' = [failures EXCEPT ![p] = @ \/ ~ok]
    /\ at' = [at EXCEPT ![p] = "next"]

\* The URL variable is not set here, or New fails.
NoEngine(p) ==
    /\ at[p] = "next"
    /\ \E c \in todo[p] : Handled(p, c, FALSE)
    /\ UNCHANGED <<shared, loaded, code>>

TakeEntry(p) ==
    /\ at[p] = "next"
    /\ \E c \in todo[p] : target' = [target EXCEPT ![p] = c]
    /\ at' = [at EXCEPT ![p] = "verify"]
    /\ UNCHANGED <<shared, loaded, todo, failures, code>>

\* The local checks pass: the entry was recorded for this run ID.
Verify(p) ==
    /\ at[p] = "verify"
    /\ LET k == KindOf[target[p]] IN
       \E ok \in BOOLEAN :
        /\ VerifyCall(remote[k], ok)
        /\ IF ok THEN /\ at' = [at EXCEPT ![p] = IF k = "s3_bucket" THEN "purge" ELSE "drop"]
                      /\ UNCHANGED <<todo, target, failures>>
                 ELSE Handled(p, target[p], FALSE)
    /\ UNCHANGED <<shared, loaded, code>>

Purge(p) ==
    /\ at[p] = "purge"
    /\ LET k == KindOf[target[p]] IN
       \E t \in RemoteStates, ok \in BOOLEAN :
        /\ PurgeCall(remote[k], t, ok)
        /\ remote' = [remote EXCEPT ![k] = t]
        /\ IF ok THEN /\ at' = [at EXCEPT ![p] = "drop"]
                      /\ UNCHANGED <<todo, target, failures>>
                 ELSE Handled(p, target[p], FALSE)
    /\ UNCHANGED <<disk, loaded, code>>

Drop(p) ==
    /\ at[p] = "drop"
    /\ LET k == KindOf[target[p]] IN
       \E t \in RemoteStates, ok \in BOOLEAN :
        /\ DropCall(k, remote[k], t, ok)
        /\ remote' = [remote EXCEPT ![k] = t]
        /\ Handled(p, target[p], ok)
    /\ UNCHANGED <<disk, loaded, code>>

\* The process is over; what it had in memory with it.
Gone(p) ==
    /\ at' = [at EXCEPT ![p] = "idle"]
    /\ loaded' = [loaded EXCEPT ![p] = {}]
    /\ todo' = [todo EXCEPT ![p] = {}]
    /\ target' = [target EXCEPT ![p] = NoCategory]
    /\ failures' = [failures EXCEPT ![p] = FALSE]

\* Mutants of Finish: the file goes whatever happened; a failure exits like a
\* usage error.
FinishAndForget(p) ==
    /\ at[p] = "next"
    /\ todo[p] = {}
    /\ Delete
    /\ code' = [code EXCEPT ![p] = IF failures[p] THEN 1 ELSE 0]
    /\ Gone(p)
    /\ UNCHANGED remote

FinishWithTwo(p) ==
    /\ at[p] = "next"
    /\ todo[p] = {}
    /\ IF failures[p] THEN UNCHANGED disk ELSE Delete
    /\ code' = [code EXCEPT ![p] = IF failures[p] THEN 2 ELSE 0]
    /\ Gone(p)
    /\ UNCHANGED remote

\* The file goes only when every entry was removed; it is never rewritten.
Finish(p) ==
    /\ at[p] = "next"
    /\ todo[p] = {}
    /\ IF failures[p] THEN UNCHANGED disk ELSE Delete
    /\ code' = [code EXCEPT ![p] = IF failures[p] THEN 1 ELSE 0]
    /\ Gone(p)
    /\ UNCHANGED remote

\* The command handles no signal: SIGINT ends it like any other.
KillCommand(p) ==
    /\ at[p] # "idle"
    /\ Gone(p)
    /\ UNCHANGED <<shared, code>>

\* Every command ends at once.
EveryCommandGone ==
    /\ at' = [p \in Commands |-> "idle"]
    /\ loaded' = [p \in Commands |-> {}]
    /\ todo' = [p \in Commands |-> {}]
    /\ target' = [p \in Commands |-> NoCategory]
    /\ failures' = [p \in Commands |-> FALSE]

StartCommand(p) == LoadFails(p) \/ Load(p)

CommandStep(p) ==
    \/ NoEngine(p) \/ TakeEntry(p)
    \/ Verify(p) \/ Purge(p) \/ Drop(p)
    \/ Finish(p)
=============================================================================
