----------------------------- MODULE BenchSystem -----------------------------
(***************************************************************************)
(* One run and the `cleanup` commands given its run ID, over the same      *)
(* remote resources and the same manifest file.  There is no lock between  *)
(* the processes.                                                          *)
(***************************************************************************)
EXTENDS Runner, CleanupCommand

CONSTANTS
    CleanupDuringRun,   \* `cleanup` may be given the ID of a run that has not ended
    PowerMayFail        \* the host may lose power

ASSUME SwitchesAssumption == CleanupDuringRun \in BOOLEAN /\ PowerMayFail \in BOOLEAN

systemVars == <<vars, commandVars>>

SystemInit == Init /\ CommandInit

RunMoves == RunNext /\ UNCHANGED commandVars

CommandMoves ==
    /\ \E p \in Commands :
        \/ StartCommand(p) /\ (CleanupDuringRun \/ pc \in Over)
        \/ CommandStep(p)
        \/ KillCommand(p)
    /\ UNCHANGED runVars

\* The manifest as it was saved after the first i categories.
SavedVersion(i) == {selection[j] : j \in 1..i} \intersect manifest

\* The result document as it was written after the first i categories.
WrittenDocument(i) ==
    LET ran == {selection[j] : j \in 1..i}
    IN  [status |-> "running",
         benchmark |-> [c \in Categories |-> IF c \in ran THEN benchmark[c] ELSE "none"],
         resource |-> [c \in Categories |->
                        IF c \in ran /\ resource[c] # "none" THEN "pending" ELSE "none"]]

NoDocument == [status |-> "none",
               benchmark |-> [c \in Categories |-> "none"],
               resource |-> [c \in Categories |-> "none"]]

\* Every document that has been in the output directory, and none.
PersistedDocuments ==
    {doc} \union IF doc.status = "none" THEN {}
                 ELSE {NoDocument} \union {WrittenDocument(i) : i \in 0..(n - 1)}

\* The host goes down, while the run goes on or later.  The manifest file was
\* renamed or removed without a sync: an older version, or no readable one, may
\* be there afterwards, also when it had been deleted.  So may an older result
\* document, or none: its bytes are synced, its rename is not.
PowerFails ==
    /\ PowerMayFail
    /\ pc' = IF pc \in Over THEN pc ELSE "killed"
    /\ EveryCommandGone
    /\ \E i \in 0..Len(selection) : disk' = SavedVersion(i)
    /\ doc' \in PersistedDocuments
    /\ UNCHANGED <<remote, n, world, memory, removal, exit, interrupted, aborting, code>>

SystemNext == RunMoves \/ CommandMoves \/ PowerFails

\* A started command ends: its calls share a context of five minutes.
SystemFairness ==
    /\ WF_systemVars(Bounded /\ ExecuteStep /\ UNCHANGED commandVars)
    /\ \A p \in Commands : WF_systemVars(CommandStep(p) /\ UNCHANGED runVars)

SystemSpec == SystemInit /\ [][SystemNext]_systemVars /\ SystemFairness

SystemTypeOK == TypeOK /\ CommandTypeOK

-----------------------------------------------------------------------------
(* Properties *)

\* `cleanup` says 0 only when nothing is left of any entry it loaded, whatever
\* the other commands removed in the meantime.
CommandZeroIsClean ==
    [][\A p \in Commands : Finish(p) /\ code'[p] = 0 =>
            \A k \in KindsOf(loaded[p]) : ~Ours(remote[k])]_systemVars

\* No process gives the manifest file up before nothing is left of its entries,
\* so a later `cleanup` finds what a failed or killed one left behind, and what
\* a loss of power brought back.
ForgetsOnlyWhatIsGone ==
    [][\/ PowerFails
       \/ \A k \in KindsOf(disk) \ KindsOf(disk') : ~Ours(remote'[k])]_systemVars

\* Whoever removes it, a resource loses its marker or goes away only if the
\* run recorded it, and one the run did not create is never touched.
RemovesOnlyRecorded ==
    [][\A k \in Kinds :
        /\ remote[k] = "foreign" => remote'[k] = "foreign"
        /\ remote[k] = "marked" /\ remote'[k] # "marked" => k \in KindsOf(manifest)
        /\ remote[k] = "bare" /\ remote'[k] = "absent" => k \in KindsOf(manifest)]_systemVars

\* "Exit 1 means ... left cleanup incomplete" (docs/benchmark-contract.md):
\* `cleanup` reports a failure only while something of its entries exists.
FailureMeansLeftover ==
    [][\A p \in Commands : Finish(p) /\ code'[p] = 1 =>
            \E k \in KindsOf(loaded[p]) : remote[k] # "absent"]_systemVars

\* A started command ends or is killed.
CommandEnds == \A p \in Commands : at[p] # "idle" ~> at[p] = "idle"
=============================================================================
