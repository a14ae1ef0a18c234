---------------------------- MODULE SystemProofs ----------------------------
(***************************************************************************)
(* The run and the `cleanup` commands together.  The commands and a power  *)
(* failure only ever take away: a resource the manifest lists loses its    *)
(* marker or goes, the manifest file loses entries.  RobustInv of the run  *)
(* survives that (Interference), so what the run says when it returns      *)
(* holds whatever is done meanwhile.  What the commands say is proved for  *)
(* `cleanup` given the ID of a run that is over (RunGoneInv).              *)
(***************************************************************************)
EXTENDS BenchSystem, RunnerProofs

\* A command works on entries the run recorded, whatever the manifest file has
\* become since the command read it.
EntriesInv ==
    \A p \in Commands :
        /\ loaded[p] \subseteq manifest
        /\ todo[p] \subseteq loaded[p]
        /\ at[p] \in RemovalPCs => target[p] \in todo[p]

SystemInv == RobustInv /\ CommandTypeOK /\ EntriesInv

\* While a command runs the run is over and nothing joins the manifest file;
\* an entry the command has handled is gone or counted as a failure.
RunGoneInv ==
    \A p \in Commands : at[p] # "idle" =>
        /\ pc \in Over
        /\ disk \subseteq loaded[p]
        /\ \A c \in loaded[p] \ todo[p] : failures[p] \/ ~Ours(remote[KindOf[c]])

-----------------------------------------------------------------------------
\* What the commands and a power failure may do to the shared state.
TakesAway ==
    /\ SharedTypeOK'
    /\ disk' \subseteq manifest
    /\ \A k \in Kinds : Ours(remote[k])' => Ours(remote[k])
    /\ \A k \in Kinds : remote'[k] = "foreign" => remote[k] = "foreign"

LEMMA Interference ==
    ASSUME RobustInv, TakesAway, UNCHANGED runVars PROVE RobustInv'
<1> USE DEF runVars, progress, world, memory, removal, outcome
<1>1. TypeOK'
    BY DEF RobustInv, TakesAway, TypeOK
<1>2. LoopInv'
    BY DEF RobustInv, LoopInv, PositionInv, FreshInv, RanInv, Current
<1>3. ListedInv' /\ PendingInv'
    BY DEF RobustInv, TakesAway, LedgerInv, ListedInv, PendingInv, Confirming
<1>4. HeldInv'
  <2>1. \A k \in Kinds : Accounted(k)' <=> Accounted(k)
    BY DEF Accounted, CurrentKind, Current
  <2> QED BY <2>1 DEF RobustInv, TakesAway, LedgerInv, HeldInv
<1>5. DeletedIsGone'
    BY KindFacts DEF RobustInv, TakesAway, LedgerInv, DeletedIsGone
<1>6. ForeignInv'
  <2>1. pc \in {"mark", "record"} => CurrentKind \in Kinds
    BY KindFacts DEF RobustInv, LoopInv, PositionInv, CurrentKind
  <2>2. CurrentKind' = CurrentKind
    BY DEF CurrentKind, Current
  <2> QED BY <2>1, <2>2, KindFacts DEF RobustInv, TakesAway, RemovalInv, ForeignInv, TypeOK
<1>7. EntryInv' /\ ReturnInv'
    BY DEF RobustInv, RemovalInv, EntryInv, ReturnInv, FinalStatuses, Matches, Pending, Document
<1> QED BY <1>1, <1>2, <1>3, <1>4, <1>5, <1>6, <1>7 DEF RobustInv, LoopInv, LedgerInv, RemovalInv

\* What a command is about to remove was recorded by the run, and is not
\* something that was there before.
LEMMA TargetFacts ==
    ASSUME SystemInv, NEW p \in Commands, at[p] \in RemovalPCs
    PROVE  /\ KindOf[target[p]] \in Kinds
           /\ KindOf[target[p]] \in KindsOf(manifest)
           /\ remote[KindOf[target[p]]] # "foreign"
<1>1. target[p] \in manifest
    BY DEF SystemInv, EntriesInv
<1>2. manifest \subseteq Owners
    BY DEF SystemInv, RobustInv, TypeOK
<1> QED BY <1>1, <1>2, KindFacts DEF SystemInv, RobustInv, RemovalInv, ForeignInv, KindsOf

\* A remote call of a command, or none, on the entry it works on.
LEMMA RemovalTakesAway ==
    ASSUME SystemInv, NEW p \in Commands, Purge(p) \/ Drop(p)
    PROVE  /\ TakesAway
           /\ \A k \in Kinds : remote'[k] # remote[k] =>
                    k \in KindsOf(manifest) /\ remote[k] # "foreign"
<1> DEFINE k == KindOf[target[p]]
<1>1. k \in Kinds /\ k \in KindsOf(manifest) /\ remote[k] # "foreign"
    BY TargetFacts DEF Purge, Drop, RemovalPCs
<1>2. remote \in [Kinds -> RemoteStates] /\ disk \subseteq Owners /\ disk \subseteq manifest
    BY DEF SystemInv, RobustInv, TypeOK, SharedTypeOK, LedgerInv, ListedInv
<1>3. PICK t \in RemoteStates :
        /\ remote' = [remote EXCEPT ![k] = t]
        /\ t = remote[k] \/ (remote[k] # "absent" /\ t \in {"bare", "absent"})
    BY DEF Purge, Drop, PurgeCall, DropCall, NotApplied
<1>4. remote' \in [Kinds -> RemoteStates] /\ disk' = disk
    BY <1>2, <1>3 DEF Purge, Drop
<1>5. \A j \in Kinds : \/ remote'[j] = remote[j]
                       \/ /\ j = k
                          /\ remote[j] \in {"bare", "marked"}
                          /\ remote'[j] \in {"bare", "absent"}
    BY <1>1, <1>2, <1>3 DEF RemoteStates
<1> HIDE DEF k
<1>6. \A j \in Kinds : Ours(remote[j])' => Ours(remote[j])
    BY <1>5 DEF Ours
<1> QED BY <1>1, <1>2, <1>4, <1>5, <1>6 DEF TakesAway, SharedTypeOK

\* The other steps of a command leave the remote side alone, and all but the
\* last one the manifest file.
LEMMA LocalTakesAway ==
    ASSUME SystemInv, remote' = remote, disk' \in {{}, disk} PROVE TakesAway
BY DEF SystemInv, RobustInv, TypeOK, SharedTypeOK, LedgerInv, ListedInv, TakesAway, Ours
-----------------------------------------------------------------------------
(* Each step of a command keeps its own bookkeeping. *)

LEMMA StartCommandInv ==
    ASSUME SystemInv, NEW p \in Commands, StartCommand(p), UNCHANGED runVars
    PROVE  CommandTypeOK' /\ EntriesInv'
<1>1. disk \subseteq manifest /\ disk \subseteq Owners /\ manifest' = manifest
    BY DEF SystemInv, RobustInv, TypeOK, SharedTypeOK, LedgerInv, ListedInv, runVars, memory
<1>2. CASE LoadFails(p)
    BY <1>1, <1>2 DEF SystemInv, CommandTypeOK, EntriesInv, LoadFails
<1>3. CASE Load(p)
  <2>1. CommandTypeOK'
    BY <1>1, <1>3 DEF SystemInv, CommandTypeOK, Load, Steps
  <2>2. EntriesInv'
    BY <1>1, <1>3 DEF SystemInv, CommandTypeOK, EntriesInv, Load, RemovalPCs
  <2> QED BY <2>1, <2>2
<1> QED BY <1>2, <1>3 DEF StartCommand

\* The entry handled leaves the list and is no target any more.
LEMMA HandledInv ==
    ASSUME SystemInv, NEW p \in Commands, NEW c, NEW ok \in BOOLEAN, Handled(p, c, ok),
           UNCHANGED <<manifest, loaded, code>>
    PROVE  CommandTypeOK' /\ EntriesInv'
<1>1. failures' \in [Commands -> BOOLEAN]
    BY DEF SystemInv, CommandTypeOK, Handled
<1>2. CommandTypeOK'
    BY <1>1 DEF SystemInv, CommandTypeOK, Handled, Steps
<1>3. EntriesInv'
    BY DEF SystemInv, CommandTypeOK, EntriesInv, Handled, RemovalPCs
<1> QED BY <1>2, <1>3

LEMMA TakeEntryInv ==
    ASSUME SystemInv, NEW p \in Commands, TakeEntry(p), UNCHANGED runVars
    PROVE  CommandTypeOK' /\ EntriesInv'
<1>1. CommandTypeOK'
    BY DEF SystemInv, CommandTypeOK, TakeEntry, Steps
<1>2. EntriesInv'
    BY DEF SystemInv, CommandTypeOK, EntriesInv, TakeEntry, RemovalPCs, runVars, memory
<1> QED BY <1>1, <1>2

\* The call succeeded and the next one on the same entry follows.
LEMMA NextCallInv ==
    ASSUME SystemInv, NEW p \in Commands, at[p] \in RemovalPCs, NEW s \in {"purge", "drop"},
           at' = [at EXCEPT ![p] = s], UNCHANGED <<manifest, loaded, todo, target, failures, code>>
    PROVE  CommandTypeOK' /\ EntriesInv'
<1>1. CommandTypeOK'
    BY DEF SystemInv, CommandTypeOK, Steps
<1>2. EntriesInv'
    BY DEF SystemInv, CommandTypeOK, EntriesInv
<1> QED BY <1>1, <1>2

\* What a command had in memory goes with it.
LEMMA GoneInv ==
    ASSUME SystemInv, NEW p \in Commands, Gone(p), manifest' = manifest,
           code' \in [Commands -> {NoExit, 0, 1}]
    PROVE  CommandTypeOK' /\ EntriesInv'
<1>1. CommandTypeOK'
    BY DEF SystemInv, CommandTypeOK, Gone, Steps
<1>2. EntriesInv'
    BY DEF SystemInv, CommandTypeOK, EntriesInv, Gone, RemovalPCs
<1> QED BY <1>1, <1>2

LEMMA CommandStepInv ==
    ASSUME SystemInv, NEW p \in Commands, CommandStep(p), UNCHANGED runVars
    PROVE  CommandTypeOK' /\ EntriesInv' /\ TakesAway
<1> USE DEF runVars, memory
<1>1. CASE NoEngine(p)
    BY <1>1, HandledInv, LocalTakesAway DEF NoEngine, shared
<1>2. CASE TakeEntry(p)
    BY <1>2, TakeEntryInv, LocalTakesAway DEF TakeEntry, shared
<1>3. CASE Verify(p)
    BY <1>3, HandledInv, NextCallInv, LocalTakesAway DEF Verify, RemovalPCs, shared
<1>4. CASE Purge(p)
    BY <1>4, HandledInv, NextCallInv, RemovalTakesAway DEF Purge, RemovalPCs
<1>5. CASE Drop(p)
    BY <1>5, HandledInv, RemovalTakesAway DEF Drop
<1>6. CASE Finish(p)
  <2>1. code' \in [Commands -> {NoExit, 0, 1}]
    BY <1>6 DEF SystemInv, CommandTypeOK, Finish
  <2> QED BY <1>6, <2>1, GoneInv, LocalTakesAway DEF Finish, Delete
<1> QED BY <1>1, <1>2, <1>3, <1>4, <1>5, <1>6 DEF CommandStep

LEMMA CommandMovesInv == ASSUME SystemInv, CommandMoves PROVE SystemInv'
<1>1. PICK p \in Commands : StartCommand(p) \/ CommandStep(p) \/ KillCommand(p)
    BY DEF CommandMoves
<1>2. UNCHANGED runVars
    BY DEF CommandMoves
<1>3. CommandTypeOK' /\ EntriesInv' /\ TakesAway
  <2>1. CASE StartCommand(p)
    BY <1>2, <2>1, StartCommandInv, LocalTakesAway DEF StartCommand, LoadFails, Load, shared
  <2>2. CASE CommandStep(p)
    BY <1>2, <2>2, CommandStepInv
  <2>3. CASE KillCommand(p)
    BY <1>2, <2>3, GoneInv, LocalTakesAway
    DEF SystemInv, CommandTypeOK, KillCommand, shared, runVars, memory
  <2> QED BY <1>1, <2>1, <2>2, <2>3
<1> QED BY <1>2, <1>3, Interference DEF SystemInv

-----------------------------------------------------------------------------
\* The list of what the run owns is never shortened.
LEMMA ManifestGrows == ASSUME RunNext PROVE manifest \subseteq manifest'
BY DEF RunNext, ExecuteStep, LoopStep, CleanupStep, Ask, Refuse, Begin, LeaveLoop, RunLocal,
    EngineUnavailable, EngineReady, CreateResource, WriteMarker, RecordResource, Measure,
    PersistCategory, KeepEntries, RefuseEntry, CleanEntry, VerifyMarker, PurgeBucket,
    DropResource, EndCleanup, ReturnError, ReturnResult, Interrupt, Kill, memory

LEMMA RunMovesInv == ASSUME SystemInv, RunMoves PROVE SystemInv'
<1>1. RobustInv'
    BY NextKeeps DEF SystemInv, RunMoves, Next
<1>2. CommandTypeOK' /\ EntriesInv'
    BY ManifestGrows DEF SystemInv, RunMoves, commandVars, CommandTypeOK, EntriesInv
<1> QED BY <1>1, <1>2 DEF SystemInv

\* A document that has been written: the last one, an earlier one without a
\* final status, or none.
LEMMA PersistedFacts ==
    ASSUME TypeOK, NEW d \in PersistedDocuments
    PROVE  /\ d \in Documents
           /\ d = doc \/ d.status \in {"none", "running"}
<1>1. NoDocument \in Documents /\ NoDocument.status = "none"
    BY DEF NoDocument, Documents, RunStatuses, BenchmarkStatuses, CleanupStatuses
<1>2. ASSUME NEW i \in 0..(n - 1)
      PROVE  WrittenDocument(i) \in Documents /\ WrittenDocument(i).status = "running"
  <2> DEFINE ran == {selection[j] : j \in 1..i}
             b == [c \in Categories |-> IF c \in ran THEN benchmark[c] ELSE "none"]
             r == [c \in Categories |->
                    IF c \in ran /\ resource[c] # "none" THEN "pending" ELSE "none"]
  <2>1. b \in [Categories -> BenchmarkStatuses]
    BY DEF TypeOK, BenchmarkStatuses
  <2>2. r \in [Categories -> CleanupStatuses]
    BY DEF CleanupStatuses
  <2>3. WrittenDocument(i) = [status |-> "running", benchmark |-> b, resource |-> r]
    BY DEF WrittenDocument
  <2> HIDE DEF b, r
  <2> QED BY <2>1, <2>2, <2>3 DEF Documents, RunStatuses
<1> QED BY <1>1, <1>2 DEF PersistedDocuments, TypeOK

\* What is in memory is frozen, and each file is one that was saved before.
LEMMA PowerFailsInv == ASSUME SystemInv, PowerFails PROVE SystemInv'
<1>1. disk' \subseteq manifest /\ manifest' = manifest
    BY DEF PowerFails, SavedVersion, memory
<1>2. doc' \in Documents /\ (doc' = doc \/ doc'.status \in {"none", "running"})
    BY PersistedFacts DEF SystemInv, RobustInv, PowerFails
<1>3. TypeOK'
    BY <1>1, <1>2 DEF SystemInv, RobustInv, PowerFails, TypeOK, SharedTypeOK, PCs, world, memory,
        removal
<1>4. RobustInv'
  <2>1. CASE pc \in Over
    <3>1. pc' = pc
      BY <2>1 DEF PowerFails
    <3>2. LoopInv' /\ LedgerInv' /\ RemovalInv'
      BY <1>1, <3>1 DEF SystemInv, RobustInv, PowerFails, LoopInv, PositionInv, FreshInv,
          RanInv, LedgerInv, ListedInv, PendingInv, HeldInv, Accounted, DeletedIsGone, RemovalInv,
          ForeignInv, EntryInv, Matches, Current, CurrentKind, world, memory, removal
    <3>3. ReturnInv'
      BY <1>2, <3>1 DEF SystemInv, RobustInv, PowerFails, ReturnInv, FinalStatuses, Pending,
          Document, world, memory
    <3> QED BY <1>3, <3>2, <3>3 DEF RobustInv
  <2>2. CASE pc \notin Over
    <3>1. pc' = "killed"
      BY <2>2 DEF PowerFails
    <3>2. LoopInv' /\ LedgerInv' /\ RemovalInv'
      BY <1>1, <3>1 DEF SystemInv, RobustInv, PowerFails, Over, Confirming, LoopInv, PositionInv,
          FreshInv, RanInv, LedgerInv, ListedInv, PendingInv, HeldInv, DeletedIsGone, RemovalInv,
          ForeignInv, EntryInv, LoopPCs, RemovalPCs, world, memory
    <3>3. ReturnInv'
      BY <1>2, <2>2, <3>1 DEF SystemInv, RobustInv, PowerFails, Over, ReturnInv, FinalStatuses,
          RemovalPCs, NoExit
    <3> QED BY <1>3, <3>2, <3>3 DEF RobustInv
  <2> QED BY <2>1, <2>2
<1>5. CommandTypeOK'
    BY DEF SystemInv, PowerFails, EveryCommandGone, CommandTypeOK, Steps
<1>6. EntriesInv'
    BY DEF PowerFails, EveryCommandGone, EntriesInv, RemovalPCs
<1> QED BY <1>4, <1>5, <1>6 DEF SystemInv

LEMMA SystemInitInv == SystemInit => SystemInv
<1> SUFFICES ASSUME SystemInit PROVE SystemInv
    OBVIOUS
<1>1. RobustInv
    BY InitInv DEF SystemInit, IInv
<1>2. CommandTypeOK /\ EntriesInv
    BY DEF SystemInit, CommandInit, CommandTypeOK, EntriesInv, Steps, RemovalPCs
<1> QED BY <1>1, <1>2 DEF SystemInv

LEMMA SystemNextInv == SystemInv /\ [SystemNext]_systemVars => SystemInv'
<1> SUFFICES ASSUME SystemInv, [SystemNext]_systemVars PROVE SystemInv'
    OBVIOUS
<1>1. CASE SystemNext
    BY <1>1, RunMovesInv, CommandMovesInv, PowerFailsInv DEF SystemNext
<1>2. CASE UNCHANGED systemVars
  <2>1. RobustInv'
    BY <1>2, NextKeeps DEF SystemInv, systemVars
  <2>2. CommandTypeOK' /\ EntriesInv'
    BY <1>2 DEF SystemInv, systemVars, vars, runVars, memory, commandVars, CommandTypeOK, EntriesInv
  <2> QED BY <2>1, <2>2 DEF SystemInv
<1> QED BY <1>1, <1>2

\* RobustInv, the types of the commands and what they work on, whoever runs
\* meanwhile, with or without power.
THEOREM SystemInvariantHolds == SystemSpec => []SystemInv
<1>1. SystemSpec => SystemInit /\ [][SystemNext]_systemVars
    BY DEF SystemSpec
<1> QED BY <1>1, SystemInitInv, SystemNextInv, PTL

\* The variables of the run, of the commands and of what they share keep their
\* types (runner.Execute, runner.Cleanup, manifest.Store).
THEOREM SystemTypeCorrect == SystemSpec => []SystemTypeOK
<1>1. SystemInv => SystemTypeOK
    BY DEF SystemInv, RobustInv, SystemTypeOK
<1> QED BY <1>1, SystemInvariantHolds, PTL

\* A result document with its final status accounts for what the run left, also
\* when `cleanup` is given its ID before it has returned, and whatever a loss of
\* power takes away (Execute's end, result.WriteAtomic).
THEOREM DocumentAccountsHolds == SystemSpec => []DocumentAccounts
<1>1. SystemInv => DocumentAccounts
    BY RobustAccounts DEF SystemInv
<1> QED BY <1>1, SystemInvariantHolds, PTL

\* Exit 0, and "success" in whichever document there is, are said only of a run
\* that measured everything and left nothing that --keep-resources did not ask
\* for (status, cli.runBenchmarks).
THEOREM SuccessIsCleanHolds == SystemSpec => []SuccessIsClean
<1>1. SystemInv => SuccessIsClean
    BY RobustSuccessIsClean DEF SystemInv
<1> QED BY <1>1, SystemInvariantHolds, PTL

\* "deleted" is never said of a resource that exists, whoever dropped it.
THEOREM DeletedIsGoneAmidCleanup == SystemSpec => []DeletedIsGone
<1>1. SystemInv => DeletedIsGone
    BY DEF SystemInv, RobustInv, LedgerInv
<1> QED BY <1>1, SystemInvariantHolds, PTL

-----------------------------------------------------------------------------
\* Only what the run recorded loses its marker or goes.
Removed(k) ==
    /\ remote[k] = "foreign" => remote'[k] = "foreign"
    /\ remote[k] = "marked" /\ remote'[k] # "marked" => k \in KindsOf(manifest)
    /\ remote[k] = "bare" /\ remote'[k] = "absent" => k \in KindsOf(manifest)

LEMMA RunRemovesRecorded ==
    ASSUME SystemInv, RunNext, NEW k \in Kinds PROVE Removed(k)
<1> USE DEF Removed
<1>1. remote \in [Kinds -> RemoteStates]
    BY DEF SystemInv, RobustInv, TypeOK, SharedTypeOK
<1>2. CASE CreateResource
    BY <1>1, <1>2 DEF CreateResource, CreateCall, NotApplied
<1>3. CASE WriteMarker
  <2>1. remote[CurrentKind] # "foreign"
    BY <1>3 DEF SystemInv, RobustInv, RemovalInv, ForeignInv, WriteMarker
  <2> QED BY <1>1, <1>3, <2>1 DEF WriteMarker, MarkCall, NotApplied
<1>4. CASE PurgeBucket \/ DropResource
  <2>1. KindOf[entry] \in KindsOf(manifest) /\ remote[KindOf[entry]] # "foreign"
    BY <1>4, EntryFacts DEF SystemInv, PurgeBucket, DropResource, RemovalPCs
  <2>2. remote'[k] = remote[k] \/ k = KindOf[entry]
    BY <1>1, <1>4 DEF PurgeBucket, DropResource
  <2> QED BY <2>1, <2>2
<1>5. CASE remote' = remote
    BY <1>5
<1> QED
    BY <1>2, <1>3, <1>4, <1>5 DEF RunNext, ExecuteStep, LoopStep, CleanupStep, Ask, Refuse, Begin,
        LeaveLoop, RunLocal, EngineUnavailable, EngineReady, RecordResource, Measure,
        PersistCategory, KeepEntries, RefuseEntry, CleanEntry, VerifyMarker, EndCleanup,
        ReturnError, ReturnResult, Interrupt, Kill, shared

LEMMA CommandRemovesRecorded ==
    ASSUME SystemInv, CommandMoves, NEW k \in Kinds PROVE Removed(k)
<1>1. PICK p \in Commands : StartCommand(p) \/ CommandStep(p) \/ KillCommand(p)
    BY DEF CommandMoves
<1>2. CASE Purge(p) \/ Drop(p)
  <2>1. remote'[k] # remote[k] => k \in KindsOf(manifest) /\ remote[k] # "foreign"
    BY <1>2, RemovalTakesAway
  <2> QED BY <2>1 DEF Removed
<1>3. CASE remote' = remote
    BY <1>3 DEF Removed
<1> QED
    BY <1>1, <1>2, <1>3 DEF StartCommand, LoadFails, Load, CommandStep, NoEngine, TakeEntry,
        Verify, Finish, KillCommand, shared

\* Whoever removes it, a resource loses its marker or goes only if the run
\* recorded it, and one the run did not create is never touched (the engines'
\* EnsureDatabase and Cleanup, s3bench.Run and Cleanup).
THEOREM RemovesOnlyRecordedHolds == SystemSpec => RemovesOnlyRecorded
<1>1. SystemInv /\ [SystemNext]_systemVars =>
        [\A k \in Kinds :
            /\ remote[k] = "foreign" => remote'[k] = "foreign"
            /\ remote[k] = "marked" /\ remote'[k] # "marked" => k \in KindsOf(manifest)
            /\ remote[k] = "bare" /\ remote'[k] = "absent" => k \in KindsOf(manifest)]_systemVars
  <2> SUFFICES ASSUME SystemInv, SystemNext, NEW k \in Kinds PROVE Removed(k)
    BY DEF Removed
  <2>1. CASE RunMoves
    BY <2>1, RunRemovesRecorded DEF RunMoves
  <2>2. CASE CommandMoves
    BY <2>2, CommandRemovesRecorded
  <2>3. CASE PowerFails
    BY <2>3 DEF PowerFails, Removed
  <2> QED BY <2>1, <2>2, <2>3 DEF SystemNext
<1>2. SystemSpec => SystemInit /\ [][SystemNext]_systemVars
    BY DEF SystemSpec
<1> QED BY <1>1, <1>2, SystemInvariantHolds, PTL DEF RemovesOnlyRecorded

-----------------------------------------------------------------------------
(* What a command says of a run that is over. *)

\* The step ends a command, and takes nothing else than the shared state.
LEMMA GoneKeepsRunGone ==
    ASSUME SystemInv, RunGoneInv, NEW p \in Commands, Gone(p), remote' = remote,
           disk' \subseteq disk, pc' = pc
    PROVE  RunGoneInv'
<1> SUFFICES ASSUME NEW q \in Commands, at'[q] # "idle"
             PROVE  /\ pc' \in Over
                    /\ disk' \subseteq loaded'[q]
                    /\ \A c \in loaded'[q] \ todo'[q] :
                            failures'[q] \/ ~Ours(remote[KindOf[c]])'
    BY DEF RunGoneInv
<1>1. q # p /\ at[q] # "idle"
    BY DEF SystemInv, CommandTypeOK, Gone
<1>2. loaded'[q] = loaded[q] /\ todo'[q] = todo[q] /\ failures'[q] = failures[q]
    BY <1>1 DEF SystemInv, CommandTypeOK, Gone
<1>3. \A c \in loaded[q] \ todo[q] : failures[q] \/ ~Ours(remote[KindOf[c]])
    BY <1>1 DEF RunGoneInv
<1> QED BY <1>1, <1>2, <1>3 DEF RunGoneInv, Ours

\* A command at work handles at most one entry, which is gone unless the
\* failure is counted; what was gone stays gone.
LEMMA WorkKeepsRunGone ==
    ASSUME SystemInv, RunGoneInv, TakesAway, NEW p \in Commands, NEW c,
           at[p] # "idle", UNCHANGED <<pc, disk, loaded>>,
           \A q \in Commands : q # p => at'[q] = at[q],
           \A q \in Commands : todo[q] \ todo'[q] \subseteq (IF q = p THEN {c} ELSE {}),
           \A q \in Commands : failures[q] => failures'[q],
           c \in todo[p] \ todo'[p] => failures'[p] \/ ~Ours(remote[KindOf[c]])'
    PROVE  RunGoneInv'
<1> SUFFICES ASSUME NEW q \in Commands, at'[q] # "idle"
             PROVE  /\ pc \in Over
                    /\ disk \subseteq loaded[q]
                    /\ \A d \in loaded[q] \ todo'[q] :
                            failures'[q] \/ ~Ours(remote[KindOf[d]])'
    BY DEF RunGoneInv
<1>1. at[q] # "idle"
    OBVIOUS
<1>2. ASSUME NEW d \in loaded[q] \ todo[q] PROVE failures'[q] \/ ~Ours(remote[KindOf[d]])'
  <2>1. failures[q] \/ ~Ours(remote[KindOf[d]])
    BY <1>1 DEF RunGoneInv
  <2>2. KindOf[d] \in Kinds
    BY KindFacts DEF SystemInv, EntriesInv, RobustInv, TypeOK
  <2> QED BY <2>1, <2>2 DEF TakesAway
<1> QED BY <1>1, <1>2 DEF RunGoneInv

LEMMA HandledKeepsRunGone ==
    ASSUME SystemInv, RunGoneInv, TakesAway, NEW p \in Commands, NEW c, NEW ok \in BOOLEAN,
           at[p] # "idle", Handled(p, c, ok), UNCHANGED <<pc, disk, loaded>>,
           ok => ~Ours(remote[KindOf[c]])'
    PROVE  RunGoneInv'
<1>1. failures' \in [Commands -> BOOLEAN] /\ failures'[p] = (failures[p] \/ ~ok)
    BY DEF SystemInv, CommandTypeOK, Handled
<1>2. \A q \in Commands : q # p => at'[q] = at[q] /\ todo'[q] = todo[q] /\ failures'[q] = failures[q]
    BY DEF SystemInv, CommandTypeOK, Handled
<1>3. todo'[p] = todo[p] \ {c}
    BY DEF SystemInv, CommandTypeOK, Handled
<1>4. ~ok => failures'[p]
    BY <1>1
<1> QED BY <1>1, <1>2, <1>3, <1>4, WorkKeepsRunGone

LEMMA CommandKeepsRunGone ==
    ASSUME SystemInv, RunGoneInv, ~CleanupDuringRun, CommandMoves PROVE RunGoneInv'
<1>1. PICK p \in Commands : \/ StartCommand(p) /\ pc \in Over
                            \/ CommandStep(p)
                            \/ KillCommand(p)
    BY DEF CommandMoves
<1>2. pc' = pc /\ UNCHANGED runVars
    BY DEF CommandMoves, runVars, progress
<1>3. CASE LoadFails(p)
    BY <1>2, <1>3 DEF RunGoneInv, LoadFails, shared
<1>4. CASE Load(p) /\ pc \in Over
    BY <1>2, <1>4 DEF SystemInv, CommandTypeOK, RunGoneInv, Load, shared
<1>5. CASE KillCommand(p)
    BY <1>2, <1>5, GoneKeepsRunGone DEF KillCommand, shared
<1>6. CASE Finish(p)
    BY <1>2, <1>6, GoneKeepsRunGone DEF Finish, Delete
<1>7. CASE TakeEntry(p)
    BY <1>2, <1>7 DEF SystemInv, CommandTypeOK, RunGoneInv, TakeEntry, shared
<1>8. CASE NoEngine(p) \/ Verify(p) \/ Purge(p) \/ Drop(p)
  <2>1. TakesAway /\ loaded' = loaded /\ disk' = disk /\ at[p] # "idle"
    BY <1>2, <1>8, CommandStepInv DEF CommandStep, NoEngine, Verify, Purge, Drop, shared
  <2>2. CASE \E c \in Owners : Handled(p, c, FALSE)
    BY <1>2, <2>1, <2>2, HandledKeepsRunGone
  <2>3. CASE /\ \A q \in Commands : q # p => at'[q] = at[q]
             /\ UNCHANGED <<todo, failures>>
    BY <1>2, <2>1, <2>3, WorkKeepsRunGone
  <2>4. CASE NoEngine(p)
    BY <2>2, <2>4 DEF SystemInv, CommandTypeOK, NoEngine
  <2>5. CASE ~NoEngine(p)
    <3>1. at[p] \in RemovalPCs
      BY <1>8, <2>5 DEF Verify, Purge, Drop, RemovalPCs
    <3>2. PICK d \in Owners : d = target[p]
      BY <3>1 DEF SystemInv, EntriesInv, CommandTypeOK
    <3>3. CASE Verify(p)
      BY <2>2, <2>3, <3>2, <3>3 DEF SystemInv, CommandTypeOK, Verify
    <3>4. CASE Purge(p)
      BY <2>2, <2>3, <3>2, <3>4 DEF SystemInv, CommandTypeOK, Purge
    <3>5. CASE Drop(p)
      <4>1. remote \in [Kinds -> RemoteStates] /\ KindOf[d] \in Kinds
        BY <3>2, KindFacts DEF SystemInv, RobustInv, TypeOK, SharedTypeOK
      <4>2. PICK t \in RemoteStates, ok \in BOOLEAN :
              /\ DropCall(KindOf[d], remote[KindOf[d]], t, ok)
              /\ remote' = [remote EXCEPT ![KindOf[d]] = t]
              /\ Handled(p, d, ok)
        BY <3>2, <3>5 DEF Drop
      <4>3. ok => remote'[KindOf[d]] = "absent"
        BY <4>1, <4>2 DEF DropCall, NotApplied
      <4>4. ok => ~Ours(remote[KindOf[d]])'
        BY <4>3 DEF Ours
      <4> QED BY <1>2, <2>1, <4>2, <4>4, HandledKeepsRunGone
    <3> QED BY <1>8, <2>5, <3>3, <3>4, <3>5
  <2> QED BY <2>4, <2>5
<1> QED BY <1>1, <1>3, <1>4, <1>5, <1>6, <1>7, <1>8 DEF StartCommand, CommandStep

\* A run that moves is not over, so no command is at work.
LEMMA RunKeepsRunGone ==
    ASSUME RunGoneInv, RunMoves PROVE RunGoneInv'
BY MovingIsNotOver DEF RunGoneInv, RunMoves, commandVars

\* RunGoneInv holds throughout, if `cleanup` is only given the ID of a run that
\* is over; a power failure ends every command.
LEMMA RunGoneHolds ==
    ASSUME ~CleanupDuringRun
    PROVE  SystemSpec => [](SystemInv /\ RunGoneInv)
<1>1. SystemInit => RunGoneInv
    BY DEF SystemInit, CommandInit, RunGoneInv
<1>2. SystemInv /\ RunGoneInv /\ [SystemNext]_systemVars => RunGoneInv'
  <2> SUFFICES ASSUME SystemInv, RunGoneInv, [SystemNext]_systemVars PROVE RunGoneInv'
    OBVIOUS
  <2>1. CASE RunMoves
    BY <2>1, RunKeepsRunGone
  <2>2. CASE CommandMoves
    BY <2>2, CommandKeepsRunGone
  <2>3. CASE UNCHANGED systemVars
    BY <2>3 DEF RunGoneInv, systemVars, vars, runVars, progress, shared, commandVars
  <2>4. CASE PowerFails
    BY <2>4 DEF RunGoneInv, PowerFails, EveryCommandGone
  <2> QED BY <2>1, <2>2, <2>3, <2>4 DEF SystemNext
<1>3. SystemSpec => SystemInit /\ [][SystemNext]_systemVars
    BY DEF SystemSpec
<1> QED BY <1>1, <1>2, <1>3, SystemInvariantHolds, PTL

\* A command that ends without a failure has nothing left of what it loaded.
LEMMA FinishedIsGone ==
    ASSUME SystemInv, RunGoneInv, NEW p \in Commands, Finish(p), ~failures[p],
           NEW k \in KindsOf(loaded[p])
    PROVE  ~Ours(remote[k])
<1>1. PICK c \in loaded[p] : k = KindOf[c]
    BY DEF KindsOf
<1> QED BY <1>1 DEF RunGoneInv, Finish

\* `cleanup` exits 0 only when nothing is left of any entry it loaded, whatever
\* the other commands removed in the meantime (cli.runCleanup, runner.Cleanup).
THEOREM CommandZeroIsCleanHolds ==
    ASSUME ~CleanupDuringRun
    PROVE  SystemSpec => CommandZeroIsClean
<1>1. SystemInv /\ RunGoneInv =>
        [\A p \in Commands : Finish(p) /\ code'[p] = 0 =>
            \A k \in KindsOf(loaded[p]) : ~Ours(remote[k])]_systemVars
  <2> SUFFICES ASSUME SystemInv, RunGoneInv, NEW p \in Commands, Finish(p), code'[p] = 0,
                      NEW k \in KindsOf(loaded[p])
               PROVE  ~Ours(remote[k])
    OBVIOUS
  <2>1. ~failures[p]
    BY DEF SystemInv, CommandTypeOK, Finish
  <2> QED BY <2>1, FinishedIsGone
<1> QED BY <1>1, RunGoneHolds, PTL DEF CommandZeroIsClean

\* The run's own cleanup deletes the file once every entry is "deleted".
LEMMA RunForgetsGone ==
    ASSUME SystemInv, RunNext, NEW k \in KindsOf(disk) \ KindsOf(disk')
    PROVE  ~Ours(remote'[k])
<1>1. disk \subseteq manifest /\ disk \subseteq Owners
    BY DEF SystemInv, RobustInv, TypeOK, SharedTypeOK, LedgerInv, ListedInv
<1>2. PICK c \in disk : k = KindOf[c] /\ c \notin disk'
    BY DEF KindsOf
<1>3. CASE EndCleanup
  <2>1. CleanupComplete /\ remote' = remote
    BY <1>2, <1>3 DEF EndCleanup
  <2>2. resource[c] = "deleted"
    BY <1>1, <1>2, <2>1, KindFacts DEF SystemInv, RobustInv, LedgerInv, ListedInv, CleanupComplete
  <2> QED BY <1>1, <1>2, <2>1, <2>2 DEF SystemInv, RobustInv, LedgerInv, DeletedIsGone
<1>4. CASE RecordResource
    BY <1>1, <1>2, <1>4 DEF RecordResource, Save
<1> QED
    BY <1>2, <1>3, <1>4 DEF RunNext, ExecuteStep, LoopStep, CleanupStep, Ask, Refuse, Begin,
        LeaveLoop, RunLocal, EngineUnavailable, EngineReady, CreateResource, WriteMarker, Measure,
        PersistCategory, KeepEntries, RefuseEntry, CleanEntry, VerifyMarker, PurgeBucket,
        DropResource, ReturnError, ReturnResult, Interrupt, Kill, shared

\* No process gives the manifest file up before nothing is left of its entries,
\* so a later `cleanup` finds what a failed or killed one left, and works from
\* what a loss of power made of the file (Execute's cleanup closure,
\* cli.runCleanup, Store.Delete).
THEOREM ForgetsOnlyWhatIsGoneHolds ==
    ASSUME ~CleanupDuringRun
    PROVE  SystemSpec => ForgetsOnlyWhatIsGone
<1>1. SystemInv /\ RunGoneInv /\ [SystemNext]_systemVars =>
        [\/ PowerFails
         \/ \A k \in KindsOf(disk) \ KindsOf(disk') : ~Ours(remote'[k])]_systemVars
  <2> SUFFICES ASSUME SystemInv, RunGoneInv, SystemNext, ~PowerFails,
                      NEW k \in KindsOf(disk) \ KindsOf(disk')
               PROVE  ~Ours(remote'[k])
    OBVIOUS
  <2>1. CASE RunMoves
    BY <2>1, RunForgetsGone DEF RunMoves
  <2>2. CASE CommandMoves
    <3>1. disk' # disk
      OBVIOUS
    <3>2. PICK p \in Commands : Finish(p)
      BY <2>2, <3>1 DEF CommandMoves, StartCommand, LoadFails, Load, CommandStep, NoEngine,
          TakeEntry, Verify, Purge, Drop, KillCommand, shared
    <3>3. ~failures[p] /\ remote' = remote
      BY <3>1, <3>2 DEF Finish
    <3>4. k \in KindsOf(loaded[p])
      BY <3>2 DEF RunGoneInv, Finish, KindsOf
    <3> QED BY <3>2, <3>3, <3>4, FinishedIsGone
  <2> QED BY <2>1, <2>2 DEF SystemNext
<1>2. SystemSpec => SystemInit /\ [][SystemNext]_systemVars
    BY DEF SystemSpec
<1> QED BY <1>1, <1>2, RunGoneHolds, PTL DEF ForgetsOnlyWhatIsGone

-----------------------------------------------------------------------------
(* The run is alone with its resources until it is over. *)

AloneUntilOver == (pc \notin Over => AloneInv) /\ OneEntryPerResource

LEMMA AloneUntilOverHolds ==
    ASSUME ~CleanupDuringRun
    PROVE  SystemSpec => [](SystemInv /\ RunGoneInv /\ AloneUntilOver)
<1>1. SystemInit => AloneUntilOver
    BY InitInv DEF SystemInit, IInv, AloneInv, AloneUntilOver
<1>2. SystemInv /\ RunGoneInv /\ AloneUntilOver /\ [SystemNext]_systemVars => AloneUntilOver'
  <2> SUFFICES ASSUME SystemInv, RunGoneInv, AloneUntilOver, [SystemNext]_systemVars
               PROVE  AloneUntilOver'
    OBVIOUS
  <2>1. CASE RunMoves \/ UNCHANGED systemVars
    <3>1. CASE pc \notin Over
      <4>1. IInv /\ [Next]_vars
        BY <2>1, <3>1 DEF SystemInv, AloneUntilOver, IInv, RunMoves, Next, systemVars
      <4> QED BY <4>1, NextInv DEF IInv, AloneInv, AloneUntilOver
    <3>2. CASE pc \in Over
      <4>1. pc' = pc /\ resource' = resource
        BY <2>1, <3>2, MovingIsNotOver DEF RunMoves, systemVars, vars, runVars, progress, memory
      <4> QED BY <3>2, <4>1 DEF AloneUntilOver, OneEntryPerResource
    <3> QED BY <3>1, <3>2
  <2>2. CASE CommandMoves
    <3>1. pc \in Over
      BY <2>2 DEF CommandMoves, RunGoneInv, CommandStep, NoEngine, TakeEntry, Verify, Purge, Drop,
          Finish, KillCommand
    <3>2. pc' = pc /\ resource' = resource
      BY <2>2 DEF CommandMoves, runVars, progress, memory
    <3> QED BY <3>1, <3>2 DEF AloneUntilOver, OneEntryPerResource
  <2>3. CASE PowerFails
    BY <2>3 DEF PowerFails, Over, memory, AloneUntilOver, OneEntryPerResource
  <2> QED BY <2>1, <2>2, <2>3 DEF SystemNext
<1>3. SystemSpec => SystemInit /\ [][SystemNext]_systemVars
    BY DEF SystemSpec
<1> QED BY <1>1, <1>2, <1>3, RunGoneHolds, PTL

\* What is measured is marked and in the manifest file, for a run that cleanup
\* leaves alone until it is over (EnsureDatabase, s3bench.Run).
THEOREM MeasuredIsRecordedBeforeCleanup ==
    ASSUME ~CleanupDuringRun
    PROVE  SystemSpec => []MeasuredIsRecorded
<1>1. AloneUntilOver => MeasuredIsRecorded
    BY DEF AloneUntilOver, AloneInv, InitializedInv, MeasuredIsRecorded, LoopPCs, Over
<1> QED BY <1>1, AloneUntilOverHolds, PTL

-----------------------------------------------------------------------------
(* The commands keep the promise of OwnedResources too. *)

\* A remote call of a command leaves the run's resource to the run, or
\* releases it: it was recorded.
LEMMA RemovalPromise ==
    ASSUME SystemInv, NEW p \in Commands, Purge(p) \/ Drop(p), UNCHANGED runVars
    PROVE  Promise!PromiseNext \/ UNCHANGED promised
<1>1. PICK d \in Owners : d = target[p]
    BY DEF Purge, Drop, RemovalPCs, SystemInv, EntriesInv, RobustInv, TypeOK
<1>2. PICK k \in Kinds : k = KindOf[d]
    BY KindFacts
<1>3. /\ k \in KindsOf(manifest)
      /\ remote[k] # "foreign"
      /\ remote \in [Kinds -> RemoteStates]
    BY <1>1, <1>2, TargetFacts
    DEF Purge, Drop, RemovalPCs, SystemInv, RobustInv, TypeOK, SharedTypeOK
<1>4. PICK t \in RemoteStates :
        /\ remote' = [remote EXCEPT ![k] = t]
        /\ t = remote[k] \/ (remote[k] # "absent" /\ t \in {"bare", "absent"})
    BY <1>1, <1>2 DEF Purge, Drop, PurgeCall, DropCall, NotApplied
<1>5. UNCHANGED <<KindsOf(manifest), KindsOf(disk)>>
    BY DEF Purge, Drop, runVars, memory, KindsOf
<1>6. t # remote[k] => Ours(remote[k])
    BY <1>3, <1>4 DEF RemoteStates, Ours
<1>7. CASE t = remote[k] \/ t = "bare"
    BY <1>3, <1>4, <1>5, <1>6, <1>7, HolderUnchanged DEF promised, Ours
<1>8. CASE t # remote[k] /\ t = "absent"
  <2>1. Holder[k] = "ours"
    BY <1>6, <1>8 DEF Holder
  <2>2. Holder' = [Holder EXCEPT ![k] = "free"]
    BY <1>3, <1>4, <1>8, HolderOfCall DEF Ours
  <2>3. Promise!Release(k)
    BY <1>3, <1>5, <2>1, <2>2 DEF Promise!Release
  <2> QED BY <2>3 DEF Promise!PromiseNext
<1> QED BY <1>4, <1>7, <1>8

\* The file goes when nothing is left of what the command loaded, which is all
\* the file lists.
LEMMA FinishPromise ==
    ASSUME SystemInv, RunGoneInv, NEW p \in Commands, Finish(p), UNCHANGED runVars
    PROVE  Promise!PromiseNext \/ UNCHANGED promised
<1>1. UNCHANGED <<remote, manifest>>
    BY DEF Finish, runVars, memory
<1>2. CASE disk' = disk
    BY <1>1, <1>2, PromisedUnchanged
<1>3. CASE disk' = {} /\ ~failures[p]
  <2>1. \A r \in KindsOf(disk) : ~Ours(remote[r])
    BY <1>3, FinishedIsGone DEF RunGoneInv, Finish, KindsOf
  <2>2. \A r \in KindsOf(disk) : r \in Kinds
    BY KindFacts DEF SystemInv, RobustInv, TypeOK, SharedTypeOK, KindsOf
  <2>3. \A r \in KindsOf(disk) : Holder[r] # "ours"
    BY <2>1, <2>2 DEF Holder
  <2>4. KindsOf(disk)' = {} /\ UNCHANGED <<Holder, KindsOf(manifest)>>
    BY <1>1, <1>3 DEF Holder, KindsOf
  <2>5. Promise!Forget
    BY <2>3, <2>4 DEF Promise!Forget
  <2> QED BY <2>5 DEF Promise!PromiseNext
<1> QED BY <1>2, <1>3 DEF Finish, Delete

LEMMA CommandPromise ==
    ASSUME SystemInv, RunGoneInv, CommandMoves
    PROVE  Promise!PromiseNext \/ UNCHANGED promised
<1>1. PICK p \in Commands : StartCommand(p) \/ CommandStep(p) \/ KillCommand(p)
    BY DEF CommandMoves
<1>2. UNCHANGED runVars
    BY DEF CommandMoves
<1>3. CASE Purge(p) \/ Drop(p)
    BY <1>2, <1>3, RemovalPromise
<1>4. CASE Finish(p)
    BY <1>2, <1>4, FinishPromise
<1>5. CASE StartCommand(p) \/ NoEngine(p) \/ TakeEntry(p) \/ Verify(p) \/ KillCommand(p)
    BY <1>2, <1>5, PromisedUnchanged DEF StartCommand, LoadFails, Load, NoEngine, TakeEntry, Verify,
        KillCommand, shared, runVars, memory
<1> QED BY <1>1, <1>3, <1>4, <1>5 DEF CommandStep

\* A loss of power takes the ledger back, and nothing else of the promise.
LEMMA PowerFailsLoses == ASSUME SystemInv, PowerFails PROVE Promise!Lose
<1>1. disk' \subseteq manifest /\ UNCHANGED <<remote, manifest>>
    BY DEF PowerFails, SavedVersion, memory
<1>2. KindsOf(disk)' \subseteq KindsOf(manifest)
    BY <1>1 DEF KindsOf
<1>3. UNCHANGED <<Holder, KindsOf(manifest)>>
    BY <1>1 DEF Holder, KindsOf
<1> QED BY <1>2, <1>3 DEF Promise!Lose

\* Every step is one of the promise, none of its steps, or a loss of power.
LEMMA SystemPromise ==
    ASSUME SystemInv, RunGoneInv, AloneUntilOver, [SystemNext]_systemVars
    PROVE  Promise!PromiseNext \/ (PowerFails /\ Promise!Lose) \/ UNCHANGED promised
<1>1. CASE RunMoves
  <2>1. IInv /\ [Next]_vars
    BY <1>1, MovingIsNotOver DEF SystemInv, AloneUntilOver, IInv, RunMoves, Next
  <2> QED BY <2>1, NextPromise
<1>2. CASE CommandMoves
    BY <1>2, CommandPromise
<1>3. CASE UNCHANGED systemVars
    BY <1>3, PromisedUnchanged DEF systemVars, vars, runVars, shared, memory
<1>4. CASE PowerFails
    BY <1>4, PowerFailsLoses
<1> QED BY <1>1, <1>2, <1>3, <1>4 DEF SystemNext

\* The promise, if the host may go down.
KeepsPromiseButForPower ==
    Promise!PromiseInit /\ [][Promise!PromiseNext \/ (PowerFails /\ Promise!Lose)]_promised

\* The run and every `cleanup` after it together keep what the contract
\* promises: a taken name is left alone, only what was recorded is removed, by
\* whichever process, and no step of theirs makes the file forget what exists.
\* A loss of power at any time costs entries of the file and nothing else.
THEOREM KeepsPromiseButForPowerTogether ==
    ASSUME ~CleanupDuringRun
    PROVE  SystemSpec => KeepsPromiseButForPower
<1>1. SystemInit => Promise!PromiseInit
    BY InitPromise DEF SystemInit
<1>2. SystemInv /\ RunGoneInv /\ AloneUntilOver /\ [SystemNext]_systemVars =>
        [Promise!PromiseNext \/ (PowerFails /\ Promise!Lose)]_promised
    BY SystemPromise
<1>3. SystemSpec => SystemInit /\ [][SystemNext]_systemVars
    BY DEF SystemSpec
<1> QED BY <1>1, <1>2, <1>3, AloneUntilOverHolds, PTL DEF KeepsPromiseButForPower

\* While the power lasts they implement OwnedResources (KeepsPromise of Runner,
\* for all processes together).
THEOREM KeepsPromiseTogether ==
    ASSUME ~CleanupDuringRun, ~PowerMayFail
    PROVE  SystemSpec => KeepsPromise
<1>1. SystemInit => Promise!PromiseInit
    BY InitPromise DEF SystemInit
<1>2. SystemInv /\ RunGoneInv /\ AloneUntilOver /\ [SystemNext]_systemVars =>
        [Promise!PromiseNext]_(Promise!promiseVars)
    BY SystemPromise DEF PowerFails, promised, Promise!promiseVars
<1>3. SystemSpec => SystemInit /\ [][SystemNext]_systemVars
    BY DEF SystemSpec
<1> QED BY <1>1, <1>2, <1>3, AloneUntilOverHolds, PTL DEF KeepsPromise, Promise!PromiseSpec
=============================================================================
