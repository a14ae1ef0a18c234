---------------------------- MODULE RunnerProofs ----------------------------
(***************************************************************************)
(* IInv is inductive: it holds initially (InitInv), each action keeps      *)
(* RobustInv (...Keeps: one step per conjunct that the action disturbs)    *)
(* and, while the run is alone, AloneInv (...Inv), and it implies the      *)
(* safety properties of Runner.  From it follows the refinement.           *)
(***************************************************************************)
EXTENDS RunnerInvariant, TLAPS

LEMMA KindFacts ==
    /\ Owners \subseteq Categories
    /\ \A c \in Owners : KindOf[c] \in Kinds
    /\ \A c \in Categories : KindOf[c] # NoKind => c \in Owners
    /\ NoKind \notin Kinds
BY DEF Owners, Categories, KindOf, Kinds, NoKind

LEMMA SelectionFacts ==
    ASSUME TypeOK
    PROVE  /\ Len(selection) \in Nat
           /\ \A i \in 1..Len(selection) : selection[i] \in Categories
           /\ \A i, j \in 1..Len(selection) : i # j => selection[i] # selection[j]
           /\ n \in Nat \ {0}
           /\ n <= Len(selection) => Current \in Categories
BY SelectionsAssumption DEF TypeOK, Current

\* What a removal works on is recorded, and was not there before the run.
LEMMA EntryFacts ==
    ASSUME RobustInv, pc \in RemovalPCs
    PROVE  /\ entry \in Owners
           /\ KindOf[entry] \in Kinds
           /\ KindOf[entry] \in KindsOf(manifest)
           /\ remote[KindOf[entry]] # "foreign"
<1>1. entry \in Owners /\ left # {} /\ left \subseteq Matches(entry)
    BY DEF RobustInv, RemovalInv, EntryInv
<1>2. PICK d \in manifest : KindOf[d] = KindOf[entry]
    BY <1>1 DEF Matches
<1>3. remote[KindOf[d]] # "foreign"
    BY DEF RobustInv, RemovalInv, ForeignInv
<1> QED BY <1>1, <1>2, <1>3, KindFacts DEF KindsOf

LEMMA InitInv == Init => IInv
<1> SUFFICES ASSUME Init PROVE IInv
    OBVIOUS
<1> USE KindFacts DEF Init, RunInit, SharedInit
<1>1. TypeOK
  <2>1. n \in 1..(Len(selection) + 1)
    BY SelectionsAssumption
  <2>2. SharedTypeOK
    BY DEF SharedTypeOK, RemoteStates
  <2>3. benchmark \in [Categories -> BenchmarkStatuses] /\ resource \in [Categories -> CleanupStatuses]
    BY DEF BenchmarkStatuses, CleanupStatuses
  <2>4. doc \in Documents
    BY <2>3 DEF Documents, RunStatuses, FinalStatuses
  <2> QED
    BY <2>1, <2>2, <2>3, <2>4 DEF TypeOK, PCs, NoExit, NoCategory
<1>2. PositionInv /\ FreshInv /\ RanInv
    BY <1>1, SelectionFacts DEF PositionInv, FreshInv, RanInv, LoopPCs, Current
<1>3. LedgerInv
    BY TakenNamesAssumption DEF LedgerInv, ListedInv, PendingInv, Confirming, HeldInv, DeletedIsGone, Ours
<1>4. RemovalInv /\ ReturnInv
    BY DEF RemovalInv, ForeignInv, EntryInv, ReturnInv, FinalStatuses, RemovalPCs, NoExit
<1>5. AloneInv
    BY DEF AloneInv, OwnedInv, OneEntryPerResource, InitializedInv, TargetInv
<1> QED BY <1>1, <1>2, <1>3, <1>4, <1>5 DEF IInv, RobustInv, LoopInv

-----------------------------------------------------------------------------
(* What holds whoever else removes resources or manifests (RobustInv). *)

\* Nothing has been run, so nothing is owned.
LEMMA RefuseKeeps == ASSUME RobustInv, Refuse PROVE RobustInv'
<1>1. TypeOK'
    BY DEF RobustInv, Refuse, Confirming, TypeOK, SharedTypeOK, PCs, ExitCodes, shared, world, memory,
        removal
<1>2. LoopInv' /\ LedgerInv' /\ RemovalInv' /\ ReturnInv'
    BY DEF RobustInv, Refuse, LoopInv, PositionInv, FreshInv, RanInv, LedgerInv,
        ListedInv, PendingInv, Confirming, HeldInv, Accounted, DeletedIsGone, RemovalInv, ForeignInv,
        EntryInv, ReturnInv, FinalStatuses, Pending, LoopPCs, RemovalPCs, shared, world, memory
<1> QED BY <1>1, <1>2 DEF RobustInv

\* Nothing but the position changes while the command waits for an answer.
LEMMA AskKeeps == ASSUME RobustInv, Ask PROVE RobustInv'
<1>1. TypeOK'
    BY DEF RobustInv, Ask, TypeOK, SharedTypeOK, PCs, shared, world, memory, removal, outcome
<1>2. LoopInv' /\ LedgerInv' /\ RemovalInv' /\ ReturnInv'
    BY DEF RobustInv, Ask, Confirming, LoopInv, PositionInv, FreshInv, RanInv, LedgerInv,
        ListedInv, PendingInv, HeldInv, Accounted, DeletedIsGone, RemovalInv, ForeignInv,
        EntryInv, ReturnInv, FinalStatuses, Document, LoopPCs, RemovalPCs, shared, world, memory,
        outcome
<1> QED BY <1>1, <1>2 DEF RobustInv

LEMMA BeginKeeps == ASSUME RobustInv, Begin PROVE RobustInv'
<1>1. TypeOK'
    BY DEF RobustInv, Begin, Confirming, Persist, Document, TypeOK, SharedTypeOK, PCs, RunStatuses, FinalStatuses,
        Documents, shared, world, memory, removal
<1>2. LoopInv' /\ LedgerInv' /\ RemovalInv' /\ ReturnInv'
    BY DEF RobustInv, Begin, Persist, Document, LoopInv, PositionInv, FreshInv, RanInv,
        LedgerInv, ListedInv, PendingInv, Confirming, HeldInv, Accounted, DeletedIsGone, RemovalInv,
        ForeignInv, EntryInv, ReturnInv, FinalStatuses, LoopPCs, RemovalPCs, shared, world, memory
<1> QED BY <1>1, <1>2 DEF RobustInv

LEMMA LeaveLoopKeeps == ASSUME RobustInv, LeaveLoop PROVE RobustInv'
<1>1. TypeOK'
    BY DEF RobustInv, LeaveLoop, TypeOK, SharedTypeOK, PCs, shared, world, memory,
        removal, outcome
<1>2. LoopInv' /\ LedgerInv' /\ RemovalInv' /\ ReturnInv'
    BY DEF RobustInv, LeaveLoop, LoopInv, PositionInv, FreshInv, RanInv, LedgerInv,
        ListedInv, PendingInv, Confirming, HeldInv, Accounted, DeletedIsGone, RemovalInv, ForeignInv,
        EntryInv, ReturnInv, FinalStatuses, Document, LoopPCs, RemovalPCs, shared, world, memory, outcome
<1> QED BY <1>1, <1>2 DEF RobustInv

\* A category without remote resources only adds its benchmark entry.
LEMMA RunLocalKeeps == ASSUME RobustInv, RunLocal PROVE RobustInv'
<1>1. TypeOK'
    BY SelectionFacts DEF RobustInv, RunLocal, AtCategory, EndCategory, TypeOK,
        SharedTypeOK, PCs, BenchmarkStatuses, shared, world, removal, outcome
<1>2. LoopInv'
    BY SelectionFacts DEF RobustInv, RunLocal, AtCategory, Current, EndCategory, LoopInv,
        PositionInv, FreshInv, RanInv, TypeOK, LoopPCs, world
<1>3. LedgerInv'
    BY DEF RobustInv, RunLocal, AtCategory, Current, EndCategory, LedgerInv, ListedInv,
        PendingInv, Confirming, HeldInv, Accounted, DeletedIsGone, TypeOK, LoopInv, FreshInv, LoopPCs,
        shared
<1>4. RemovalInv'
    BY DEF RobustInv, RunLocal, AtCategory, EndCategory, RemovalInv, ForeignInv, EntryInv, LoopPCs,
        RemovalPCs, shared, world
<1>5. ReturnInv'
    BY DEF RobustInv, RunLocal, AtCategory, EndCategory, ReturnInv, FinalStatuses, RemovalPCs, NoExit,
        outcome
<1> QED BY <1>1, <1>2, <1>3, <1>4, <1>5 DEF RobustInv

\* The category owns nothing: it had no trace before (FreshInv).
LEMMA EngineUnavailableKeeps == ASSUME RobustInv, EngineUnavailable PROVE RobustInv'
<1>1. TypeOK'
    BY SelectionFacts DEF RobustInv, EngineUnavailable, AtCategory, EndCategory, TypeOK,
        SharedTypeOK, PCs, BenchmarkStatuses, shared, world, removal, outcome
<1>2. LoopInv'
    BY SelectionFacts DEF RobustInv, EngineUnavailable, AtCategory, EndCategory, Current,
        LoopInv, PositionInv, FreshInv, RanInv, TypeOK, LoopPCs, world
<1>3. LedgerInv'
    BY DEF RobustInv, EngineUnavailable, AtCategory, EndCategory, Current, LedgerInv,
        ListedInv, PendingInv, Confirming, HeldInv, Accounted, DeletedIsGone, TypeOK, LoopInv,
        FreshInv, LoopPCs, shared
<1>4. RemovalInv'
    BY DEF RobustInv, EngineUnavailable, AtCategory, EndCategory, RemovalInv, ForeignInv,
        EntryInv, LoopPCs, RemovalPCs, shared, world
<1>5. ReturnInv'
    BY DEF RobustInv, EngineUnavailable, AtCategory, EndCategory, ReturnInv, FinalStatuses, RemovalPCs,
        NoExit, outcome
<1> QED BY <1>1, <1>2, <1>3, <1>4, <1>5 DEF RobustInv

LEMMA EngineReadyKeeps == ASSUME RobustInv, EngineReady PROVE RobustInv'
<1>1. TypeOK'
  <2>1. CurrentKind \in Kinds
    BY KindFacts, SelectionFacts DEF RobustInv, EngineReady, AtCategory, CurrentKind
  <2> QED
    BY <2>1 DEF RobustInv, EngineReady, TypeOK, SharedTypeOK, PCs, shared, world, removal, outcome
<1>2. LoopInv'
  <2>1. Current \in Owners
    BY KindFacts, SelectionFacts DEF RobustInv, EngineReady, AtCategory, CurrentKind
  <2> QED
    BY <2>1 DEF RobustInv, EngineReady, AtCategory, LoopInv, PositionInv, FreshInv, RanInv,
        Current, LoopPCs, world
<1>3. LedgerInv'
    BY DEF RobustInv, EngineReady, AtCategory, LedgerInv, ListedInv, PendingInv, Confirming, HeldInv,
        Accounted, DeletedIsGone, LoopPCs, shared
<1>4. RemovalInv'
    BY DEF RobustInv, EngineReady, AtCategory, CurrentKind, Current, RemovalInv,
        ForeignInv, EntryInv, LoopPCs, RemovalPCs, shared, world
<1>5. ReturnInv'
    BY DEF RobustInv, EngineReady, AtCategory, ReturnInv, FinalStatuses, Document, RemovalPCs, world,
        outcome
<1> QED BY <1>1, <1>2, <1>3, <1>4, <1>5 DEF RobustInv

\* A lost reply leaves a bare resource, accounted for by the failed category.
LEMMA CreateResourceKeeps == ASSUME RobustInv, CreateResource PROVE RobustInv'
<1>1. TypeOK'
    BY KindFacts DEF RobustInv, CreateResource, CurrentKind, EndCategory, TypeOK,
        SharedTypeOK, PCs, BenchmarkStatuses, LoopInv, PositionInv, world, removal,
        outcome
<1>2. LoopInv'
    BY SelectionFacts DEF RobustInv, CreateResource, EndCategory, Current, LoopInv,
        PositionInv, FreshInv, RanInv, TypeOK, LoopPCs, world
<1>3. LedgerInv'
    BY KindFacts DEF RobustInv, CreateResource, CreateCall, CurrentKind, EndCategory,
        NotApplied, Current, LedgerInv, ListedInv, PendingInv, Confirming, HeldInv, Accounted,
        DeletedIsGone, TypeOK, SharedTypeOK, LoopInv, PositionInv, Ours, LoopPCs, world
<1>4. RemovalInv'
  <2>1. \A k \in Kinds : remote'[k] = "foreign" => remote[k] = "foreign"
    BY DEF RobustInv, CreateResource, CreateCall, NotApplied, TypeOK, SharedTypeOK
  <2>2. pc' = "mark" => remote'[CurrentKind] # "foreign"
    BY KindFacts DEF RobustInv, CreateResource, CreateCall, NotApplied, EndCategory, CurrentKind,
        TypeOK, SharedTypeOK, LoopInv, PositionInv
  <2>3. ForeignInv'
    BY <2>1, <2>2, KindFacts DEF RobustInv, CreateResource, EndCategory, CurrentKind, Current,
        RemovalInv, ForeignInv, TypeOK, world
  <2>4. EntryInv'
    BY DEF RobustInv, CreateResource, EndCategory, RemovalInv, EntryInv, RemovalPCs, world
  <2> QED BY <2>3, <2>4 DEF RemovalInv
<1>5. ReturnInv'
    BY DEF RobustInv, CreateResource, EndCategory, ReturnInv, FinalStatuses, RemovalPCs, NoExit, outcome
<1> QED BY <1>1, <1>2, <1>3, <1>4, <1>5 DEF RobustInv

\* Owned from here on, with or without the marker.
LEMMA WriteMarkerKeeps == ASSUME RobustInv, WriteMarker PROVE RobustInv'
<1>1. TypeOK'
    BY KindFacts DEF RobustInv, WriteMarker, CurrentKind, EndCategory, ListOwned, TypeOK,
        SharedTypeOK, PCs, BenchmarkStatuses, CleanupStatuses, LoopInv, PositionInv,
        world, removal, outcome
<1>2. LoopInv'
    BY SelectionFacts DEF RobustInv, WriteMarker, EndCategory, ListOwned, Current,
        LoopInv, PositionInv, FreshInv, RanInv, TypeOK, LoopPCs, world
<1>3. LedgerInv'
    BY KindFacts DEF RobustInv, WriteMarker, MarkCall, CurrentKind, EndCategory,
        ListOwned, NotApplied, Current, LedgerInv, ListedInv, PendingInv, Confirming, HeldInv,
        Accounted, DeletedIsGone, TypeOK, SharedTypeOK, LoopInv, PositionInv, Ours,
        LoopPCs, world
<1>4. RemovalInv'
  <2>1. \A k \in Kinds : remote'[k] = "foreign" => remote[k] = "foreign"
    BY DEF RobustInv, WriteMarker, MarkCall, NotApplied, TypeOK, SharedTypeOK
  <2>2. remote'[CurrentKind] # "foreign"
    BY <2>1, KindFacts DEF RobustInv, WriteMarker, CurrentKind, LoopInv, PositionInv, RemovalInv,
        ForeignInv
  <2>3. ForeignInv'
    BY <2>1, <2>2, KindFacts DEF RobustInv, WriteMarker, EndCategory, CurrentKind, Current,
        RemovalInv, ForeignInv, TypeOK, world
  <2>4. EntryInv'
    BY KindFacts DEF RobustInv, WriteMarker, EndCategory, ListOwned, RemovalInv, EntryInv, TypeOK,
        LoopInv, PositionInv, RemovalPCs, world
  <2> QED BY <2>3, <2>4 DEF RemovalInv
<1>5. ReturnInv'
    BY DEF RobustInv, WriteMarker, EndCategory, ReturnInv, FinalStatuses, RemovalPCs, NoExit, outcome
<1> QED BY <1>1, <1>2, <1>3, <1>4, <1>5 DEF RobustInv

\* The entry joins the list in memory, whether or not the file is written.
LEMMA RecordResourceKeeps == ASSUME RobustInv, RecordResource PROVE RobustInv'
<1>1. TypeOK'
    BY KindFacts DEF RobustInv, RecordResource, ListOwned, Save, CurrentKind, EndCategory,
        TypeOK, SharedTypeOK, PCs, BenchmarkStatuses, CleanupStatuses, LoopInv,
        PositionInv, world, removal, outcome
<1>2. LoopInv'
    BY SelectionFacts DEF RobustInv, RecordResource, Current, ListOwned, Save,
        EndCategory, LoopInv, PositionInv, FreshInv, RanInv, TypeOK, LoopPCs, world
<1>3. LedgerInv'
    BY KindFacts DEF RobustInv, RecordResource, ListOwned, Save, CurrentKind, EndCategory,
        LedgerInv, ListedInv, PendingInv, Confirming, HeldInv, Accounted, DeletedIsGone, TypeOK,
        LoopInv, PositionInv, Ours, LoopPCs
<1>4. RemovalInv'
    BY KindFacts DEF RobustInv, RecordResource, Current, ListOwned, Save, CurrentKind,
        EndCategory, RemovalInv, ForeignInv, EntryInv, TypeOK, LedgerInv, ListedInv,
        PendingInv, Confirming, KindsOf, LoopPCs, RemovalPCs, world
<1>5. ReturnInv'
    BY DEF RobustInv, RecordResource, Save, EndCategory, ReturnInv, FinalStatuses, RemovalPCs, NoExit,
        outcome
<1> QED BY <1>1, <1>2, <1>3, <1>4, <1>5 DEF RobustInv

LEMMA MeasureKeeps == ASSUME RobustInv, Measure PROVE RobustInv'
<1>1. TypeOK'
    BY SelectionFacts DEF RobustInv, Measure, EndCategory, TypeOK, SharedTypeOK, PCs,
        BenchmarkStatuses, LoopInv, PositionInv, shared, world, removal, outcome
<1>2. LoopInv'
    BY SelectionFacts DEF RobustInv, Measure, Current, EndCategory, LoopInv, PositionInv,
        FreshInv, RanInv, TypeOK, LoopPCs, world
<1>3. LedgerInv'
    BY DEF RobustInv, Measure, Current, EndCategory, LedgerInv, ListedInv, PendingInv, Confirming,
        HeldInv, Accounted, DeletedIsGone, TypeOK, LoopInv, PositionInv, FreshInv,
        LoopPCs, shared
<1>4. RemovalInv'
    BY DEF RobustInv, Measure, CurrentKind, EndCategory, RemovalInv, ForeignInv, EntryInv,
        LoopPCs, RemovalPCs, shared, world
<1>5. ReturnInv'
    BY DEF RobustInv, Measure, EndCategory, ReturnInv, FinalStatuses, RemovalPCs, NoExit, outcome
<1> QED BY <1>1, <1>2, <1>3, <1>4, <1>5 DEF RobustInv

\* The category moves behind the loop, or the run aborts.
LEMMA PersistCategoryKeeps == ASSUME RobustInv, PersistCategory PROVE RobustInv'
<1>1. TypeOK'
  <2>1. n <= Len(selection) /\ n' \in {n, n + 1}
    BY DEF RobustInv, PersistCategory, LoopInv, PositionInv
  <2>2. n \in Nat \ {0} /\ Len(selection) \in Nat
    BY SelectionFacts DEF RobustInv
  <2>3. n' \in 1..(Len(selection) + 1)
    BY <2>1, <2>2
  <2>4. doc' \in Documents
    BY DEF RobustInv, PersistCategory, Persist, Document, Documents, RunStatuses, FinalStatuses, TypeOK
  <2> QED
    BY <2>3, <2>4 DEF RobustInv, PersistCategory, TypeOK, SharedTypeOK, PCs, shared, world,
        memory, removal
<1>2. LoopInv'
    BY DEF RobustInv, PersistCategory, Persist, LoopInv, PositionInv, FreshInv, RanInv,
        TypeOK, LoopPCs, world, memory
<1>3. LedgerInv'
    BY DEF RobustInv, PersistCategory, Persist, LedgerInv, ListedInv, PendingInv, Confirming, HeldInv,
        Accounted, DeletedIsGone, LoopPCs, shared, memory
<1>4. RemovalInv'
    BY DEF RobustInv, PersistCategory, Persist, RemovalInv, ForeignInv, EntryInv, LoopPCs,
        RemovalPCs, shared, world, memory
<1>5. ReturnInv'
    BY DEF RobustInv, PersistCategory, Persist, Document, ReturnInv, FinalStatuses, TypeOK, RemovalPCs,
        world, memory
<1> QED BY <1>1, <1>2, <1>3, <1>4, <1>5 DEF RobustInv

\* Every pending entry is kept.
LEMMA KeepEntriesKeeps == ASSUME RobustInv, KeepEntries PROVE RobustInv'
<1>1. TypeOK'
    BY DEF RobustInv, KeepEntries, TypeOK, SharedTypeOK, PCs, CleanupStatuses, shared,
        world, removal, outcome
<1>2. LoopInv'
    BY DEF RobustInv, KeepEntries, Pending, LoopInv, PositionInv, FreshInv, RanInv,
        LoopPCs, world
<1>3. LedgerInv'
    BY KindFacts DEF RobustInv, KeepEntries, Pending, LedgerInv, ListedInv, PendingInv, Confirming,
        HeldInv, Accounted, DeletedIsGone, TypeOK, LoopPCs, shared
<1>4. RemovalInv'
    BY DEF RobustInv, KeepEntries, RemovalInv, ForeignInv, EntryInv, RemovalPCs, shared,
        world
<1>5. ReturnInv'
    BY DEF RobustInv, KeepEntries, Pending, ReturnInv, FinalStatuses, NoExit, world, outcome
<1> QED BY <1>1, <1>2, <1>3, <1>4, <1>5 DEF RobustInv

\* An entry without a manifest entry stays, reported as failed.
LEMMA RefuseEntryKeeps == ASSUME RobustInv, RefuseEntry PROVE RobustInv'
<1>1. TypeOK'
    BY DEF RobustInv, RefuseEntry, Pending, SetCleanupStatus, TypeOK, SharedTypeOK,
        CleanupStatuses, shared, progress, world, removal, outcome
<1>2. LoopInv'
    BY DEF RobustInv, RefuseEntry, Pending, SetCleanupStatus, LoopInv, PositionInv,
        FreshInv, RanInv, progress, world
<1>3. LedgerInv'
    BY DEF RobustInv, RefuseEntry, Pending, SetCleanupStatus, LedgerInv, ListedInv,
        PendingInv, Confirming, HeldInv, Accounted, DeletedIsGone, LoopPCs, shared, progress
<1>4. RemovalInv'
    BY DEF RobustInv, RefuseEntry, Matches, SetCleanupStatus, RemovalInv, ForeignInv,
        EntryInv, shared, progress, world, removal
<1>5. ReturnInv'
    BY DEF RobustInv, RefuseEntry, ReturnInv, FinalStatuses, NoExit, progress, world, outcome
<1> QED BY <1>1, <1>2, <1>3, <1>4, <1>5 DEF RobustInv

\* The entry is recorded, hence owned.
LEMMA CleanEntryKeeps == ASSUME RobustInv, CleanEntry PROVE RobustInv'
<1>1. TypeOK'
    BY DEF RobustInv, CleanEntry, Pending, Matches, TypeOK, SharedTypeOK, PCs, shared,
        world, memory, outcome
<1>2. LoopInv'
    BY DEF RobustInv, CleanEntry, LoopInv, PositionInv, FreshInv, RanInv, LoopPCs, world,
        memory
<1>3. LedgerInv'
    BY DEF RobustInv, CleanEntry, LedgerInv, ListedInv, PendingInv, Confirming, HeldInv, Accounted,
        DeletedIsGone, LoopPCs, shared, memory
<1>4. ForeignInv'
    BY DEF RobustInv, CleanEntry, RemovalInv, ForeignInv, shared, memory
<1>5. EntryInv'
    BY DEF RobustInv, CleanEntry, Pending, Matches, RemovalInv, EntryInv, LedgerInv, ListedInv,
        world, memory
<1>6. ReturnInv'
    BY DEF RobustInv, CleanEntry, ReturnInv, FinalStatuses, Document, world, memory, outcome
<1> QED BY <1>1, <1>2, <1>3, <1>4, <1>5, <1>6 DEF RobustInv, RemovalInv

LEMMA VerifyMarkerKeeps == ASSUME RobustInv, VerifyMarker PROVE RobustInv'
<1>1. TypeOK'
    BY DEF RobustInv, VerifyMarker, CleanupReturned, SetCleanupStatus, TypeOK,
        SharedTypeOK, PCs, CleanupStatuses, shared, world, removal, outcome
<1>2. LoopInv'
    BY DEF RobustInv, VerifyMarker, CleanupReturned, SetCleanupStatus, LoopInv,
        PositionInv, FreshInv, RanInv, TypeOK, RemovalInv, EntryInv, LoopPCs, RemovalPCs,
        world
<1>3. LedgerInv'
    BY KindFacts DEF RobustInv, VerifyMarker, CleanupReturned, SetCleanupStatus,
        LedgerInv, ListedInv, PendingInv, Confirming, HeldInv, Accounted, DeletedIsGone, TypeOK,
        RemovalInv, EntryInv, LoopPCs, RemovalPCs, shared
<1>4. RemovalInv'
    BY DEF RobustInv, VerifyMarker, VerifyCall, CleanupReturned, SetCleanupStatus,
        RemovalInv, ForeignInv, EntryInv, TypeOK, Ours, Matches, LoopPCs, RemovalPCs,
        shared, world, removal
<1>5. ReturnInv'
    BY DEF RobustInv, VerifyMarker, CleanupReturned, ReturnInv, FinalStatuses, RemovalPCs, NoExit, world,
        outcome
<1> QED BY <1>1, <1>2, <1>3, <1>4, <1>5 DEF RobustInv

\* The bucket may lose its marker and stay.
LEMMA PurgeBucketKeeps == ASSUME RobustInv, PurgeBucket PROVE RobustInv'
<1>1. TypeOK'
    BY KindFacts DEF RobustInv, PurgeBucket, CleanupReturned, SetCleanupStatus, TypeOK,
        SharedTypeOK, PCs, CleanupStatuses, RemovalInv, EntryInv, RemovalPCs, world,
        removal, outcome
<1>2. LoopInv'
    BY DEF RobustInv, PurgeBucket, CleanupReturned, SetCleanupStatus, LoopInv,
        PositionInv, FreshInv, RanInv, TypeOK, RemovalInv, EntryInv, LoopPCs, RemovalPCs,
        world
<1>3. /\ \A k \in Kinds : Ours(remote[k])' => Ours(remote[k])
      /\ \A k \in Kinds : remote'[k] = "foreign" => remote[k] = "foreign"
  <2>1. remote[KindOf[entry]] # "foreign"
    BY EntryFacts DEF PurgeBucket, RemovalPCs
  <2>2. \A k \in Kinds : \/ remote'[k] = remote[k]
                         \/ remote[k] \in {"bare", "marked"} /\ remote'[k] = "bare"
    BY <2>1 DEF RobustInv, PurgeBucket, PurgeCall, NotApplied, TypeOK, SharedTypeOK, RemoteStates
  <2> QED BY <2>2 DEF Ours
<1>4. LedgerInv'
  <2>1. ListedInv' /\ PendingInv' /\ DeletedIsGone'
    BY <1>3, KindFacts DEF RobustInv, PurgeBucket, CleanupReturned, SetCleanupStatus, LedgerInv,
        ListedInv, PendingInv, Confirming, DeletedIsGone, TypeOK, RemovalInv, EntryInv, LoopPCs, RemovalPCs
  <2>2. \A c \in Categories : resource'[c] = resource[c] \/ (c = entry /\ resource'[c] = "failed")
    BY DEF RobustInv, PurgeBucket, CleanupReturned, SetCleanupStatus, TypeOK
  <2>3. \A k \in Kinds : Accounted(k) => Accounted(k)'
    BY <2>2, KindFacts DEF PurgeBucket, Accounted
  <2>4. HeldInv'
    BY <1>3, <2>3 DEF RobustInv, LedgerInv, HeldInv, PurgeBucket
  <2> QED BY <2>1, <2>4 DEF LedgerInv
<1>5. ForeignInv'
  <2>1. manifest' = manifest /\ pc' \notin {"mark", "record"}
    BY DEF PurgeBucket, CleanupReturned
  <2> QED BY <1>3, <2>1, KindFacts DEF RobustInv, RemovalInv, ForeignInv, TypeOK
<1>6. EntryInv'
    BY DEF RobustInv, PurgeBucket, CleanupReturned, SetCleanupStatus, RemovalInv, EntryInv,
        TypeOK, Matches, RemovalPCs, world, removal
<1>7. ReturnInv'
    BY DEF RobustInv, PurgeBucket, CleanupReturned, ReturnInv, FinalStatuses, RemovalPCs, NoExit, world,
        outcome
<1> QED BY <1>1, <1>2, <1>4, <1>5, <1>6, <1>7 DEF RobustInv, RemovalInv

\* A success leaves nothing of the kind, whoever dropped it.
LEMMA DropResourceKeeps == ASSUME RobustInv, DropResource PROVE RobustInv'
<1>1. TypeOK'
    BY KindFacts DEF RobustInv, DropResource, CleanupReturned, SetCleanupStatus, TypeOK,
        SharedTypeOK, PCs, CleanupStatuses, RemovalInv, EntryInv, RemovalPCs, world,
        outcome
<1>2. LoopInv'
    BY DEF RobustInv, DropResource, CleanupReturned, SetCleanupStatus, LoopInv,
        PositionInv, FreshInv, RanInv, TypeOK, RemovalInv, EntryInv, LoopPCs, RemovalPCs,
        world
<1>3. LedgerInv'
    BY KindFacts DEF RobustInv, DropResource, DropCall, CleanupReturned, NotApplied,
        SetCleanupStatus, LedgerInv, ListedInv, PendingInv, Confirming, HeldInv, Accounted,
        DeletedIsGone, TypeOK, SharedTypeOK, RemovalInv, EntryInv, Ours, LoopPCs,
        RemovalPCs
<1>4. \A k \in Kinds : remote'[k] = "foreign" => remote[k] = "foreign"
    BY EntryFacts DEF RobustInv, DropResource, DropCall, NotApplied, TypeOK, SharedTypeOK,
        RemovalPCs
<1>5. ForeignInv'
    BY <1>4, KindFacts DEF RobustInv, DropResource, CleanupReturned, RemovalInv, ForeignInv, TypeOK
<1>6. EntryInv'
    BY DEF RobustInv, DropResource, CleanupReturned, SetCleanupStatus, RemovalInv, EntryInv,
        TypeOK, Matches, RemovalPCs, world
<1>7. ReturnInv'
    BY DEF RobustInv, DropResource, CleanupReturned, ReturnInv, FinalStatuses, RemovalPCs, NoExit, world,
        outcome
<1> QED BY <1>1, <1>2, <1>3, <1>5, <1>6, <1>7 DEF RobustInv, RemovalInv

\* No entry is pending any more.
LEMMA EndCleanupKeeps == ASSUME RobustInv, EndCleanup PROVE RobustInv'
<1>1. TypeOK'
    BY DEF RobustInv, EndCleanup, Delete, TypeOK, SharedTypeOK, PCs, world, memory,
        removal, outcome
<1>2. LoopInv'
    BY DEF RobustInv, EndCleanup, LoopInv, PositionInv, FreshInv, RanInv, LoopPCs, world,
        memory
<1>3. LedgerInv'
    BY DEF RobustInv, EndCleanup, Delete, LedgerInv, ListedInv, PendingInv, Confirming, HeldInv,
        Accounted, DeletedIsGone, LoopPCs, memory
<1>4. RemovalInv'
    BY DEF RobustInv, EndCleanup, RemovalInv, ForeignInv, EntryInv, LoopPCs, RemovalPCs,
        world, memory
<1>5. ReturnInv'
    BY DEF RobustInv, EndCleanup, Pending, ReturnInv, FinalStatuses, Document, world, memory, outcome
<1> QED BY <1>1, <1>2, <1>3, <1>4, <1>5 DEF RobustInv

LEMMA ReturnErrorKeeps == ASSUME RobustInv, ReturnError PROVE RobustInv'
<1>1. TypeOK'
    BY DEF RobustInv, ReturnError, TypeOK, SharedTypeOK, PCs, ExitCodes, shared, world,
        memory, removal
<1>2. LoopInv' /\ LedgerInv' /\ RemovalInv' /\ ReturnInv'
    BY DEF RobustInv, ReturnError, LoopInv, PositionInv, FreshInv, RanInv, LedgerInv,
        ListedInv, PendingInv, Confirming, HeldInv, Accounted, DeletedIsGone, RemovalInv, ForeignInv,
        EntryInv, ReturnInv, FinalStatuses, Pending, LoopPCs, RemovalPCs, shared, world, memory
<1> QED BY <1>1, <1>2 DEF RobustInv

\* The exit code is computed from the entries as they stand.
LEMMA ReturnResultKeeps == ASSUME RobustInv, ReturnResult PROVE RobustInv'
<1>1. TypeOK'
    BY DEF RobustInv, ReturnResult, Persist, RunStatus, ExitCode, Document, TypeOK,
        SharedTypeOK, PCs, RunStatuses, FinalStatuses, Documents, ExitCodes, shared, world, memory,
        removal
<1>2. LoopInv'
    BY DEF RobustInv, ReturnResult, LoopInv, PositionInv, FreshInv, RanInv, LoopPCs,
        world, memory
<1>3. LedgerInv'
    BY DEF RobustInv, ReturnResult, LedgerInv, ListedInv, PendingInv, Confirming, HeldInv, Accounted,
        DeletedIsGone, LoopPCs, shared, memory
<1>4. RemovalInv'
    BY DEF RobustInv, ReturnResult, RemovalInv, ForeignInv, EntryInv, LoopPCs, RemovalPCs,
        shared, world, memory
<1>5. ReturnInv'
    BY DEF RobustInv, ReturnResult, Persist, RunStatus, ExitCode, Document, ReturnInv, FinalStatuses,
        Pending, world, memory
<1> QED BY <1>1, <1>2, <1>3, <1>4, <1>5 DEF RobustInv

LEMMA InterruptKeeps == ASSUME RobustInv, Interrupt PROVE RobustInv'
<1>1. TypeOK'
    BY DEF RobustInv, Interrupt, TypeOK, SharedTypeOK, shared, progress, world, memory,
        removal, outcome
<1>2. LoopInv' /\ LedgerInv' /\ RemovalInv' /\ ReturnInv'
    BY DEF RobustInv, Interrupt, LoopInv, PositionInv, FreshInv, RanInv, LedgerInv,
        ListedInv, PendingInv, Confirming, HeldInv, Accounted, DeletedIsGone, RemovalInv, ForeignInv,
        EntryInv, ReturnInv, FinalStatuses, Current, CurrentKind, Matches, Pending, Document, shared,
        progress, world, memory, removal, outcome
<1> QED BY <1>1, <1>2 DEF RobustInv

\* What is in memory is frozen.
LEMMA KillKeeps == ASSUME RobustInv, Kill PROVE RobustInv'
<1>1. TypeOK'
    BY DEF RobustInv, Kill, TypeOK, SharedTypeOK, PCs, shared, world, memory, removal,
        outcome
<1>2. LoopInv' /\ LedgerInv' /\ RemovalInv' /\ ReturnInv'
    BY DEF RobustInv, Kill, Over, LoopInv, PositionInv, FreshInv, RanInv, LedgerInv,
        ListedInv, PendingInv, Confirming, HeldInv, DeletedIsGone, RemovalInv, ForeignInv, EntryInv,
        ReturnInv, FinalStatuses, Document, LoopPCs, RemovalPCs, shared, world, memory, outcome
<1> QED BY <1>1, <1>2 DEF RobustInv

-----------------------------------------------------------------------------
(* What holds while the run is alone with its resources (AloneInv). *)

LEMMA AskInv == ASSUME IInv, Ask PROVE IInv'
<1>1. AloneInv'
    BY DEF IInv, AloneInv, OwnedInv, OneEntryPerResource, InitializedInv, TargetInv,
        Ask, shared, world, memory, removal, LoopPCs, RemovalPCs
<1> QED BY <1>1, AskKeeps DEF IInv

LEMMA RefuseInv == ASSUME IInv, Refuse PROVE IInv'
<1>1. AloneInv'
    BY DEF IInv, AloneInv, OwnedInv, OneEntryPerResource, InitializedInv, TargetInv,
        Refuse, Confirming, shared, world, memory, removal, Pending, LoopPCs, RemovalPCs
<1> QED BY <1>1, RefuseKeeps DEF IInv

LEMMA BeginInv == ASSUME IInv, Begin PROVE IInv'
<1>1. AloneInv'
    BY DEF IInv, AloneInv, OwnedInv, OneEntryPerResource, InitializedInv, TargetInv,
        Begin, Confirming, Persist, shared, world, memory, removal, LoopPCs, RemovalPCs
<1> QED BY <1>1, BeginKeeps DEF IInv

LEMMA LeaveLoopInv == ASSUME IInv, LeaveLoop PROVE IInv'
<1>1. AloneInv'
    BY DEF IInv, AloneInv, OwnedInv, OneEntryPerResource, InitializedInv, TargetInv,
        LeaveLoop, shared, world, memory, removal, outcome, LoopPCs, RemovalPCs
<1> QED BY <1>1, LeaveLoopKeeps DEF IInv

LEMMA RunLocalInv == ASSUME IInv, RunLocal PROVE IInv'
<1>1. Current \notin Owners
    BY KindFacts DEF RunLocal, CurrentKind
<1>2. \A c \in Owners : benchmark'[c] = benchmark[c]
    BY <1>1, KindFacts DEF IInv, RobustInv, RunLocal, EndCategory, TypeOK
<1>3. AloneInv'
    BY <1>2 DEF IInv, AloneInv, OwnedInv, OneEntryPerResource, InitializedInv, TargetInv, RunLocal,
        AtCategory, EndCategory, LoopPCs, shared, world
<1> QED BY <1>3, RunLocalKeeps DEF IInv

LEMMA EngineUnavailableInv == ASSUME IInv, EngineUnavailable PROVE IInv'
<1>1. AloneInv'
    BY SelectionFacts DEF IInv, AloneInv, OwnedInv, OneEntryPerResource, InitializedInv,
        TargetInv, EngineUnavailable, AtCategory, EndCategory, shared, world, removal,
        outcome, Current, LoopPCs, RemovalPCs
<1> QED BY <1>1, EngineUnavailableKeeps DEF IInv

\* An initialized database is measured; it is marked and recorded (InitializedInv).
LEMMA EngineReadyInv == ASSUME IInv, EngineReady PROVE IInv'
<1>1. AloneInv'
    BY KindFacts, SelectionFacts DEF IInv, AloneInv, OwnedInv, OneEntryPerResource,
        InitializedInv, TargetInv, EngineReady, AtCategory, CurrentKind, LoopPCs, shared,
        Current, RemovalPCs, world, outcome
<1> QED BY <1>1, EngineReadyKeeps DEF IInv

LEMMA CreateResourceInv == ASSUME IInv, CreateResource PROVE IInv'
<1>1. OwnedInv' /\ OneEntryPerResource'
    BY KindFacts DEF IInv, RobustInv, AloneInv, OwnedInv, OneEntryPerResource, CreateResource,
        CreateCall, CurrentKind, EndCategory, NotApplied, Current, TypeOK, SharedTypeOK, LoopInv,
        PositionInv, FreshInv, LedgerInv, PendingInv, Confirming, Ours, LoopPCs, world
<1>2. InitializedInv' /\ TargetInv'
    BY KindFacts DEF IInv, RobustInv, AloneInv, InitializedInv, TargetInv, CreateResource,
        CreateCall, CurrentKind, EndCategory, NotApplied, Current, TypeOK, SharedTypeOK, LoopInv,
        PositionInv, LoopPCs, world
<1> QED BY <1>1, <1>2, CreateResourceKeeps DEF IInv, AloneInv

\* The resource marked is the one that was just created (OwnedInv).
LEMMA WriteMarkerInv == ASSUME IInv, WriteMarker PROVE IInv'
<1>1. OwnedInv' /\ OneEntryPerResource'
    BY KindFacts DEF IInv, RobustInv, AloneInv, OwnedInv, OneEntryPerResource, WriteMarker,
        MarkCall, CurrentKind, EndCategory, ListOwned, NotApplied, Current, TypeOK, SharedTypeOK,
        LoopInv, PositionInv, LedgerInv, PendingInv, Confirming, Ours, LoopPCs, world
<1>2. InitializedInv' /\ TargetInv'
    BY KindFacts DEF IInv, RobustInv, AloneInv, InitializedInv, TargetInv, WriteMarker, MarkCall,
        CurrentKind, EndCategory, NotApplied, Current, TypeOK, SharedTypeOK, LoopInv, PositionInv,
        OwnedInv, LoopPCs, world
<1> QED BY <1>1, <1>2, WriteMarkerKeeps DEF IInv, AloneInv

\* The one step after which the resource is both marked and recorded on disk.
LEMMA RecordResourceInv == ASSUME IInv, RecordResource PROVE IInv'
<1>1. OwnedInv' /\ OneEntryPerResource'
    BY KindFacts DEF IInv, RobustInv, AloneInv, OwnedInv, OneEntryPerResource, RecordResource,
        Current, ListOwned, CurrentKind, EndCategory, TypeOK, LoopInv, PositionInv, LedgerInv,
        PendingInv, Confirming, Ours, LoopPCs
<1>2. InitializedInv' /\ TargetInv'
    BY KindFacts DEF IInv, RobustInv, AloneInv, InitializedInv, TargetInv, OwnedInv,
        RecordResource, Current, ListOwned, Save, CurrentKind, EndCategory, TypeOK, LoopInv,
        PositionInv, LedgerInv, ListedInv, KindsOf, LoopPCs, world
<1> QED BY <1>1, <1>2, RecordResourceKeeps DEF IInv, AloneInv

\* A success needs an initialized resource.
LEMMA MeasureInv == ASSUME IInv, Measure PROVE IInv'
<1>1. AloneInv'
    BY SelectionFacts DEF IInv, AloneInv, OwnedInv, OneEntryPerResource, InitializedInv,
        TargetInv, Measure, EndCategory, shared, world, removal, outcome, Current,
        LoopPCs, CurrentKind, RemovalPCs
<1> QED BY <1>1, MeasureKeeps DEF IInv

LEMMA PersistCategoryInv == ASSUME IInv, PersistCategory PROVE IInv'
<1>1. AloneInv'
    BY SelectionFacts DEF IInv, AloneInv, OwnedInv, OneEntryPerResource, InitializedInv,
        TargetInv, PersistCategory, Persist, LoopPCs, world, memory, shared, RemovalPCs
<1> QED BY <1>1, PersistCategoryKeeps DEF IInv

LEMMA KeepEntriesInv == ASSUME IInv, KeepEntries PROVE IInv'
<1>1. AloneInv'
    BY KindFacts DEF IInv, AloneInv, OwnedInv, OneEntryPerResource, InitializedInv,
        TargetInv, KeepEntries, shared, world, removal, outcome, Pending, LoopPCs,
        RemovalPCs
<1> QED BY <1>1, KeepEntriesKeeps DEF IInv

LEMMA RefuseEntryInv == ASSUME IInv, RefuseEntry PROVE IInv'
<1>1. AloneInv'
    BY DEF IInv, AloneInv, OwnedInv, OneEntryPerResource, InitializedInv, TargetInv,
        RefuseEntry, Pending, SetCleanupStatus, shared, progress, world, removal, outcome,
        LoopPCs, Matches
<1> QED BY <1>1, RefuseEntryKeeps DEF IInv

LEMMA CleanEntryInv == ASSUME IInv, CleanEntry PROVE IInv'
<1>1. AloneInv'
    BY DEF IInv, AloneInv, OwnedInv, OneEntryPerResource, InitializedInv, TargetInv,
        CleanEntry, Pending, Matches, shared, world, memory, outcome, LoopPCs
<1> QED BY <1>1, CleanEntryKeeps DEF IInv

\* The marker read is what makes the purge and the drop hit an owned resource.
LEMMA VerifyMarkerInv == ASSUME IInv, VerifyMarker PROVE IInv'
<1>1. OwnedInv' /\ OneEntryPerResource'
    BY KindFacts DEF IInv, RobustInv, AloneInv, OwnedInv, OneEntryPerResource, VerifyMarker,
        CleanupReturned, SetCleanupStatus, TypeOK, RemovalInv, EntryInv, LoopPCs, RemovalPCs,
        shared
<1>2. InitializedInv' /\ TargetInv'
    BY KindFacts DEF IInv, RobustInv, AloneInv, InitializedInv, TargetInv, VerifyMarker,
        VerifyCall, CleanupReturned, RemovalInv, EntryInv, Ours, LoopPCs, RemovalPCs, shared,
        world, removal
<1> QED BY <1>1, <1>2, VerifyMarkerKeeps DEF IInv, AloneInv

LEMMA PurgeBucketInv == ASSUME IInv, PurgeBucket PROVE IInv'
<1>1. OwnedInv' /\ OneEntryPerResource'
    BY KindFacts DEF IInv, RobustInv, AloneInv, OwnedInv, OneEntryPerResource, PurgeBucket,
        CleanupReturned, SetCleanupStatus, TypeOK, RemovalInv, EntryInv, LoopPCs, RemovalPCs
<1>2. InitializedInv'
    BY KindFacts DEF IInv, RobustInv, AloneInv, InitializedInv, PurgeBucket, CleanupReturned,
        RemovalInv, EntryInv, LoopPCs, RemovalPCs, world
<1>3. TargetInv'
    BY EntryFacts DEF IInv, RobustInv, AloneInv, TargetInv, PurgeBucket, PurgeCall, NotApplied,
        CleanupReturned, TypeOK, SharedTypeOK, Ours, RemovalPCs, removal
<1> QED BY <1>1, <1>2, <1>3, PurgeBucketKeeps DEF IInv, AloneInv

LEMMA DropResourceInv == ASSUME IInv, DropResource PROVE IInv'
<1>1. OwnedInv' /\ OneEntryPerResource'
    BY KindFacts DEF IInv, RobustInv, AloneInv, OwnedInv, OneEntryPerResource, DropResource,
        CleanupReturned, SetCleanupStatus, TypeOK, RemovalInv, EntryInv, LoopPCs, RemovalPCs
<1>2. InitializedInv' /\ TargetInv'
    BY KindFacts DEF IInv, RobustInv, AloneInv, InitializedInv, TargetInv, DropResource,
        CleanupReturned, RemovalInv, EntryInv, LoopPCs, RemovalPCs, world
<1> QED BY <1>1, <1>2, DropResourceKeeps DEF IInv, AloneInv

LEMMA EndCleanupInv == ASSUME IInv, EndCleanup PROVE IInv'
<1>1. AloneInv'
    BY DEF IInv, AloneInv, OwnedInv, OneEntryPerResource, InitializedInv, TargetInv,
        EndCleanup, Delete, world, memory, removal, outcome, LoopPCs, RemovalPCs, Pending
<1> QED BY <1>1, EndCleanupKeeps DEF IInv

LEMMA ReturnErrorInv == ASSUME IInv, ReturnError PROVE IInv'
<1>1. AloneInv'
    BY DEF IInv, AloneInv, OwnedInv, OneEntryPerResource, InitializedInv, TargetInv,
        ReturnError, shared, world, memory, removal, Pending, LoopPCs, RemovalPCs
<1> QED BY <1>1, ReturnErrorKeeps DEF IInv

LEMMA ReturnResultInv == ASSUME IInv, ReturnResult PROVE IInv'
<1>1. AloneInv'
    BY DEF IInv, AloneInv, OwnedInv, OneEntryPerResource, InitializedInv, TargetInv,
        ReturnResult, Persist, RunStatus, ExitCode, shared, world, memory, removal,
        LoopPCs, RemovalPCs, Pending
<1> QED BY <1>1, ReturnResultKeeps DEF IInv

LEMMA InterruptInv == ASSUME IInv, Interrupt PROVE IInv'
<1>1. AloneInv'
    BY DEF IInv, AloneInv, OwnedInv, OneEntryPerResource, InitializedInv, TargetInv,
        Interrupt, shared, progress, world, memory, removal, outcome, Current,
        CurrentKind, Matches, Pending
<1> QED BY <1>1, InterruptKeeps DEF IInv

LEMMA KillInv == ASSUME IInv, Kill PROVE IInv'
<1>1. AloneInv'
    BY DEF IInv, AloneInv, OwnedInv, OneEntryPerResource, InitializedInv, TargetInv, Kill,
        shared, world, memory, removal, outcome, Over, LoopPCs, RemovalPCs
<1> QED BY <1>1, KillKeeps DEF IInv

-----------------------------------------------------------------------------
\* Every step of the run, and every stutter, keeps the invariant.
LEMMA NextKeeps == RobustInv /\ [Next]_vars => RobustInv'
<1> SUFFICES ASSUME RobustInv, [Next]_vars PROVE RobustInv'
    OBVIOUS
<1>1. CASE LoopStep
    BY <1>1, AskKeeps, RefuseKeeps, BeginKeeps, LeaveLoopKeeps, RunLocalKeeps, EngineUnavailableKeeps,
        EngineReadyKeeps, CreateResourceKeeps, WriteMarkerKeeps, RecordResourceKeeps, MeasureKeeps,
        PersistCategoryKeeps DEF LoopStep
<1>2. CASE CleanupStep
    BY <1>2, KeepEntriesKeeps, RefuseEntryKeeps, CleanEntryKeeps, VerifyMarkerKeeps,
        PurgeBucketKeeps, DropResourceKeeps, EndCleanupKeeps DEF CleanupStep
<1>3. CASE ReturnError \/ ReturnResult
    BY <1>3, ReturnErrorKeeps, ReturnResultKeeps
<1>4. CASE Interrupt \/ Kill
    BY <1>4, InterruptKeeps, KillKeeps
<1>5. CASE UNCHANGED vars
    BY <1>5 DEF vars, runVars, shared, progress, world, memory, removal, outcome,
        RobustInv, TypeOK, SharedTypeOK, LoopInv, PositionInv, FreshInv, RanInv, LedgerInv,
        ListedInv, PendingInv, Confirming, HeldInv, Accounted, DeletedIsGone, RemovalInv, ForeignInv,
        EntryInv, ReturnInv, FinalStatuses, Pending, Matches, Document, Current, CurrentKind
<1> QED
    BY <1>1, <1>2, <1>3, <1>4, <1>5 DEF Next, RunNext, ExecuteStep, RunOver

LEMMA NextInv == IInv /\ [Next]_vars => IInv'
<1> SUFFICES ASSUME IInv, [Next]_vars PROVE IInv'
    OBVIOUS
<1>1. CASE LoopStep
    BY <1>1, AskInv, RefuseInv, BeginInv, LeaveLoopInv, RunLocalInv, EngineUnavailableInv,
        EngineReadyInv, CreateResourceInv, WriteMarkerInv, RecordResourceInv, MeasureInv,
        PersistCategoryInv DEF LoopStep
<1>2. CASE CleanupStep
    BY <1>2, KeepEntriesInv, RefuseEntryInv, CleanEntryInv, VerifyMarkerInv,
        PurgeBucketInv, DropResourceInv, EndCleanupInv DEF CleanupStep
<1>3. CASE ReturnError \/ ReturnResult
    BY <1>3, ReturnErrorInv, ReturnResultInv
<1>4. CASE Interrupt \/ Kill
    BY <1>4, InterruptInv, KillInv
<1>5. CASE UNCHANGED vars
    BY <1>5, NextKeeps DEF IInv, vars, runVars, shared, progress, world, memory, removal, outcome,
        AloneInv, OwnedInv, OneEntryPerResource, InitializedInv, TargetInv, Current, CurrentKind
<1> QED
    BY <1>1, <1>2, <1>3, <1>4, <1>5 DEF Next, RunNext, ExecuteStep, RunOver

\* The invariant holds in every state a run can reach, for every set of
\* category lists and every set of names in use.
THEOREM InvariantHolds == Spec => []IInv
    BY InitInv, NextInv, PTL DEF Spec

\* Execute's variables, the manifest file and the result document keep their
\* types (runner.Execute, manifest.Store, result.WriteAtomic).
THEOREM TypeCorrect == Spec => []TypeOK
<1>1. IInv => TypeOK
    BY DEF IInv, RobustInv
<1> QED BY <1>1, InvariantHolds, PTL

\* A crash during a measurement loses nothing: what is measured is marked, and
\* the manifest file lists it (EnsureDatabase, s3bench.Run, Execute's loop).
THEOREM MeasuredIsRecordedHolds == Spec => []MeasuredIsRecorded
<1>1. IInv => MeasuredIsRecorded
    BY DEF IInv, AloneInv, InitializedInv, MeasuredIsRecorded, LoopPCs
<1> QED BY <1>1, InvariantHolds, PTL

\* No resource has two entries in the result, also when the second ClickHouse
\* category tries again after the first one failed (Execute's loop).
THEOREM OneEntryPerResourceHolds == Spec => []OneEntryPerResource
<1>1. IInv => OneEntryPerResource
    BY DEF IInv, AloneInv
<1> QED BY <1>1, InvariantHolds, PTL

\* "deleted" is never said of a resource that exists (the cleanup closure).
THEOREM DeletedIsGoneHolds == Spec => []DeletedIsGone
<1>1. IInv => DeletedIsGone
    BY DEF IInv, RobustInv, LedgerInv
<1> QED BY <1>1, InvariantHolds, PTL

\* However Execute returns, the cleanup closure has handled every entry.
THEOREM CleanupAttemptedHolds == Spec => []CleanupAttempted
<1>1. IInv => CleanupAttempted
    BY DEF IInv, RobustInv, ReturnInv, FinalStatuses, CleanupAttempted
<1> QED BY <1>1, InvariantHolds, PTL
-----------------------------------------------------------------------------
\* When Execute has returned, everything it holds is kept, failed or lost with
\* its create call, in the entries as they stand.
LEMMA HeldAtReturn ==
    ASSUME RobustInv, pc = "ended", NEW k \in Kinds, Ours(remote[k])
    PROVE  \E c \in Owners :
              /\ KindOf[c] = k
              /\ \/ resource[c] \in {"kept", "failed"}
                 \/ resource[c] = "none" /\ benchmark[c] = "failed"
<1>1. Accounted(k)
    BY DEF RobustInv, LedgerInv, HeldInv
<1>2. \A c \in Owners : resource[c] # "pending"
    BY KindFacts DEF RobustInv, ReturnInv, FinalStatuses, Pending
<1> QED BY <1>1, <1>2 DEF Accounted

LEMMA RobustAccounts == RobustInv => DocumentAccounts
<1> SUFFICES ASSUME RobustInv, doc.status \in FinalStatuses, NEW k \in Kinds, Ours(remote[k])
             PROVE  Reported(k)
    BY DEF DocumentAccounts
<1>1. pc = "ended" /\ doc = Document(doc.status)
    BY DEF RobustInv, ReturnInv
<1>2. doc.benchmark = benchmark /\ doc.resource = resource
    BY <1>1 DEF Document
<1> QED BY <1>1, <1>2, HeldAtReturn DEF Reported

LEMMA RobustSuccessIsClean == RobustInv => SuccessIsClean
<1> SUFFICES ASSUME RobustInv, exit = 0 \/ doc.status = "success" PROVE SuccessIsClean
    BY DEF SuccessIsClean
<1>1. /\ pc = "ended"
      /\ n > Len(selection)
      /\ \A c \in Categories : benchmark[c] \in {"none", "success"} /\ resource[c] # "failed"
    BY DEF RobustInv, ReturnInv, FinalStatuses, NoExit
<1>2. doc.status = "success" => doc.benchmark = benchmark
    BY DEF RobustInv, ReturnInv, FinalStatuses, Document
<1>3. ASSUME NEW i \in 1..Len(selection) PROVE benchmark[selection[i]] = "success"
  <2>1. selection[i] \in Categories /\ i < n
    BY <1>1, SelectionFacts DEF RobustInv
  <2>2. benchmark[selection[i]] # "none"
    BY <2>1 DEF RobustInv, LoopInv, RanInv
  <2> QED BY <1>1, <2>1, <2>2
<1>4. ASSUME ~keep, NEW k \in Kinds PROVE ~Ours(remote[k])
  <2> SUFFICES ASSUME Ours(remote[k]) PROVE FALSE
    OBVIOUS
  <2>1. PICK c \in Owners : \/ resource[c] \in {"kept", "failed"}
                            \/ resource[c] = "none" /\ benchmark[c] = "failed"
    BY <1>1, HeldAtReturn
  <2> QED BY <1>1, <1>4, <2>1, KindFacts DEF RobustInv, RemovalInv, EntryInv
<1> QED BY <1>2, <1>3, <1>4 DEF SuccessIsClean

\* A run that moves is not over.
LEMMA MovingIsNotOver == ASSUME RunNext PROVE pc \notin Over
BY DEF RunNext, ExecuteStep, LoopStep, CleanupStep, Ask, Refuse, Begin, Confirming, LeaveLoop,
    RunLocal, AtCategory, EngineUnavailable, EngineReady, CreateResource, WriteMarker,
    RecordResource, Measure, PersistCategory, KeepEntries, RefuseEntry, CleanEntry,
    VerifyMarker, PurgeBucket, DropResource, EndCleanup, ReturnError, ReturnResult,
    Interrupt, Kill, Over

\* The exit code comes with the last document or is 2 (ReturnResult), and
\* nothing of the run follows it.
LEMMA WrittenHolds == Spec => [](IInv /\ WrittenInv)
<1>1. Init => WrittenInv
    BY DEF Init, RunInit, WrittenInv, NoExit
<1>2. IInv /\ WrittenInv /\ [Next]_vars => WrittenInv'
  <2> SUFFICES ASSUME IInv, WrittenInv, [Next]_vars, exit' \in {0, 1, 130}
               PROVE  doc'.status \in FinalStatuses
    BY DEF WrittenInv
  <2>1. CASE exit' = exit
    <3>1. pc = "ended"
      BY <2>1 DEF IInv, RobustInv, ReturnInv, NoExit
    <3>2. doc' = doc
      BY <3>1, MovingIsNotOver DEF Next, RunOver, vars, runVars, outcome, Over
    <3> QED BY <2>1, <3>2 DEF WrittenInv
  <2>2. CASE exit' # exit
    <3>1. CASE LoopStep
      <4>1. CASE Refuse
        BY <4>1 DEF Refuse
      <4>2. CASE LoopStep /\ ~Refuse
        BY <2>2, <4>2 DEF LoopStep, Ask, Begin, LeaveLoop, RunLocal, EngineUnavailable,
            EngineReady, CreateResource, WriteMarker, RecordResource, Measure, PersistCategory,
            outcome
      <4> QED BY <3>1, <4>1, <4>2
    <3>2. CASE CleanupStep
      BY <2>2, <3>2 DEF CleanupStep, KeepEntries, RefuseEntry, CleanEntry, VerifyMarker,
          PurgeBucket, DropResource, EndCleanup, outcome
    <3>3. CASE ReturnError \/ Interrupt \/ Kill \/ UNCHANGED vars
      BY <2>2, <3>3 DEF ReturnError, Interrupt, Kill, vars, runVars, outcome
    <3>4. CASE ReturnResult
      <4>1. doc' = Document(RunStatus)
        BY <3>4 DEF ReturnResult, Persist
      <4> QED BY <4>1 DEF Document, RunStatus, FinalStatuses
    <3> QED BY <3>1, <3>2, <3>3, <3>4 DEF Next, RunNext, ExecuteStep, RunOver
  <2> QED BY <2>1, <2>2
<1> QED BY <1>1, <1>2, InvariantHolds, PTL DEF Spec

\* Whatever a run leaves behind is in its last document (Execute's end,
\* cleanupComplete, result.WriteAtomic).
THEOREM LeftoverIsReportedHolds == Spec => []LeftoverIsReported
<1>1. IInv /\ WrittenInv => LeftoverIsReported
    BY RobustAccounts DEF IInv, WrittenInv, DocumentAccounts, LeftoverIsReported
<1> QED BY <1>1, WrittenHolds, PTL

\* Exit 0 means every selected benchmark succeeded and nothing is left that
\* --keep-resources did not ask for (status, cli.runBenchmarks).
THEOREM ExitZeroIsCleanHolds == Spec => []ExitZeroIsClean
<1>1. IInv /\ WrittenInv => ExitZeroIsClean
  <2> SUFFICES ASSUME IInv, WrittenInv, exit = 0 PROVE ExitZeroIsClean
    BY DEF ExitZeroIsClean
  <2>1. doc.benchmark = benchmark
    BY DEF IInv, RobustInv, ReturnInv, WrittenInv, Document
  <2> QED BY <2>1, RobustSuccessIsClean DEF IInv, SuccessIsClean, ExitZeroIsClean
<1> QED BY <1>1, WrittenHolds, PTL

\* What --keep-resources keeps after exit 0 is marked and in the manifest file,
\* so `cleanup` can find and verify it later.
THEOREM KeptIsRecoverableHolds == Spec => []KeptIsRecoverable
<1>1. IInv => KeptIsRecoverable
  <2> SUFFICES ASSUME IInv, exit = 0, keep, NEW k \in Kinds, Ours(remote[k])
               PROVE  remote[k] = "marked" /\ k \in KindsOf(disk)
    BY DEF KeptIsRecoverable
  <2>1. /\ pc = "ended"
        /\ \A c \in Categories : benchmark[c] \in {"none", "success"} /\ resource[c] # "failed"
    BY DEF IInv, RobustInv, ReturnInv, FinalStatuses, NoExit
  <2>2. PICK c \in Owners : /\ KindOf[c] = k
                            /\ \/ resource[c] \in {"kept", "failed"}
                               \/ resource[c] = "none" /\ benchmark[c] = "failed"
    BY <2>1, HeldAtReturn DEF IInv
  <2>3. c \in Categories /\ resource[c] # "none"
    BY <2>1, <2>2, KindFacts
  <2>4. benchmark[c] = "success"
    BY <2>1, <2>3 DEF IInv, RobustInv, LoopInv, RanInv
  <2> QED BY <2>2, <2>4 DEF IInv, AloneInv, InitializedInv
<1> QED BY <1>1, InvariantHolds, PTL

-----------------------------------------------------------------------------
(* The run command implements OwnedResources: every step of Execute is a     *)
(* step of the promise under the mapping of Runner (Holder, the kinds of      *)
(* the manifest in memory, the kinds of the manifest file), or leaves all     *)
(* three as they are.                                                         *)

promised == <<Holder, KindsOf(manifest), KindsOf(disk)>>

\* How the abstract holder follows a remote call on one resource.
LEMMA HolderOfCall ==
    ASSUME NEW k \in Kinds, NEW t \in RemoteStates, remote \in [Kinds -> RemoteStates],
           remote' = [remote EXCEPT ![k] = t]
    PROVE  Holder' = [Holder EXCEPT ![k] = IF Ours(t) THEN "ours"
                                           ELSE IF t = "foreign" THEN "taken" ELSE "free"]
BY DEF Holder

\* A call that does not change who has the name is invisible.
LEMMA HolderUnchanged ==
    ASSUME NEW k \in Kinds, NEW t \in RemoteStates, remote \in [Kinds -> RemoteStates],
           remote' = [remote EXCEPT ![k] = t],
           t = remote[k] \/ (Ours(remote[k]) /\ Ours(t))
    PROVE  Holder' = Holder
BY DEF Holder, Ours

\* Nothing promised changes while the remote side and both manifests stay.
LEMMA PromisedUnchanged ==
    ASSUME UNCHANGED <<remote, manifest, disk>>
    PROVE  UNCHANGED promised
BY DEF promised, Holder, KindsOf

LEMMA InitPromise == Init => Promise!PromiseInit
<1> SUFFICES ASSUME Init PROVE Promise!PromiseInit
    OBVIOUS
<1>1. remote \in [Kinds -> {"foreign", "absent"}]
    BY DEF Init, SharedInit
<1>2. Holder \in [Kinds -> {"free", "taken"}]
    BY <1>1 DEF Holder, Ours
<1>3. KindsOf(manifest) = {} /\ KindsOf(disk) = {}
    BY DEF Init, SharedInit, RunInit, KindsOf
<1> QED BY <1>2, <1>3 DEF Promise!PromiseInit

\* A new resource takes a free name; a refused create takes nothing.
LEMMA CreatePromise ==
    ASSUME IInv, CreateResource PROVE Promise!PromiseNext \/ UNCHANGED promised
<1>1. CurrentKind \in Kinds /\ remote \in [Kinds -> RemoteStates]
    BY KindFacts DEF IInv, RobustInv, LoopInv, PositionInv, CreateResource, CurrentKind, TypeOK,
        SharedTypeOK
<1>2. PICK t \in RemoteStates, ok \in BOOLEAN :
        /\ CreateCall(remote[CurrentKind], t, ok)
        /\ remote' = [remote EXCEPT ![CurrentKind] = t]
    BY DEF CreateResource
<1>3. UNCHANGED <<KindsOf(manifest), KindsOf(disk)>>
    BY DEF CreateResource, KindsOf
<1>4. CASE t = remote[CurrentKind]
    BY <1>1, <1>2, <1>3, <1>4, HolderUnchanged DEF promised
<1>5. CASE remote[CurrentKind] = "absent" /\ t = "bare"
  <2>1. Holder[CurrentKind] = "free"
    BY <1>1, <1>5 DEF Holder, Ours
  <2>2. Holder' = [Holder EXCEPT ![CurrentKind] = "ours"]
    BY <1>1, <1>2, <1>5, HolderOfCall DEF Ours
  <2>3. Promise!Acquire(CurrentKind)
    BY <1>3, <2>1, <2>2 DEF Promise!Acquire
  <2> QED BY <1>1, <2>3 DEF Promise!PromiseNext
<1> QED BY <1>2, <1>4, <1>5 DEF CreateCall, NotApplied

\* The marker goes to a resource the run has just created.
LEMMA MarkPromise ==
    ASSUME IInv, WriteMarker PROVE UNCHANGED promised
<1>1. CurrentKind \in Kinds /\ remote \in [Kinds -> RemoteStates]
    BY KindFacts DEF IInv, RobustInv, LoopInv, PositionInv, WriteMarker, CurrentKind, TypeOK,
        SharedTypeOK
<1>2. PICK t \in RemoteStates, ok \in BOOLEAN :
        /\ MarkCall(remote[CurrentKind], t, ok)
        /\ remote' = [remote EXCEPT ![CurrentKind] = t]
    BY DEF WriteMarker
<1>3. remote[CurrentKind] = "bare"
    BY DEF IInv, AloneInv, OwnedInv, WriteMarker
<1>4. Holder' = Holder
    BY <1>1, <1>2, <1>3, HolderUnchanged DEF MarkCall, NotApplied, Ours
<1> QED BY <1>4 DEF WriteMarker, promised, KindsOf

\* The record callback names a resource the run has.
LEMMA RecordPromise ==
    ASSUME IInv, RecordResource PROVE Promise!PromiseNext
<1>1. CurrentKind \in Kinds
    BY KindFacts DEF IInv, RobustInv, LoopInv, PositionInv, RecordResource, CurrentKind
<1>2. Holder[CurrentKind] = "ours"
    BY <1>1 DEF IInv, AloneInv, OwnedInv, RecordResource, Holder, Ours
<1>3. KindsOf(manifest') = KindsOf(manifest) \union {CurrentKind}
    BY DEF RecordResource, KindsOf, CurrentKind
<1>4. KindsOf(disk') \in {KindsOf(disk), KindsOf(manifest')}
    BY DEF RecordResource, Save
<1>5. Holder' = Holder
    BY DEF RecordResource, Holder
<1>6. KindsOf(manifest)' = KindsOf(manifest') /\ KindsOf(disk)' = KindsOf(disk')
    BY DEF KindsOf
<1>7. Promise!Record(CurrentKind)
    BY <1>2, <1>3, <1>4, <1>5, <1>6 DEF Promise!Record
<1> QED BY <1>1, <1>7 DEF Promise!PromiseNext

\* A purge empties a bucket of the run, which stays the run's.
LEMMA PurgePromise ==
    ASSUME IInv, PurgeBucket PROVE UNCHANGED promised
<1>1. KindOf[entry] \in Kinds /\ remote[KindOf[entry]] = "marked"
    BY EntryFacts DEF IInv, AloneInv, TargetInv, RemovalPCs, PurgeBucket
<1>2. PICK t \in RemoteStates, ok \in BOOLEAN :
        /\ PurgeCall(remote[KindOf[entry]], t, ok)
        /\ remote' = [remote EXCEPT ![KindOf[entry]] = t]
    BY DEF PurgeBucket
<1>3. remote \in [Kinds -> RemoteStates]
    BY DEF IInv, RobustInv, TypeOK, SharedTypeOK
<1>4. Holder' = Holder
    BY <1>1, <1>2, <1>3, HolderUnchanged DEF PurgeCall, NotApplied, Ours
<1> QED BY <1>4 DEF PurgeBucket, promised, KindsOf

\* What a drop removes is the run's, and recorded.
LEMMA DropPromise ==
    ASSUME IInv, DropResource PROVE Promise!PromiseNext \/ UNCHANGED promised
<1> DEFINE k == KindOf[entry]
<1>1. k \in Kinds /\ Ours(remote[k]) /\ remote \in [Kinds -> RemoteStates]
    BY EntryFacts DEF IInv, RobustInv, AloneInv, TargetInv, RemovalPCs, DropResource, TypeOK,
        SharedTypeOK
<1>2. k \in KindsOf(manifest)
    BY EntryFacts DEF IInv, RemovalPCs, DropResource
<1>3. PICK t \in RemoteStates, ok \in BOOLEAN :
        /\ DropCall(k, remote[k], t, ok)
        /\ remote' = [remote EXCEPT ![k] = t]
    BY DEF DropResource
<1>4. UNCHANGED <<KindsOf(manifest), KindsOf(disk)>>
    BY DEF DropResource, KindsOf
<1>5. CASE t = remote[k]
    BY <1>1, <1>3, <1>4, <1>5, HolderUnchanged DEF promised
<1>6. CASE t = "absent"
  <2>1. Holder[k] = "ours"
    BY <1>1 DEF Holder
  <2>2. Holder' = [Holder EXCEPT ![k] = "free"]
    BY <1>1, <1>3, <1>6, HolderOfCall DEF Ours
  <2>3. Promise!Release(k)
    BY <1>2, <1>4, <2>1, <2>2 DEF Promise!Release
  <2> QED BY <1>1, <2>3 DEF Promise!PromiseNext
<1> QED BY <1>3, <1>5, <1>6 DEF DropCall, NotApplied

\* The manifest file goes only when every entry it lists was deleted.
LEMMA EndCleanupPromise ==
    ASSUME IInv, EndCleanup PROVE Promise!PromiseNext \/ UNCHANGED promised
<1>1. UNCHANGED <<remote, manifest>>
    BY DEF EndCleanup, memory
<1>2. CASE disk' = disk
    BY <1>1, <1>2, PromisedUnchanged
<1>3. CASE disk' = {} /\ CleanupComplete
  <2>1. ASSUME NEW d \in disk PROVE Holder[KindOf[d]] # "ours"
    <3>1. d \in Owners /\ resource[d] = "deleted"
      BY <1>3, KindFacts DEF CleanupComplete, IInv, RobustInv, LedgerInv, ListedInv, TypeOK,
          SharedTypeOK
    <3> QED BY <3>1, KindFacts DEF IInv, RobustInv, LedgerInv, DeletedIsGone, Holder
  <2>2. \A r \in KindsOf(disk) : Holder[r] # "ours"
    BY <2>1 DEF KindsOf
  <2>3. KindsOf(disk)' = {}
    BY <1>3 DEF KindsOf
  <2>4. UNCHANGED <<Holder, KindsOf(manifest)>>
    BY <1>1 DEF Holder, KindsOf
  <2>5. Promise!Forget
    BY <2>2, <2>3, <2>4 DEF Promise!Forget
  <2> QED BY <2>5 DEF Promise!PromiseNext
<1> QED BY <1>2, <1>3 DEF EndCleanup, Delete

\* Every other step leaves the remote side and both manifests alone.
LEMMA NextPromise ==
    IInv /\ [Next]_vars => [Promise!PromiseNext]_promised
<1> SUFFICES ASSUME IInv, [Next]_vars
             PROVE  Promise!PromiseNext \/ UNCHANGED promised
    OBVIOUS
<1>1. CASE CreateResource \/ WriteMarker \/ RecordResource
    BY <1>1, CreatePromise, MarkPromise, RecordPromise
<1>2. CASE PurgeBucket \/ DropResource \/ EndCleanup
    BY <1>2, PurgePromise, DropPromise, EndCleanupPromise
<1>3. CASE \/ Ask \/ Refuse \/ Begin \/ LeaveLoop \/ RunLocal \/ EngineUnavailable
           \/ EngineReady \/ Measure \/ PersistCategory
    BY <1>3, PromisedUnchanged DEF Ask, Refuse, Begin, Confirming, LeaveLoop, RunLocal,
        EngineUnavailable, EngineReady, Measure, PersistCategory, shared, memory
<1>4. CASE KeepEntries \/ RefuseEntry \/ CleanEntry \/ VerifyMarker
    BY <1>4, PromisedUnchanged DEF KeepEntries, RefuseEntry, CleanEntry, VerifyMarker,
        shared, memory
<1>5. CASE ReturnError \/ ReturnResult \/ Interrupt \/ Kill \/ UNCHANGED vars
    BY <1>5, PromisedUnchanged DEF ReturnError, ReturnResult, Interrupt, Kill, vars,
        runVars, shared, memory
<1> QED BY <1>1, <1>2, <1>3, <1>4, <1>5
        DEF Next, RunNext, ExecuteStep, LoopStep, CleanupStep, RunOver

\* The run keeps what the benchmark contract promises about remote resources:
\* a taken name is left alone, only recorded resources of the run are removed,
\* and the manifest forgets nothing that exists.
THEOREM KeepsPromiseHolds == Spec => KeepsPromise
<1>1. Init => Promise!PromiseInit
    BY InitPromise
<1>2. IInv /\ [Next]_vars => [Promise!PromiseNext]_(Promise!promiseVars)
    BY NextPromise DEF promised, Promise!promiseVars
<1> QED BY <1>1, <1>2, InvariantHolds, PTL DEF Spec, KeepsPromise, Promise!PromiseSpec
=============================================================================
