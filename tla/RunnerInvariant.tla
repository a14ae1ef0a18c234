--------------------------- MODULE RunnerInvariant ---------------------------
(***************************************************************************)
(* The inductive invariant behind the safety properties of Runner: what    *)
(* each step of Execute may assume of the steps before it.  Its first part *)
(* (RobustInv) holds whoever else removes resources or manifest files      *)
(* meanwhile, its second (AloneInv) while the run is the only one to.      *)
(***************************************************************************)
EXTENDS Runner

LoopPCs == {"start", "prompt", "next", "create", "mark", "record", "measure", "persist"}
RemovalPCs == {"verify", "purge", "drop"}

\* Where the loop is.
PositionInv ==
    /\ pc \in {"create", "mark", "record", "measure", "persist"} => n <= Len(selection)
    /\ pc \in {"create", "mark", "record", "measure"} => Current \in Owners
    /\ pc \in LoopPCs => ~aborting

\* A category that has not run yet has left no trace, wherever it stands.
FreshInv ==
    pc \in LoopPCs =>
        \A i \in 1..Len(selection) :
            /\ i > n \/ (i = n /\ pc # "persist") => benchmark[selection[i]] = "none"
            /\ i > n \/ (i = n /\ pc \notin {"measure", "persist"}) =>
                    resource[selection[i]] = "none"

\* A category behind the loop has a benchmark entry, and whatever it owns it
\* has reported in one.
RanInv ==
    /\ \A i \in 1..Len(selection) :
            i < n \/ (i = n /\ pc = "persist") => benchmark[selection[i]] # "none"
    /\ \A c \in Categories :
            resource[c] # "none" /\ benchmark[c] = "none" =>
                pc = "killed" \/ (pc = "measure" /\ c = Current)

\* The manifest on disk lists what the one in memory lists, which is owned.
ListedInv ==
    /\ disk \subseteq manifest
    /\ \A c \in manifest : resource[c] # "none"
    /\ \A c \in Categories : resource[c] # "none" => c \in Owners

\* Before the cleanup nothing has been said of what is listed as owned.
PendingInv ==
    /\ pc \in LoopPCs => \A c \in Categories : resource[c] \in {"none", "pending"}
    /\ pc \in Confirming => \A c \in Categories : resource[c] = "none"

\* What the run holds is about to be listed, is listed, or was lost with the
\* reply of its create call.
Accounted(k) ==
    \/ pc \in {"mark", "record"} /\ CurrentKind = k
    \/ \E c \in Owners :
        /\ KindOf[c] = k
        /\ \/ resource[c] \in {"pending", "kept", "failed"}
           \/ resource[c] = "none" /\ benchmark[c] = "failed"

HeldInv == pc # "killed" => \A k \in Kinds : Ours(remote[k]) => Accounted(k)

\* What is marked, recorded or removed was not there before the run.
ForeignInv ==
    /\ pc \in {"mark", "record"} => remote[CurrentKind] # "foreign"
    /\ \A c \in manifest : remote[KindOf[c]] # "foreign"

\* The entry being removed is recorded in the manifest, and is not to be kept.
EntryInv ==
    /\ pc \in RemovalPCs =>
        /\ ~keep
        /\ entry \in Owners
        /\ resource[entry] = "pending"
        /\ left # {}
        /\ left \subseteq Matches(entry)
    /\ \A c \in Categories : resource[c] = "kept" => keep

\* What is known when Execute returns.
ReturnInv ==
    /\ exit # NoExit => pc = "ended"
    /\ pc \in {"finish", "ended"} => Pending = {}
    /\ pc \in {"cleanup", "finish"} \union RemovalPCs /\ ~aborting =>
            n > Len(selection) \/ interrupted
    /\ doc.status \in FinalStatuses => pc = "ended" /\ doc = Document(doc.status)
    /\ exit = 0 \/ doc.status = "success" =>
        /\ n > Len(selection)
        /\ \A c \in Categories : benchmark[c] \in {"none", "success"} /\ resource[c] # "failed"

LoopInv == PositionInv /\ FreshInv /\ RanInv
LedgerInv == ListedInv /\ PendingInv /\ HeldInv /\ DeletedIsGone
RemovalInv == ForeignInv /\ EntryInv

RobustInv == TypeOK /\ LoopInv /\ LedgerInv /\ RemovalInv /\ ReturnInv

-----------------------------------------------------------------------------
\* Before the cleanup, what is listed as owned exists; what is about to be
\* listed is not listed yet.
OwnedInv ==
    /\ pc \in LoopPCs => \A c \in Categories : resource[c] = "pending" => Ours(remote[KindOf[c]])
    /\ pc = "mark" => remote[CurrentKind] = "bare"
    /\ pc = "record" => remote[CurrentKind] = "marked"
    /\ pc \in {"mark", "record"} =>
            \A c \in Owners : KindOf[c] = CurrentKind => resource[c] = "none"

\* A resource whose EnsureDatabase succeeded stays marked and recorded on disk
\* until the cleanup, and for ever under --keep-resources.
InitializedInv ==
    /\ pc \in LoopPCs \/ keep =>
            \A k \in initialized : remote[k] = "marked" /\ k \in KindsOf(disk)
    /\ pc = "measure" => CurrentKind \in initialized
    /\ \A c \in Owners : benchmark[c] = "success" => KindOf[c] \in initialized

\* What is purged was verified, what is dropped exists.
TargetInv ==
    /\ pc = "purge" => remote[KindOf[entry]] = "marked"
    /\ pc = "drop" => Ours(remote[KindOf[entry]])

\* A run that returned a result has written its last document.  It is apart from
\* IInv because a loss of power may take the document back.
WrittenInv == exit \in {0, 1, 130} => doc.status \in FinalStatuses

AloneInv == OwnedInv /\ OneEntryPerResource /\ InitializedInv /\ TargetInv

IInv == RobustInv /\ AloneInv
=============================================================================
