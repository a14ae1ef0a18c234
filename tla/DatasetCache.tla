---------------------------- MODULE DatasetCache ----------------------------
(***************************************************************************)
(* The ClickBench dataset in the user's cache directory: cacheDataset and   *)
(* the load that follows it in RunClickBench (internal/bench/clickhouse),   *)
(* by any number of processes on one host.  The dataset and its checksum    *)
(* are two files, replaced one after the other without a lock: the first by *)
(* a rename, the second in place.  No checksum of the dataset is pinned:    *)
(* its identity is a length and an ETag, and the URL may serve other bytes  *)
(* under the same one.  ClickHouse loads the table from the URL, not from   *)
(* the cached file.                                                         *)
(***************************************************************************)
EXTENDS Naturals

CONSTANTS
    Loaders     \* the runs that come to clickhouse-clickbench on this host

VARIABLES
    origin,     \* what the dataset URL serves: one of Editions, or "changed"
    folder,     \* whether the dataset directory exists
    dataset,    \* the bytes of the cached file; spoilt ones may have any size
    sumFile,    \* the .sha256 file: whose checksum it has, or "torn"
    installed,  \* what downloads have put in the place of the dataset so far
    parts,      \* the loaders whose temporary file is in the directory
    load,       \* load[p]: what p does next, "over" or "killed"
    claimed,    \* claimed[p]: the checksum p has read from the .sha256 file
    hashed,     \* hashed[p]: the bytes p has itself put through the hash
    reported,   \* reported[p]: dataset_sha256, in the result of p
    loaded,     \* loaded[p]: what ClickHouse has loaded for p
    disturbed   \* a process was killed or failed to write, or the cache was touched

datasetVars == <<origin, folder, dataset, sumFile, installed, parts, load, claimed, hashed,
                 reported, loaded, disturbed>>

LoadSteps == {"begin", "checksum", "hash", "create", "fetch", "replace", "truncate", "write",
              "load", "over", "killed"}

\* Bytes that have the pinned length and come with the pinned ETag.
Editions == {"pinned", "other"}
Contents == Editions \union {"none", "spoilt"}
Checksums == Editions \union {"none", "torn"}

DatasetTypeOK ==
    /\ origin \in Editions \union {"changed"}
    /\ folder \in BOOLEAN
    /\ dataset \in Contents /\ sumFile \in Checksums
    /\ installed \subseteq Editions
    /\ parts \subseteq Loaders
    /\ load \in [Loaders -> LoadSteps]
    /\ claimed \in [Loaders -> Checksums] /\ hashed \in [Loaders -> Contents]
    /\ reported \in [Loaders -> Editions \union {"none"}]
    /\ loaded \in [Loaders -> Editions \union {"none", "changed"}]
    /\ disturbed \in BOOLEAN

DatasetInit ==
    /\ origin = "pinned"
    /\ folder = FALSE
    /\ dataset = "none" /\ sumFile = "none"
    /\ installed = {}
    /\ parts = {}
    /\ load = [p \in Loaders |-> "begin"]
    /\ claimed = [p \in Loaders |-> "none"] /\ hashed = [p \in Loaders |-> "none"]
    /\ reported = [p \in Loaders |-> "none"]
    /\ loaded = [p \in Loaders |-> "none"]
    /\ disturbed = FALSE

\* p goes on, or ends; its temporary file is removed by a deferred call.
Proceed(p, next) == load' = [load EXCEPT ![p] = next]
GiveUpDataset(p) == Proceed(p, "over") /\ parts' = parts \ {p}

\* cacheDataset returns the dataset with its checksum.
Accept(p, checksum) ==
    /\ Proceed(p, "load")
    /\ reported' = [reported EXCEPT ![p] = checksum]

-----------------------------------------------------------------------------
(* cacheDataset *)

PrepareFolder(p) ==
    /\ load[p] = "begin"
    /\ \/ folder' = TRUE /\ Proceed(p, "checksum")
       \/ UNCHANGED folder /\ Proceed(p, "over")
    /\ UNCHANGED <<origin, dataset, sumFile, installed, parts, claimed, hashed, reported, loaded,
                   disturbed>>

\* Without a checksum file the dataset is not looked at.
ReadChecksum(p) ==
    /\ load[p] = "checksum"
    /\ claimed' = [claimed EXCEPT ![p] = sumFile]
    /\ Proceed(p, IF sumFile = "none" THEN "create" ELSE "hash")
    /\ UNCHANGED <<origin, folder, dataset, sumFile, installed, parts, hashed, reported, loaded,
                   disturbed>>

\* Mutant of HashDataset: a file of the right size is good enough.
LookAtSize(p) ==
    /\ load[p] = "hash"
    /\ hashed' = [hashed EXCEPT ![p] = dataset]
    /\ IF dataset # "none" /\ claimed[p] # "torn"
       THEN Accept(p, claimed[p])
       ELSE Proceed(p, "create") /\ UNCHANGED reported
    /\ UNCHANGED <<origin, folder, dataset, sumFile, installed, parts, claimed, loaded, disturbed>>

\* hashFile: the file is good when its hash is what the checksum file says, as
\* nothing hashes to a torn one, nor do other bytes to the same.
HashDataset(p) ==
    /\ load[p] = "hash"
    /\ hashed' = [hashed EXCEPT ![p] = dataset]
    /\ IF dataset = claimed[p]
       THEN Accept(p, claimed[p])
       ELSE Proceed(p, "create") /\ UNCHANGED reported
    /\ UNCHANGED <<origin, folder, dataset, sumFile, installed, parts, claimed, loaded, disturbed>>

CreatePart(p) ==
    /\ load[p] = "create"
    /\ \/ folder /\ parts' = parts \union {p} /\ Proceed(p, "fetch")
       \/ Proceed(p, "over") /\ UNCHANGED parts
    /\ UNCHANGED <<origin, folder, dataset, sumFile, installed, claimed, hashed, reported, loaded, disturbed>>

\* The GET, up to the Close of the synced part: an answer is taken for its length
\* and ETag, all of it and whatever its bytes; their hash is compared with nothing.
FetchDataset(p) ==
    /\ load[p] = "fetch"
    /\ \/ /\ origin \in Editions
          /\ hashed' = [hashed EXCEPT ![p] = origin]
          /\ Proceed(p, "replace")
          /\ UNCHANGED parts
       \/ GiveUpDataset(p) /\ UNCHANGED hashed
    /\ UNCHANGED <<origin, folder, dataset, sumFile, installed, claimed, reported, loaded, disturbed>>

\* The part of p, or what is left of it, becomes the cached file.
Install(p, bytes) ==
    /\ p \in parts /\ parts' = parts \ {p}
    /\ dataset' = bytes
    /\ installed' = installed \union {hashed[p]}
    /\ Proceed(p, "truncate")

\* Mutant of ReplaceDataset: the part is copied over the cached file.
CopyOverDataset(p) ==
    /\ load[p] = "replace"
    /\ \/ \E bytes \in {hashed[p], "spoilt"} : Install(p, bytes)
       \/ GiveUpDataset(p) /\ UNCHANGED <<dataset, installed>>
    /\ UNCHANGED <<origin, folder, sumFile, claimed, hashed, reported, loaded, disturbed>>

\* The rename fails when the part was pruned.
ReplaceDataset(p) ==
    /\ load[p] = "replace"
    /\ Install(p, hashed[p]) \/ (GiveUpDataset(p) /\ UNCHANGED <<dataset, installed>>)
    /\ UNCHANGED <<origin, folder, sumFile, claimed, hashed, reported, loaded, disturbed>>

\* os.WriteFile opens the checksum file with O_TRUNC...
TruncateChecksum(p) ==
    /\ load[p] = "truncate"
    /\ \/ folder /\ sumFile' = "torn" /\ Proceed(p, "write")
       \/ UNCHANGED sumFile /\ Proceed(p, "over")
    /\ UNCHANGED <<origin, folder, dataset, installed, parts, claimed, hashed, reported, loaded,
                   disturbed>>

\* ... and writes it; a file that was pruned in between gets nothing of it, also
\* when another process has made a new one.
WriteChecksum(p) ==
    /\ load[p] = "write"
    /\ \/ sumFile # "none" /\ sumFile' = hashed[p] /\ Accept(p, hashed[p]) /\ UNCHANGED disturbed
       \/ disturbed /\ Accept(p, hashed[p]) /\ UNCHANGED <<sumFile, disturbed>>
       \/ Proceed(p, "over") /\ disturbed' = TRUE /\ UNCHANGED <<sumFile, reported>>
    /\ UNCHANGED <<origin, folder, dataset, installed, parts, claimed, hashed, loaded>>

-----------------------------------------------------------------------------
(* RunClickBench *)

\* INSERT INTO hits SELECT * FROM url(...): the server fetches what the URL
\* serves now; the number of rows is reported and compared with nothing.
LoadTable(p) ==
    /\ load[p] = "load"
    /\ loaded' \in {loaded, [loaded EXCEPT ![p] = origin]}
    /\ Proceed(p, "over")
    /\ UNCHANGED <<origin, folder, dataset, sumFile, installed, parts, claimed, hashed, reported,
                   disturbed>>

-----------------------------------------------------------------------------
(* What happens to the cache and to the processes meanwhile. *)

\* Other bytes, under the same identity or not, or the former ones again.
OriginChanges ==
    /\ origin' \in (Editions \union {"changed"}) \ {origin}
    /\ UNCHANGED <<folder, dataset, sumFile, installed, parts, load, claimed, hashed, reported, loaded,
                   disturbed>>

\* cache.Prune: RemoveAll goes through the directory entry by entry.
PruneDataset ==
    /\ folder
    /\ \/ dataset' = "none" /\ UNCHANGED <<folder, sumFile, parts>>
       \/ sumFile' = "none" /\ UNCHANGED <<folder, dataset, parts>>
       \/ \E p \in parts : parts' = parts \ {p} /\ UNCHANGED <<folder, dataset, sumFile>>
       \/ /\ dataset = "none" /\ sumFile = "none" /\ parts = {}
          /\ folder' = FALSE
          /\ UNCHANGED <<dataset, sumFile, parts>>
    /\ disturbed' = TRUE
    /\ UNCHANGED <<origin, installed, load, claimed, hashed, reported, loaded>>

\* The file decays, or something else writes to it.
SpoilDataset ==
    /\ dataset \in Editions
    /\ dataset' = "spoilt"
    /\ disturbed' = TRUE
    /\ UNCHANGED <<origin, folder, sumFile, installed, parts, load, claimed, hashed, reported, loaded>>

Loading(p) == load[p] \notin {"over", "killed"}

\* A kill leaves the part behind; only between the truncation and the write
\* does it harm the others.
KillLoader(p) ==
    /\ Loading(p)
    /\ Proceed(p, "killed")
    /\ disturbed' = (disturbed \/ load[p] = "write")
    /\ UNCHANGED <<origin, folder, dataset, sumFile, installed, parts, claimed, hashed, reported, loaded>>

\* The part was synced before its rename, but neither the rename nor the checksum
\* file was: each of the two files may be gone or an older one, the checksum torn.
PowerFails ==
    /\ \E p \in Loaders : Loading(p)
    /\ load' = [p \in Loaders |-> IF Loading(p) /\ load[p] # "begin" THEN "killed" ELSE load[p]]
    /\ dataset' \in {dataset, "none"} \union (IF folder THEN installed ELSE {})
    /\ sumFile' \in {sumFile, "none"} \union (IF sumFile = "none" THEN {} ELSE installed \union {"torn"})
    /\ disturbed' = TRUE
    /\ UNCHANGED <<origin, folder, installed, parts, claimed, hashed, reported, loaded>>

LoadersOver == (\A p \in Loaders : ~Loading(p)) /\ UNCHANGED datasetVars

LoaderStep(p) ==
    \/ PrepareFolder(p) \/ ReadChecksum(p) \/ HashDataset(p) \/ CreatePart(p) \/ FetchDataset(p)
    \/ ReplaceDataset(p) \/ TruncateChecksum(p) \/ WriteChecksum(p) \/ LoadTable(p)

DatasetNext ==
    \/ \E p \in Loaders : LoaderStep(p) \/ KillLoader(p)
    \/ OriginChanges \/ PruneDataset \/ SpoilDataset \/ PowerFails \/ LoadersOver

DatasetSpec == DatasetInit /\ [][DatasetNext]_datasetVars

-----------------------------------------------------------------------------
(* Properties *)

\* The dataset_sha256 of a result is the checksum of bytes that this process has
\* hashed itself, and that some run has downloaded whole and installed, whatever
\* a crash, a torn checksum file, other bytes under the pinned identity or another
\* process have left in the cache (cacheDataset).
ReportsWhatItHashed ==
    \A p \in Loaders : reported[p] # "none" => reported[p] = hashed[p] /\ reported[p] \in installed

\* The two files fit together again when everybody has finished replacing them:
\* the next run reuses what the last one, or two at once, have downloaded, as long
\* as the downloads had the same bytes (Rename and WriteFile of cacheDataset).
StaysUsable ==
    (\E p \in Loaders : reported[p] # "none") /\ ~disturbed /\ (\A p \in Loaders : load[p] # "write")
        => \A bytes \in Editions : installed = {bytes} => dataset = bytes /\ sumFile = bytes

\* "ClickHouse fetches the verified dataset URL server-side" (clickhouse.go:141):
\* the table is made of the bytes whose checksum is reported.
LoadsWhatItVerified ==
    \A p \in Loaders : loaded[p] # "none" => loaded[p] = reported[p]
=============================================================================
