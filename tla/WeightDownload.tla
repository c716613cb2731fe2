---------------------------- MODULE WeightDownload ----------------------------
(***************************************************************************)
(* How the processes of a node come by a model's weight files              *)
(* (weight_utils.py): under one file lock a process looks for a local      *)
(* snapshot and downloads what is missing, under the lock again it fetches *)
(* the index, and then it chooses the files to load.  A process may die    *)
(* anywhere, which frees its lock and leaves a partial snapshot.           *)
(*                                                                         *)
(* External: the hub client adds whole files to the snapshot one by one;   *)
(* the loader calls download, index and filter in this order; who failed   *)
(* or died is started again.  A model of several shards has an index.      *)
(***************************************************************************)
EXTENDS Integers, FiniteSets

CONSTANTS
    Loader,     \* the processes of the node
    Shards,     \* the weight files of a sharded model
    MaxDeaths   \* bound on how many processes die

ASSUME LoaderAssumption == "nobody" \notin Loader

VARIABLES
    remote,   \* the repository: its weight files and whether it has an index
    disk,     \* the snapshot: weight files, index, and the numpy copies of a loader
    lock,     \* who holds the model's file lock
    at,       \* where a process is
    chosen,   \* what it decided to load
    deaths

downloadVars == <<remote, disk, lock, at, chosen, deaths>>

Nobody == "nobody"
Absent == "absent"
Torn == "torn"
Whole == "whole"

Goes(p, from, to) == at[p] = from /\ at' = [at EXCEPT ![p] = to]

DownloadInit ==
    /\ remote \in {[shards |-> Shards, index |-> TRUE]}
                  \cup {[shards |-> {s}, index |-> FALSE] : s \in Shards}
    /\ disk = [shards |-> {}, index |-> FALSE, copies |-> [s \in Shards |-> Absent],
               names |-> Absent]
    /\ lock = Nobody
    /\ at = [p \in Loader |-> "start"]
    /\ chosen = [p \in Loader |-> {}]
    /\ deaths = 0

Acquire(p, from, to) ==
    /\ Goes(p, from, to)
    /\ lock = Nobody /\ lock' = p
    /\ UNCHANGED <<remote, disk, chosen, deaths>>

Unlock(p, from, to) ==
    /\ Goes(p, from, to)
    /\ lock' = Nobody
    /\ UNCHANGED <<remote, disk, chosen, deaths>>

(* _find_local_hf_snapshot_dir_unlocked: some weight file is there, and if  *)
(* there is an index, all it names.                                         *)
SnapshotComplete == disk.shards # {} /\ (disk.index => remote.shards \subseteq disk.shards)

Look(p) ==
    /\ at[p] = "looking"
    /\ at' = [at EXCEPT ![p] = IF SnapshotComplete THEN "unlocking" ELSE "downloading"]
    /\ UNCHANGED <<remote, disk, lock, chosen, deaths>>

(* snapshot_download: one more file, or none is missing any more.           *)
FetchShard(p) ==
    /\ at[p] = "downloading"
    /\ \E s \in remote.shards \ disk.shards : disk' = [disk EXCEPT !.shards = @ \cup {s}]
    /\ UNCHANGED <<remote, lock, at, chosen, deaths>>

FetchedAll(p) ==
    /\ remote.shards \subseteq disk.shards
    /\ Goes(p, "downloading", "unlocking")
    /\ UNCHANGED <<remote, disk, lock, chosen, deaths>>

(* download_safetensors_index_file_from_hf: only some models have one.      *)
FetchIndex(p) ==
    /\ Goes(p, "indexing", "leaving")
    /\ disk' = [disk EXCEPT !.index = @ \/ remote.index]
    /\ UNCHANGED <<remote, lock, chosen, deaths>>

(* Mutant: files of the index that are missing are skipped.                 *)
FilterPresent(p) ==
    /\ at[p] = "filtering"
    /\ \E to \in {"loading", "copying"} : at' = [at EXCEPT ![p] = to]
    /\ chosen' = [chosen EXCEPT ![p] = disk.shards]
    /\ UNCHANGED <<remote, disk, lock, deaths>>

(* filter_duplicate_safetensors_files: without an index whatever is there,  *)
(* with one exactly its files, and an error if one of them is missing.      *)
Filter(p) ==
    /\ at[p] = "filtering"
    /\ IF disk.index /\ ~(remote.shards \subseteq disk.shards)
       THEN at' = [at EXCEPT ![p] = "failed"] /\ UNCHANGED chosen
       ELSE /\ \E to \in {"loading", "copying"} : at' = [at EXCEPT ![p] = to]
            /\ chosen' = [chosen EXCEPT ![p] = disk.shards]
    /\ UNCHANGED <<remote, disk, lock, deaths>>

(* np_cache_weights_iterator: the copies are made by the first process, and *)
(* the list of their names, written last, says that they are all there.     *)
SeeNames(p) ==
    /\ at[p] = "dumping"
    /\ at' = [at EXCEPT ![p] = IF disk.names = Absent THEN "writing" ELSE "reading"]
    /\ lock' = IF disk.names = Absent THEN p ELSE Nobody
    /\ disk' = IF disk.names = Absent THEN [disk EXCEPT !.copies = [s \in Shards |-> Absent]]
               ELSE disk
    /\ UNCHANGED <<remote, chosen, deaths>>

WriteCopy(p, s) ==
    /\ at[p] = "writing" /\ s \in chosen[p] /\ disk.copies[s] # Whole
    /\ disk' = [disk EXCEPT !.copies[s] = IF @ = Absent THEN Torn ELSE Whole]
    /\ UNCHANGED <<remote, lock, at, chosen, deaths>>

WriteNames(p) ==
    /\ at[p] = "writing" /\ \A s \in chosen[p] : disk.copies[s] = Whole
    /\ disk' = [disk EXCEPT !.names = IF @ = Absent THEN Torn ELSE Whole]
    /\ IF disk.names = Torn
       THEN at' = [at EXCEPT ![p] = "reading"] /\ lock' = Nobody
       ELSE UNCHANGED <<at, lock>>
    /\ UNCHANGED <<remote, chosen, deaths>>

(* A list that was cut off does not parse.                                  *)
ReadCopies(p) ==
    /\ at[p] = "reading"
    /\ at' = [at EXCEPT ![p] = IF disk.names = Whole THEN "loaded" ELSE "failed"]
    /\ UNCHANGED <<remote, disk, lock, chosen, deaths>>

LoadShards(p) ==
    /\ Goes(p, "loading", "loaded")
    /\ UNCHANGED <<remote, disk, lock, chosen, deaths>>

DieLoading(p) ==
    /\ deaths < MaxDeaths /\ at[p] \notin {"loaded", "failed"}
    /\ deaths' = deaths + 1
    /\ at' = [at EXCEPT ![p] = "failed"]
    /\ lock' = IF lock = p THEN Nobody ELSE lock
    /\ UNCHANGED <<remote, disk, chosen>>

StartAgain(p) ==
    /\ Goes(p, "failed", "start")
    /\ chosen' = [chosen EXCEPT ![p] = {}]
    /\ UNCHANGED <<remote, disk, lock, deaths>>

DownloadStep(p) ==
    \/ Acquire(p, "start", "looking") \/ Look(p) \/ FetchShard(p) \/ FetchedAll(p)
    \/ Unlock(p, "unlocking", "between")
    \/ Acquire(p, "between", "indexing") \/ FetchIndex(p) \/ Unlock(p, "leaving", "filtering")
    \/ Filter(p) \/ LoadShards(p)
    \/ Acquire(p, "copying", "dumping") \/ SeeNames(p)
    \/ \E s \in Shards : WriteCopy(p, s)
    \/ WriteNames(p) \/ ReadCopies(p) \/ StartAgain(p)

DownloadNext == \E p \in Loader : DownloadStep(p) \/ DieLoading(p)

DownloadSpec == DownloadInit /\ [][DownloadNext]_downloadVars

-----------------------------------------------------------------------------
(* Who gets to load has every weight file of the model (and, of numpy       *)
(* copies, each completely), whoever died in the middle of what: an         *)
(* interrupted download or dump is never loaded as if it were the model.    *)
LoadsWholeModel ==
    \A p \in Loader : at[p] = "loaded" =>
        /\ chosen[p] = remote.shards
        /\ disk.names # Absent => \A s \in remote.shards : disk.copies[s] = Whole
=============================================================================
