------------------------------ MODULE FatChains ------------------------------
(***************************************************************************)
(* The clusters of the files of a FAT12 volume (filesystem/fat12.c): how   *)
(* fat_createfile, fat_addsectors, fat_rewritefile and fat_deletefile      *)
(* change the table and the directory, in memory and on a disk without a   *)
(* delayed-write cache, when they overlap and when the machine stops       *)
(* between two of their writes.                                            *)
(*                                                                         *)
(* Every operation loads the first table into memory of its own, changes   *)
(* this copy and the one directory in memory, and writes the directory     *)
(* before the tables, with no lock around any of it.  Where that leaves a  *)
(* volume that is not sound the reason is recorded in damage and the model *)
(* stops.                                                                  *)
(***************************************************************************)
EXTENDS Integers, FiniteSets

CONSTANTS
  Writers,          \* processes that change files
  Files, NoFile,    \* the slots of the directory, which does not grow (bound)
  LastCluster,      \* the last cluster there is on the device
  LastEntry,        \* the last one obtainfreecluster looks at
  MaxSectors,       \* bound: the clusters asked for in one call
  MaxCrashes        \* bound

ASSUME FatAssumption ==
  /\ LastCluster \in Nat /\ LastEntry \in Nat /\ 2 <= LastCluster /\ LastCluster <= LastEntry
  /\ MaxSectors \in Nat \ {0} /\ MaxCrashes \in Nat
  /\ NoFile \notin Files

Clusters == 2 .. LastEntry
FreeCluster == 0            \* in the table; as a st_clust: no cluster yet
EndCluster == LastEntry + 1 \* FAT12_END_CLUSTER
NoEntry == -1               \* name[0] is 0 or 0xe5

VARIABLES
  fat1, fat2,       \* the two tables on the disk; only the first is read
  dirdisk, dir,     \* the first cluster of each file: on the disk, in memory
  doing, target, copy,    \* of each process: its step, its slot, its table
  behind,           \* auxiliary: whose table is older than the first on the disk
  crashes, damage   \* auxiliary

diskVars == <<fat1, fat2, dirdisk>>
fatVars == <<diskVars, dir, doing, target, copy, behind, crashes, damage>>

EmptyTable == [c \in Clusters |-> FreeCluster]

FatInit ==
  /\ fat1 = EmptyTable /\ fat2 = EmptyTable
  /\ dirdisk = [f \in Files |-> NoEntry] /\ dir = dirdisk
  /\ doing = [p \in Writers |-> "idle"] /\ target = [p \in Writers |-> NoFile]
  /\ copy = [p \in Writers |-> EmptyTable]
  /\ behind = {} /\ crashes = 0 /\ damage = {}

------------------------------------------------------------------------------
FreeOf(t) == {c \in Clusters : t[c] = FreeCluster}

\* The chain from a first cluster: as many steps as there are entries.
Trail(t, first) ==
  LET step[k \in 0 .. LastEntry] ==
        IF k = 0 THEN first
        ELSE IF step[k - 1] \in Clusters THEN t[step[k - 1]] ELSE step[k - 1]
  IN  step
Chain(t, first) == {Trail(t, first)[k] : k \in 0 .. LastEntry} \cap Clusters

\* Every cluster of it is marked and the last one as such (a file without
\* clusters is sound).
SoundChain(t, first) == first \in Clusters => Trail(t, first)[LastEntry] = EndCluster

\* get_sector_fromcluster, function 1.
LastOf(t, first) == CHOOSE c \in Chain(t, first) : t[c] = EndCluster

\* Mutant: the table is searched for used clusters as well.
LowestAny(t, n) == {c \in Clusters : c - 2 < n}

\* obtainfreecluster, n times, each cluster being marked at once.
Lowest(t, n) == {c \in FreeOf(t) : Cardinality({d \in FreeOf(t) : d < c}) < n}

Least(S) == CHOOSE c \in S : \A d \in S : c <= d

\* The new clusters in their order behind the last one of the file.
Linked(t, first, new) ==
  [c \in Clusters |->
     IF c \in new
     THEN IF \E d \in new : d > c THEN Least({d \in new : d > c}) ELSE EndCluster
     ELSE IF first # FreeCluster /\ c = LastOf(t, first) THEN Least(new) ELSE t[c]]

\* Mutant: only the first cluster is given back.
CutOne(t, first) == [c \in Clusters |-> IF c = first THEN FreeCluster ELSE t[c]]

Cut(t, first) == [c \in Clusters |-> IF c \in Chain(t, first) THEN FreeCluster ELSE t[c]]

------------------------------------------------------------------------------
Does(p, from, to) == damage = {} /\ doing[p] = from /\ doing' = [doing EXCEPT ![p] = to]

\* A slot is a process's until its operation ends, for the file in it is open and others
\* get no handle for it (OpenFiles), or until it was given back.
Unslotted == {"idle", "creating"}
Holds(p, f) ==
  target[p] = f /\ doing[p] \notin Unslotted \cup {"cut dir", "cut fat1", "cut fat2"}

\* The slots that fat_deletefile has marked and will mark again; st_clust stays in them.
Erasing(f) == \E p \in Writers : target[p] = f /\ doing[p] \in {"erased", "cutting"}

\* The directory in memory as fat_createfile and update_dirs see it.
Directory == [f \in Files |-> IF Erasing(f) THEN NoEntry ELSE dir[f]]

\* loadfat, by fat_addsectors and fat_rewritefile for a file that nobody else changes ...
Load(p, f) ==
  /\ Does(p, "idle", "loaded")
  /\ dir[f] # NoEntry /\ \A q \in Writers : ~Holds(q, f)
  /\ target' = [target EXCEPT ![p] = f]
  /\ copy' = [copy EXCEPT ![p] = fat1]
  /\ UNCHANGED <<diskVars, dir, behind, crashes, damage>>

\* ... by fat_createfile, which has no slot yet ...
LoadToCreate(p) ==
  /\ Does(p, "idle", "creating")
  /\ copy' = [copy EXCEPT ![p] = fat1]
  /\ UNCHANGED <<diskVars, dir, target, behind, crashes, damage>>

\* ... and by fat_deletefile, which has marked the slot before.
MarkErased(p, f) ==
  /\ Does(p, "idle", "erased")
  /\ dir[f] # NoEntry /\ \A q \in Writers : ~Holds(q, f)
  /\ target' = [target EXCEPT ![p] = f]
  /\ UNCHANGED <<diskVars, dir, copy, behind, crashes, damage>>

LoadToErase(p) ==
  /\ Does(p, "erased", "cutting")
  /\ copy' = [copy EXCEPT ![p] = fat1]
  /\ UNCHANGED <<diskVars, dir, target, behind, crashes, damage>>

\* fat_createfile: a free slot is taken, st_clust becomes 0, and the table is written back
\* as it was.  If the slot is one whose deletion is under way, the old clusters will not
\* be given back and the new entry will be marked; and without vfs_busy, which mkdir does
\* not enter, another process may have found the same slot.
CreateEntry(p, f) ==
  /\ Does(p, "creating", "dir")
  /\ Directory[f] = NoEntry
  /\ target' = [target EXCEPT ![p] = f]
  /\ dir' = [dir EXCEPT ![f] = FreeCluster]
  /\ IF Erasing(f) THEN damage' = {"slot retaken"}
     ELSE \/ damage' = {}
          \/ (\E q \in Writers \ {p} : doing[q] = "creating") /\ damage' = {"slot shared"}
  /\ UNCHANGED <<diskVars, copy, behind, crashes>>

\* ... or not: there is none, or fc, tested without having been set, happens to be -1.
CreateEntryFails(p) ==
  /\ Does(p, "creating", "idle")
  /\ copy' = [copy EXCEPT ![p] = EmptyTable]
  /\ behind' = behind \ {p}
  /\ UNCHANGED <<diskVars, dir, target, crashes, damage>>

\* fat_addsectors with room for n clusters: the search goes on to total_sectors - 3,
\* as if tables and directories took no sectors, and so behind the device ...
AddSectors(p, n) ==
  LET first == dir[target[p]]
      new == Lowest(copy[p], n)
  IN  /\ Does(p, "loaded", IF dir[target[p]] = FreeCluster THEN "new dir" ELSE "dir")
      /\ n <= Cardinality(FreeOf(copy[p]))
      /\ copy' = [copy EXCEPT ![p] = Linked(copy[p], first, new)]
      /\ dir' = IF first = FreeCluster THEN [dir EXCEPT ![target[p]] = Least(new)] ELSE dir
      /\ damage' = IF \E c \in new : c > LastCluster THEN {"behind the device"} ELSE {}
      /\ UNCHANGED <<diskVars, target, behind, crashes>>

\* ... and without: nothing is written, but the entry in memory keeps the first
\* cluster that was found for an empty file.
AddSectorsFails(p, n) ==
  LET first == dir[target[p]]
      found == FreeOf(copy[p])
      half == first = FreeCluster /\ found # {}
  IN  /\ Does(p, "loaded", "idle")
      /\ n > Cardinality(found)
      /\ target' = [target EXCEPT ![p] = NoFile] /\ copy' = [copy EXCEPT ![p] = EmptyTable]
      /\ dir' = IF half THEN [dir EXCEPT ![target[p]] = Least(found)] ELSE dir
      /\ damage' = IF half THEN {"half allocated"} ELSE {}
      /\ behind' = behind \ {p}
      /\ UNCHANGED <<diskVars, crashes>>

\* fat_rewritefile gives the clusters back and leaves the file empty ...
Rewrite(p) ==
  /\ Does(p, "loaded", "dir")
  /\ copy' = [copy EXCEPT ![p] = Cut(copy[p], dir[target[p]])]
  /\ dir' = [dir EXCEPT ![target[p]] = FreeCluster]
  /\ UNCHANGED <<diskVars, target, behind, crashes, damage>>

\* ... fat_deletefile does so and marks the slot once more, and is done with it.
GiveBack(p) ==
  /\ Does(p, "cutting", "cut dir")
  /\ copy' = [copy EXCEPT ![p] = Cut(copy[p], dir[target[p]])]
  /\ dir' = [dir EXCEPT ![target[p]] = NoEntry]
  /\ UNCHANGED <<diskVars, target, behind, crashes, damage>>

\* The steps of update_dirs_fats: for a slot that is still the process's, for a file that
\* was empty, and for a slot that was given back.
UpdateDirs(p) ==
  Does(p, "dir", "fat1") \/ Does(p, "new dir", "new fat1") \/ Does(p, "cut dir", "cut fat1")
UpdateFat1(p) ==
  Does(p, "fat1", "fat2") \/ Does(p, "new fat1", "fat2") \/ Does(p, "cut fat1", "cut fat2")
UpdateFat2(p) == Does(p, "fat2", "idle") \/ Does(p, "cut fat2", "idle")

\* Mutant: the directory is not written.
WriteNoDir(p) ==
  /\ UpdateDirs(p)
  /\ UNCHANGED <<diskVars, dir, target, copy, behind, crashes, damage>>

\* update_dirs: the whole directory, with whatever others have changed in it.
WriteDir(p) ==
  /\ UpdateDirs(p)
  /\ dirdisk' = Directory
  /\ UNCHANGED <<fat1, fat2, dir, target, copy, behind, crashes, damage>>

\* update_fats: changes that were made since the table was loaded are lost.
WriteFat1(p) ==
  /\ UpdateFat1(p)
  /\ fat1' = copy[p]
  /\ behind' = {q \in Writers : doing[q] \notin {"idle", "erased"}} \ {p}
  /\ damage' = IF p \in behind THEN {"lost update"} ELSE {}
  /\ UNCHANGED <<fat2, dirdisk, dir, target, copy, crashes>>

WriteFat2(p) ==
  /\ UpdateFat2(p)
  /\ fat2' = copy[p]
  /\ target' = [target EXCEPT ![p] = NoFile] /\ copy' = [copy EXCEPT ![p] = EmptyTable]
  /\ behind' = behind \ {p}
  /\ damage' = IF p \in behind THEN {"lost update"} ELSE {}
  /\ UNCHANGED <<fat1, dirdisk, dir, crashes>>

\* A file whose entry names a cluster that the first table does not have yet.
InFlight(f) == \E p \in Writers : target[p] = f /\ doing[p] \in {"new dir", "new fat1"}

\* The machine stops; the next fat_mount reads the directory.
Crash ==
  /\ damage = {} /\ crashes < MaxCrashes
  /\ crashes' = crashes + 1
  /\ dir' = dirdisk
  /\ doing' = [p \in Writers |-> "idle"] /\ target' = [p \in Writers |-> NoFile]
  /\ copy' = [p \in Writers |-> EmptyTable] /\ behind' = {}
  /\ damage' = IF \E f \in Files : InFlight(f) /\ dirdisk[f] \in Clusters
               THEN {"cluster not marked"} ELSE {}
  /\ UNCHANGED diskVars

FatStops == damage # {} /\ UNCHANGED fatVars

FatStep(p) ==
  \/ \E f \in Files : Load(p, f) \/ MarkErased(p, f) \/ CreateEntry(p, f)
  \/ LoadToCreate(p) \/ LoadToErase(p) \/ CreateEntryFails(p)
  \/ \E n \in 1 .. MaxSectors : AddSectors(p, n) \/ AddSectorsFails(p, n)
  \/ Rewrite(p) \/ GiveBack(p)
  \/ WriteDir(p) \/ WriteFat1(p) \/ WriteFat2(p)

FatNext == (\E p \in Writers : FatStep(p)) \/ Crash \/ FatStops

FatSpec == FatInit /\ [][FatNext]_fatVars

------------------------------------------------------------------------------
Steps == Unslotted \cup {"loaded", "erased", "cutting", "dir", "new dir", "cut dir",
                        "fat1", "new fat1", "cut fat1", "fat2", "cut fat2"}
Entries == {NoEntry, FreeCluster} \cup Clusters
Tables == [Clusters -> {FreeCluster, EndCluster} \cup Clusters]

FatTypeOK ==
  /\ fat1 \in Tables /\ fat2 \in Tables
  /\ dirdisk \in [Files -> Entries] /\ dir \in [Files -> Entries]
  /\ doing \in [Writers -> Steps]
  /\ target \in [Writers -> Files \cup {NoFile}] /\ copy \in [Writers -> Tables]
  /\ behind \subseteq Writers /\ crashes \in 0 .. MaxCrashes

\* What is on the disk, at every moment and so after every crash: the chain of a
\* file ends, no cluster of it is free or belongs to another file.
ChainsAreSound ==
  \A f \in Files :
    ~InFlight(f) =>
      /\ SoundChain(fat1, dirdisk[f])
      /\ \A g \in Files \ {f} :
           ~InFlight(g) => Chain(fat1, dirdisk[f]) \cap Chain(fat1, dirdisk[g]) = {}

\* No file has a cluster that is not there.
OnDevice == \A f \in Files : \A c \in Chain(fat1, dirdisk[f]) : c <= LastCluster

\* When nobody is at work and nothing stopped before, no cluster is lost and the
\* two tables are the same.
NothingLeaks ==
  (crashes = 0 /\ \A p \in Writers : doing[p] = "idle") =>
    /\ \A c \in Clusters :
         fat1[c] # FreeCluster => \E f \in Files : c \in Chain(fat1, dirdisk[f])
    /\ fat1 = fat2 /\ dir = dirdisk

\* Whatever operations overlap and wherever the machine stops, the volume is
\* sound (and leaks clusters only after a crash), until one of these happens: a
\* table is written that was loaded before another was; a crash falls between
\* the new entry of a file that was empty and its table (update_dirs_fats); the
\* disk is full (fat_addsectors, obtainfreecluster); a file is created in the slot of
\* one whose deletion waits for the table (fat_deletefile), or two are in one slot.
VolumeIsSound == damage = {} => FatTypeOK /\ ChainsAreSound /\ OnDevice /\ NothingLeaks
==============================================================================
