-------------------------------- MODULE Volumes --------------------------------
(***************************************************************************)
(* Mounting and unmounting (vfs_mount_device, vfs_unmount and mkvirtualdir *)
(* of vfs/vfs_core.c, with the locks of devmgr/dex32_devmgr.c): the mount  *)
(* points below the root, the devices marked as mounted, the files that    *)
(* are open on a volume and the working directories.  No lock protects any *)
(* of it, and a mount or an unmount waits for the disk in the middle.      *)
(*                                                                         *)
(* What the code does not survive is recorded in volHarm at the step that  *)
(* causes it, and the model stops there.  What the directories of a volume *)
(* hold is Directories' subject.                                           *)
(***************************************************************************)
EXTENDS Integers, FiniteSets

CONSTANTS Mounters,                 \* processes
          Devs, PlaceNames,         \* block devices; names of mount points
          MountNodes, Root

ASSUME VolumeAssumption ==
  /\ Root \notin MountNodes
  /\ IsFiniteSet(MountNodes) /\ IsFiniteSet(Mounters)

VARIABLES
  mounts,           \* the nodes below the root
  place, device,    \* name and memid of a node
  marked, loaded,   \* nodes with FILE_MOUNT; nodes whose root directory was read
  devlock,          \* the devices that are marked as mounted
  at, job, point,   \* where a process is, the call it is in, its mount point
  holds, workdir,   \* the volume on which it has a file open; current_process->workdir
  volHarm           \* auxiliary

placeVars == <<mounts, place, device, marked, loaded>>
stepVars == <<at, job, point>>
volVars == <<placeVars, devlock, stepVars, holds, workdir, volHarm>>

SomeName == CHOOSE n \in PlaceNames : TRUE
SomeDev == CHOOSE v \in Devs : TRUE
NoMount == [op |-> "none", dev |-> SomeDev, name |-> SomeName]
Jobs == [op : {"mount"}, dev : Devs, name : PlaceNames]
        \cup [op : {"unmount", "open", "chdir"}, dev : {SomeDev}, name : PlaceNames]

VolumesInit ==
  /\ mounts = {} /\ marked = {} /\ loaded = {} /\ devlock = {}
  /\ place = [m \in MountNodes |-> SomeName] /\ device = [m \in MountNodes |-> SomeDev]
  /\ at = [p \in Mounters |-> "idle"] /\ job = [p \in Mounters |-> NoMount]
  /\ point = [p \in Mounters |-> Root]
  /\ holds = [p \in Mounters |-> Root] /\ workdir = [p \in Mounters |-> Root]
  /\ volHarm = {}

------------------------------------------------------------------------------
Steps(p, from, to) == at[p] = from /\ volHarm = {} /\ at' = [at EXCEPT ![p] = to]
Returns(p, from) ==
  /\ Steps(p, from, "idle")
  /\ job' = [job EXCEPT ![p] = NoMount] /\ point' = [point EXCEPT ![p] = Root]

HarmIf(what, condition) == volHarm' = IF condition THEN {what} ELSE {}
MayHarmIf(what, condition) == volHarm' \in {{}} \cup (IF condition THEN {{what}} ELSE {})
OthersIn(p, places) == {q \in Mounters \ {p} : at[q] \in places}
Arriving == {"ask", "search", "make", "insert"}
PlacesOf(n) == {m \in mounts : place[m] = n}
Leaving(m) == \E p \in Mounters : at[p] \in {"free", "remove"} /\ point[p] = m
FreeNodes == MountNodes \ mounts

\* Bound of the model: there is memory for one more mount point.
VolumeCall(p, j) ==
  /\ Steps(p, "idle", IF j.op = "mount" THEN "ask" ELSE "find")
  /\ j.op = "open" => holds[p] = Root
  /\ j.op = "mount" => Cardinality(OthersIn(p, Arriving)) < Cardinality(FreeNodes)
  /\ job' = [job EXCEPT ![p] = j]
  /\ UNCHANGED <<placeVars, devlock, point, holds, workdir, volHarm>>

\* vfs_mount_device asks whether the device is mounted ...
devmgr_getlock(p) ==
  /\ \/ /\ job[p].dev \notin devlock /\ Steps(p, "ask", "search") /\ UNCHANGED <<job, point>>
     \/ job[p].dev \in devlock /\ Returns(p, "ask")
  /\ UNCHANGED <<placeVars, devlock, holds, workdir, volHarm>>

\* ... and whether there is such a name.
MountSearches(p) ==
  /\ \/ /\ PlacesOf(job[p].name) = {} /\ Steps(p, "search", "make") /\ UNCHANGED <<job, point>>
     \/ PlacesOf(job[p].name) # {} /\ Returns(p, "search")
  /\ UNCHANGED <<placeVars, devlock, holds, workdir, volHarm>>

\* mkvirtualdir searches again, and answers -1 when there is one by now, which its
\* caller takes for a node ...
mkvirtualdir(p) ==
  /\ Steps(p, "make", "insert")
  /\ HarmIf("wild mount point", PlacesOf(job[p].name) # {})
  /\ UNCHANGED <<placeVars, devlock, job, point, holds, workdir>>

\* ... or puts a node on the list, whose stores may interleave with others', and names
\* it: there may be one of the name by now.
InsertsPoint(p) ==
  LET m == CHOOSE n \in FreeNodes : TRUE IN
  /\ Steps(p, "insert", "mark")
  /\ mounts' = mounts \cup {m}
  /\ place' = [place EXCEPT ![m] = job[p].name]
  /\ device' = [device EXCEPT ![m] = job[p].dev]
  /\ point' = [point EXCEPT ![p] = m]
  /\ IF PlacesOf(job[p].name) # {} THEN volHarm' = {"namesake"}
     ELSE MayHarmIf("lost", OthersIn(p, {"insert", "remove"}) # {})
  /\ UNCHANGED <<marked, loaded, devlock, job, holds, workdir>>

\* The device is marked, but the question was some time ago.
devmgr_setlock(p) ==
  /\ Steps(p, "mark", "read")
  /\ marked' = marked \cup {point[p]}
  /\ devlock' = devlock \cup {job[p].dev}
  /\ HarmIf("mounted twice", job[p].dev \in devlock)
  /\ UNCHANGED <<mounts, place, device, loaded, job, point, holds, workdir>>

\* fs->mountroot waits for the disk and fills the mount point, or cannot.
mountroot(p) ==
  /\ \/ Returns(p, "read") /\ loaded' = loaded \cup {point[p]}
     \/ Steps(p, "read", "check") /\ UNCHANGED <<job, point, loaded>>
  /\ HarmIf("read too late", Leaving(point[p]))
  /\ UNCHANGED <<mounts, place, device, marked, devlock, holds, workdir>>

------------------------------------------------------------------------------
\* The search of vfs_unmount_device, openfilex and chdir; the latter is done with it.
Finds(p) ==
  LET found == PlacesOf(job[p].name)  op == job[p].op
      m == CHOOSE n \in found : TRUE IN
  /\ \/ /\ op = "unmount" /\ found \cap marked # {} /\ Steps(p, "find", "check")
        /\ point' = [point EXCEPT ![p] = m] /\ UNCHANGED <<job, workdir>>
     \/ /\ op = "open" /\ found \cap loaded # {} /\ Steps(p, "find", "open")
        /\ point' = [point EXCEPT ![p] = m] /\ UNCHANGED <<job, workdir>>
     \/ /\ op = "chdir" /\ found # {} /\ Returns(p, "find")
        /\ workdir' = [workdir EXCEPT ![p] = m]
     \/ /\ found \cap (CASE op = "unmount" -> marked [] op = "open" -> loaded
                         [] OTHER -> mounts) = {}
        /\ Returns(p, "find") /\ UNCHANGED workdir
  /\ UNCHANGED <<placeVars, devlock, holds, volHarm>>

\* openfilex: ptr->opened++, with what it found before.
OpensFile(p) ==
  /\ Returns(p, "open")
  /\ holds' = [holds EXCEPT ![p] = point[p]]
  /\ UNCHANGED <<placeVars, devlock, workdir, volHarm>>

\* fclose, and chdir("/").
ClosesFile(p) ==
  /\ Steps(p, "idle", "idle") /\ holds[p] # Root
  /\ holds' = [holds EXCEPT ![p] = Root]
  /\ UNCHANGED <<placeVars, devlock, job, point, workdir, volHarm>>
LeavesVolume(p) ==
  /\ Steps(p, "idle", "idle") /\ workdir[p] # Root
  /\ workdir' = [workdir EXCEPT ![p] = Root]
  /\ UNCHANGED <<placeVars, devlock, job, point, holds, volHarm>>

------------------------------------------------------------------------------
\* vfs_unmount stops for an open file; whether vfs_checkdirused sees a working
\* directory is a matter of what its uninitialised pointer holds.
ChecksUse(p) ==
  LET inUse == \E q \in Mounters : holds[q] = point[p] IN
  /\ \/ ~inUse /\ Steps(p, "check", "unlock") /\ UNCHANGED <<job, point>>
     \/ Returns(p, "check")
  /\ UNCHANGED <<placeVars, devlock, holds, workdir, volHarm>>

\* Mutant: the device stays marked.
UnlocksNever(p) ==
  /\ Steps(p, "unlock", "free")
  /\ UNCHANGED <<placeVars, devlock, job, point, holds, workdir, volHarm>>

\* fs->unmount and devmgr_setlock(node->memid,0).
Unlocks(p) ==
  LET m == point[p] IN
  /\ Steps(p, "unlock", "free")
  /\ devlock' = devlock \ {device[m]}
  /\ HarmIf("unmounted twice", Leaving(m))
  /\ UNCHANGED <<placeVars, job, point, holds, workdir>>

\* vfs_freedirectory, whatever was opened since the check.
vfs_freedirectory(p) ==
  LET m == point[p] IN
  /\ Steps(p, "free", "remove")
  /\ loaded' = loaded \ {m}
  /\ HarmIf("freed file", \E q \in Mounters : \/ holds[q] = m
                                              \/ at[q] = "open" /\ point[q] = m)
  /\ UNCHANGED <<mounts, place, device, marked, devlock, job, point, holds, workdir>>

\* The device's cache is dropped, with what a new mount of it has written by now, and
\* the mount point is taken off the list and freed.
RemovesMount(p) ==
  LET m == point[p] IN
  /\ Returns(p, "remove")
  /\ mounts' = mounts \ {m} /\ marked' = marked \ {m} /\ loaded' = loaded \ {m}
  /\ IF \E q \in Mounters \ {p} : point[q] = m THEN volHarm' = {"freed mount point"}
     ELSE IF \E q \in Mounters : workdir[q] = m THEN volHarm' = {"freed working directory"}
     ELSE IF \E q \in Mounters : holds[q] \in mounts \ {m} /\ device[holds[q]] = device[m]
     THEN volHarm' = {"dropped writes"}
     ELSE MayHarmIf("lost", OthersIn(p, {"insert", "remove"}) # {})
  /\ place' = [place EXCEPT ![m] = SomeName] /\ device' = [device EXCEPT ![m] = SomeDev]
  /\ UNCHANGED <<devlock, holds, workdir>>

\* Nothing more is modelled after a harm.
VolumesStop == volHarm # {} /\ UNCHANGED volVars

VolumesNext ==
  \/ \E p \in Mounters :
       \/ (\E j \in Jobs : VolumeCall(p, j)) \/ devmgr_getlock(p) \/ MountSearches(p)
       \/ mkvirtualdir(p) \/ InsertsPoint(p) \/ devmgr_setlock(p) \/ mountroot(p)
       \/ Finds(p) \/ OpensFile(p) \/ ClosesFile(p) \/ LeavesVolume(p)
       \/ ChecksUse(p) \/ Unlocks(p) \/ vfs_freedirectory(p) \/ RemovesMount(p)
  \/ VolumesStop

VolumesSpec == VolumesInit /\ [][VolumesNext]_volVars

------------------------------------------------------------------------------
MountedOn(d) == {m \in marked : device[m] = d /\ ~Leaving(m)}

\* A device is marked just while one mount point stands for it that nobody is taking
\* down, so that it is not mounted twice and can be mounted again after an unmount or
\* a failed mount; no two mount points share a name; and what is open, or a working
\* directory, is on a volume that is there.
MountsAreSound ==
  volHarm = {} =>
    /\ \A d \in Devs : /\ d \in devlock <=> MountedOn(d) # {}
                       /\ Cardinality(MountedOn(d)) <= 1
    /\ \A n \in PlaceNames : Cardinality(PlacesOf(n)) <= 1
    /\ loaded \subseteq marked /\ marked \subseteq mounts
    /\ \A p \in Mounters : /\ holds[p] \in loaded \cup {Root}
                           /\ workdir[p] \in mounts \cup {Root}
==============================================================================
