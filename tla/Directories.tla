------------------------------ MODULE Directories ------------------------------
(***************************************************************************)
(* A directory below a mount point (vfs/vfs_core.c, vfs_aux.c): the list   *)
(* of its nodes in memory and the entries on the disk, while processes     *)
(* create, delete and rename files in it, make directories and remove it.  *)
(* It is read when a path first leads through it.  Only createfile holds   *)
(* vfs_busy, and every call waits for the disk between its search and its  *)
(* last store.  A FAT disk and a CD are two kinds of volume: the one never *)
(* says that it could not create an entry, the other cannot create any.    *)
(*                                                                         *)
(* What the code does not survive, be it an interleaving or a failure, is  *)
(* recorded in harm at the step that causes it, and the model stops there. *)
(* The opening and locking of files are OpenFiles' subject, what becomes   *)
(* of an entry's clusters is FatChains'.                                   *)
(***************************************************************************)
EXTENDS Integers, Sequences, SequencesExt, FiniteSets

CONSTANTS Walkers, Nobody,          \* processes; the value 0 of vfs_busy
          FileNames, DirNodes, NoDirNode

\* Bound of the model: there is memory for a node of every name.
ASSUME DirectoryAssumption ==
  /\ Nobody \notin Walkers /\ NoDirNode \notin DirNodes \cup FileNames
  /\ IsFiniteSet(DirNodes) /\ IsFiniteSet(FileNames)
  /\ Cardinality(FileNames) <= Cardinality(DirNodes)

Unread == <<NoDirNode>>             \* VFS_NOT_MOUNTED

NoCall == [op |-> "none", name |-> NoDirNode, to |-> NoDirNode]
DirCalls ==
  [op : {"create", "delete", "mkdir"}, name : FileNames, to : {NoDirNode}]
  \cup {c \in [op : {"rename"}, name : FileNames, to : FileNames] : c.name # c.to}
  \cup {[NoCall EXCEPT !.op = "rmdir"]}

VARIABLES
  files,            \* the nodes of the directory, the newest first
  nodeName,
  subdirs,          \* the nodes that are directories
  entry,            \* what the entry of a node is called; a ghost has none
  entries,          \* how many entries on the disk have a name
  onCd,             \* whether the volume is a CD
  inCrit,           \* the process that holds vfs_busy
  doing, call,      \* where a process is, and in which call
  mine, then, rollback, \* its node; rmdir's next_ptr; the list before its node was added
  gone, dirHarm     \* whether the directory was removed; auxiliary

nodeVars == <<files, nodeName, subdirs, entry>>
callVars == <<doing, call, mine, then, rollback>>
dirVars == <<nodeVars, entries, onCd, inCrit, callVars, gone, dirHarm>>

DirInit ==
  /\ files = Unread /\ nodeName = [d \in DirNodes |-> NoDirNode]
  /\ subdirs = {} /\ entry = nodeName
  /\ entries \in [FileNames -> {0, 1}] /\ onCd \in BOOLEAN
  /\ inCrit = Nobody
  /\ doing = [p \in Walkers |-> "idle"] /\ call = [p \in Walkers |-> NoCall]
  /\ mine = [p \in Walkers |-> NoDirNode] /\ then = [p \in Walkers |-> NoDirNode]
  /\ rollback = [p \in Walkers |-> <<>>]
  /\ gone = FALSE /\ dirHarm = {}

------------------------------------------------------------------------------
Proceeds(p, from, to) ==
  /\ doing[p] = from /\ dirHarm = {} /\ ~gone
  /\ doing' = [doing EXCEPT ![p] = to]

\* The end of a call: what it has read is forgotten.
Finishes(p, from) ==
  /\ Proceeds(p, from, "idle")
  /\ call' = [call EXCEPT ![p] = NoCall] /\ mine' = [mine EXCEPT ![p] = NoDirNode]
  /\ then' = [then EXCEPT ![p] = NoDirNode] /\ rollback' = [rollback EXCEPT ![p] = <<>>]

Harms(what, condition) == dirHarm' = IF condition THEN {what} ELSE {}
MayHarm(what, condition) == dirHarm' \in {{}} \cup (IF condition THEN {{what}} ELSE {})

OthersAt(p, places) == {q \in Walkers \ {p} : doing[q] \in places}
At(list, d) == CHOOSE i \in DOMAIN list : list[i] = d
Listed(d) == d \in ToSet(files)
Ghost(d) == entry[d] = NoDirNode
Named(n) == {i \in DOMAIN files : nodeName[files[i]] = n}

\* vfs_searchname takes the first node of that name.
Found(n) == IF Named(n) = {} THEN NoDirNode
            ELSE files[CHOOSE i \in Named(n) : \A j \in Named(n) : i <= j]

\* A node that was taken off the list is freed after its entry was erased.
Erases(p) == doing[p] \in {"erase", "wipe"}
Allocated(d) == Listed(d) \/ \E p \in Walkers : Erases(p) /\ mine[p] = d
SpareNodes == {d \in DirNodes : ~Allocated(d)}

\* Nothing reads the fields of a freed node without harm.
FreesNode(d) ==
  /\ nodeName' = [nodeName EXCEPT ![d] = NoDirNode]
  /\ entry' = [entry EXCEPT ![d] = NoDirNode]
  /\ subdirs' = subdirs \ {d}

\* Bound of the model: no more calls begin than there are nodes for.
DirCall(p) ==
  /\ Proceeds(p, "idle", "search")
  /\ Cardinality(OthersAt(p, {"search", "load", "enter", "add"})) < Cardinality(SpareNodes)
  /\ \E c \in DirCalls : call' = [call EXCEPT ![p] = c]
  /\ UNCHANGED <<nodeVars, entries, onCd, inCrit, mine, then, rollback, gone, dirHarm>>

\* vfs_searchname comes to a directory that was not read, and reads it ...
MeetsUnread(p) ==
  /\ Proceeds(p, "search", "load") /\ files = Unread /\ call[p].op # "rmdir"
  /\ UNCHANGED <<nodeVars, entries, onCd, inCrit, call, mine, then, rollback, gone, dirHarm>>

\* ... fs->mountdirectory: a node for every entry, one by one, though others may have
\* read it too, and may search it when it is half read.  The nodes of . and .., which
\* nothing removes, are left out.
vfs_mountdirectory(p) ==
  LET present == SetToSeq({n \in FileNames : entries[n] > 0})
      nodes == SubSeq(SetToSeq(DirNodes), 1, Len(present)) IN
  /\ Proceeds(p, "load", "search")
  /\ IF files # Unread THEN dirHarm' = {"reread"}
     ELSE MayHarm("overtaken", OthersAt(p, {"search"}) # {})
  /\ files' = IF files = Unread THEN nodes ELSE files
  /\ nodeName' = IF files # Unread THEN nodeName
                 ELSE [d \in DirNodes |-> IF d \in ToSet(nodes) THEN present[At(nodes, d)]
                                          ELSE NoDirNode]
  /\ entry' = nodeName'
  /\ UNCHANGED <<subdirs, entries, onCd, inCrit, call, mine, then, rollback, gone>>

\* Where the search leads.  delfile opens its file for writing, which creates it
\* when it is missing, and which a CD refuses.
SearchEnds(p) ==
  LET c == call[p]  d == Found(c.name)  missing == d = NoDirNode IN
  /\ files # Unread \/ c.op = "rmdir"
  /\ \/ /\ c.op \in {"create", "delete"} /\ missing /\ Proceeds(p, "search", "enter")
        /\ UNCHANGED <<call, mine, then, rollback>>
     \/ /\ c.op = "delete" /\ ~missing /\ ~onCd /\ Proceeds(p, "search", "remove")
        /\ mine' = [mine EXCEPT ![p] = d] /\ UNCHANGED <<call, then, rollback>>
     \/ /\ c.op = "mkdir" /\ missing /\ Proceeds(p, "search", "add")
        /\ UNCHANGED <<call, mine, then, rollback>>
     \/ /\ c.op = "rename" /\ ~missing /\ Found(c.to) = NoDirNode /\ Proceeds(p, "search", "rename")
        /\ mine' = [mine EXCEPT ![p] = d] /\ UNCHANGED <<call, then, rollback>>
     \/ /\ Finishes(p, "search")
        /\ CASE c.op = "create" -> ~missing
             [] c.op = "delete" -> ~missing /\ onCd
             [] c.op = "mkdir"  -> ~missing
             [] c.op = "rename" -> missing \/ Found(c.to) # NoDirNode
             [] c.op = "rmdir"  -> onCd
  /\ UNCHANGED <<nodeVars, entries, onCd, inCrit, gone, dirHarm>>

\* vfs_rmdir begins with the first node, also of a directory that no path has led
\* through yet: VFS_NOT_MOUNTED is not a node.
vfs_rmdir(p) ==
  /\ Proceeds(p, "search", "walk") /\ call[p].op = "rmdir" /\ ~onCd
  /\ mine' = [mine EXCEPT ![p] = IF files = <<>> THEN NoDirNode ELSE Head(files)]
  /\ Harms("unread", files = Unread)
  /\ UNCHANGED <<nodeVars, entries, onCd, inCrit, call, then, rollback, gone>>

\* createfile enters vfs_busy and searches again, and returns with it if there is
\* such a file by now.
createfile(p) ==
  /\ Proceeds(p, "enter", "add") /\ inCrit = Nobody
  /\ inCrit' = p
  /\ Harms("leak", Found(call[p].name) # NoDirNode)
  /\ UNCHANGED <<nodeVars, entries, onCd, call, mine, then, rollback, gone>>

\* vfs_createnode, by createfile and mkdir; the latter calls fs->createfile without
\* asking whether there is one.  The list's stores may interleave with others'.
\* Bound of the model: a node is only made while there is memory for it.
vfs_createnode(p) ==
  LET n == call[p].name  d == CHOOSE e \in SpareNodes : TRUE IN
  /\ Proceeds(p, "add", "disk") /\ SpareNodes # {}
  /\ files' = <<d>> \o files
  /\ nodeName' = [nodeName EXCEPT ![d] = n]
  /\ subdirs' = IF call[p].op = "mkdir" THEN subdirs \cup {d} ELSE subdirs \ {d}
  /\ entry' = [entry EXCEPT ![d] = NoDirNode]
  /\ mine' = [mine EXCEPT ![p] = d] /\ rollback' = [rollback EXCEPT ![p] = files]
  /\ IF Found(n) # NoDirNode THEN dirHarm' = {"namesake"}
     ELSE IF call[p].op = "mkdir" /\ onCd THEN dirHarm' = {"nullcall"}
     ELSE MayHarm("lost", OthersAt(p, {"add", "remove", "walk"}) # {})
  /\ UNCHANGED <<entries, onCd, inCrit, call, then, gone>>

\* Mutant: a file that could not be created stays on the list.
CreateFailsListed(p) ==
  /\ Finishes(p, "disk") /\ onCd
  /\ inCrit' = Nobody
  /\ UNCHANGED <<nodeVars, entries, onCd, gone, dirHarm>>

\* fs->createfile of the FAT driver: without a free slot, or when it takes what an
\* uninitialised variable holds for a full disk, it answers 0 or 2, which its callers
\* take for success.  Somebody may have renamed the node, or freed it, and the free slot
\* may be one that fat_deletefile is about to mark again, or that is being taken.
CreatesEntry(p) ==
  LET lost == ~Listed(mine[p]) IN
  /\ Proceeds(p, "disk", "made") /\ ~onCd
  /\ \/ /\ entry' = [entry EXCEPT ![mine[p]] = nodeName[mine[p]]]
        /\ entries' = [entries EXCEPT ![nodeName[mine[p]]] = @ + 1]
        /\ IF lost THEN dirHarm' = {"freed"} ELSE MayHarm("slot", OthersAt(p, {"disk", "wipe"}) # {})
     \/ UNCHANGED <<entry, entries>> /\ Harms("freed", lost)
  /\ UNCHANGED <<files, nodeName, subdirs, onCd, inCrit, call, mine, then, rollback, gone>>

CreateEnds(p) ==
  /\ inCrit' = IF call[p].op = "mkdir" THEN inCrit ELSE Nobody
  /\ \/ /\ call[p].op = "delete" /\ Proceeds(p, "made", "remove")
        /\ UNCHANGED <<call, mine, then, rollback>>
     \/ call[p].op # "delete" /\ Finishes(p, "made")
  /\ UNCHANGED <<nodeVars, entries, onCd, gone, dirHarm>>

\* On a CD: destdir->files=rollback; free(node).
CreateFails(p) ==
  /\ Finishes(p, "disk") /\ onCd
  /\ files' = rollback[p] /\ FreesNode(mine[p])
  /\ inCrit' = Nobody
  /\ Harms("lost", files # <<mine[p]>> \o rollback[p])
  /\ UNCHANGED <<entries, onCd, gone>>

------------------------------------------------------------------------------
\* vfs_deletefile of fdelete, and of rmdir for each node from the first one on.
\* vfs_rmdir has deleted a directory below by the time this is called for it.
vfs_removenode(p) ==
  LET d == mine[p] IN
  /\ \/ Proceeds(p, "remove", "erase")
     \/ Proceeds(p, "walk", "erase") /\ d # NoDirNode
  /\ files' = IF Listed(d) THEN RemoveAt(files, At(files, d)) ELSE files
  /\ then' = [then EXCEPT ![p] = IF Listed(d) /\ Last(files) # d
                                 THEN files[At(files, d) + 1] ELSE NoDirNode]
  /\ IF ~Listed(d) THEN dirHarm' = {"freed"}
     ELSE IF d \in subdirs /\ doing[p] = "walk" THEN dirHarm' = {"redeleted"}
     ELSE MayHarm("lost", OthersAt(p, {"add", "remove", "walk"}) # {})
  /\ UNCHANGED <<nodeName, subdirs, entry, entries, onCd, inCrit, call, mine, rollback, gone>>

\* fs->deletefile marks the entry that f->misc points to, which frees its slot ...
FreesSlot(p) ==
  LET d == mine[p] IN
  /\ Proceeds(p, "erase", "wipe")
  /\ entries' = IF Ghost(d) THEN entries ELSE [entries EXCEPT ![entry[d]] = @ - 1]
  /\ entry' = [entry EXCEPT ![d] = NoDirNode]
  /\ Harms("entryless", Ghost(d))
  /\ UNCHANGED <<files, nodeName, subdirs, onCd, inCrit, call, mine, then, rollback, gone>>

\* ... waits for the disk and marks the slot again; then the node is freed.
ErasesEntry(p) ==
  /\ doing[p] = "wipe"
  /\ \/ call[p].op = "delete" /\ Finishes(p, "wipe")
     \/ /\ call[p].op = "rmdir" /\ Proceeds(p, "wipe", "walk")
        /\ mine' = [mine EXCEPT ![p] = then[p]] /\ then' = [then EXCEPT ![p] = NoDirNode]
        /\ UNCHANGED <<call, rollback>>
  /\ FreesNode(mine[p])
  /\ UNCHANGED <<files, entries, onCd, inCrit, gone, dirHarm>>

\* vfs_rmdir deletes the directory itself, whoever is still at work in it.
RemovesDirectory(p) ==
  /\ Finishes(p, "walk") /\ mine[p] = NoDirNode
  /\ gone' = TRUE
  /\ IF files # <<>> \/ \E q \in Walkers \ {p} : doing[q] \notin {"idle", "search"}
     THEN dirHarm' = {"pulled"}
     ELSE MayHarm("pulled", OthersAt(p, {"search"}) # {})
  /\ UNCHANGED <<nodeVars, entries, onCd, inCrit>>

\* rename stores the new name and calls fs->chattb, which a CD has not got.
rename(p) ==
  LET d == mine[p] IN
  /\ Proceeds(p, "rename", "chattb")
  /\ nodeName' = [nodeName EXCEPT ![d] = call[p].to]
  /\ dirHarm' = IF ~Listed(d) THEN {"freed"}
                ELSE IF Found(call[p].to) \notin {NoDirNode, d} THEN {"namesake"}
                ELSE IF onCd THEN {"nullcall"} ELSE {}
  /\ UNCHANGED <<files, subdirs, entry, entries, onCd, inCrit, call, mine, then, rollback, gone>>

RenamesEntry(p) ==
  LET d == mine[p] IN
  /\ Finishes(p, "chattb")
  /\ IF Ghost(d) THEN UNCHANGED <<entries, entry>>
     ELSE /\ entries' = [entries EXCEPT ![entry[d]] = @ - 1, ![nodeName[d]] = @ + 1]
          /\ entry' = [entry EXCEPT ![d] = nodeName[d]]
  /\ dirHarm' = IF ~Listed(d) THEN {"freed"}
                ELSE IF Ghost(d) THEN {"entryless"} ELSE {}
  /\ UNCHANGED <<files, nodeName, subdirs, onCd, inCrit, gone>>

\* Nothing more is modelled after a harm, or without the directory.
DirStops == (dirHarm # {} \/ gone) /\ UNCHANGED dirVars

DirNext ==
  \/ \E p \in Walkers :
       \/ DirCall(p) \/ MeetsUnread(p) \/ vfs_mountdirectory(p)
       \/ SearchEnds(p) \/ vfs_rmdir(p) \/ createfile(p) \/ vfs_createnode(p)
       \/ CreatesEntry(p) \/ CreateEnds(p) \/ CreateFails(p)
       \/ vfs_removenode(p) \/ FreesSlot(p) \/ ErasesEntry(p) \/ RemovesDirectory(p)
       \/ rename(p) \/ RenamesEntry(p)
  \/ DirStops

DirSpec == DirInit /\ [][DirNext]_dirVars

------------------------------------------------------------------------------
NodesNamed(n) == {d \in DirNodes : Allocated(d) /\ entry[d] = n}
InRename(d) == \E p \in Walkers : doing[p] = "chattb" /\ mine[p] = d
BeingMade(d) == \E p \in Walkers : doing[p] = "disk" /\ mine[p] = d

\* What the callers of vfs_searchname, which takes the first node of a name, and
\* of the FAT driver, which goes by the node's pointer to its entry, rely on: once
\* the directory was read the list has every entry of the disk and none twice, no
\* two nodes share a name, a node has the name of its entry unless a rename is on
\* the way, and a CD shows no file that it has not got but the one being made.
\* vfs_busy has a holder just while createfile works.
DirectoryIsSound ==
  dirHarm = {} =>
    /\ files # Unread /\ ~gone =>
         /\ IsInjective(files)
         /\ \A n \in FileNames : /\ Cardinality(Named(n)) <= 1
                                /\ entries[n] = Cardinality(NodesNamed(n))
         /\ \A d \in ToSet(files) :
              /\ Ghost(d) \/ entry[d] = nodeName[d] \/ InRename(d)
              /\ Ghost(d) /\ onCd => BeingMade(d)
    /\ \A p \in Walkers : inCrit = p <=> /\ doing[p] \in {"add", "disk", "made"}
                                        /\ call[p].op # "mkdir"
==============================================================================
