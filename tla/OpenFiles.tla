------------------------------ MODULE OpenFiles ------------------------------
(***************************************************************************)
(* The open files of the VFS (vfs/vfs_core.c): what openfilex, createfile, *)
(* fclose, fdelete and closeallfiles do, in several processes at once, to  *)
(* the list of handles, the counts and locks of the files and the lock     *)
(* vfs_busy.  What a handle's buffer does is FileBuffer's subject.         *)
(*                                                                         *)
(* Everybody is preempted anywhere: kernel threads because they run with   *)
(* interrupts on, system calls because the file system turns interrupts on *)
(* (fat12.c, readBPB).  Much of the code is outside vfs_busy; each         *)
(* interleaving it does not survive is recorded in faults at the step that *)
(* causes it, and the model stops there: what follows is the use of freed  *)
(* memory, a list with lost links or a lock that nobody gives back.  Where *)
(* two updates of the same words may, but need not, interleave the fault   *)
(* is a choice.                                                            *)
(***************************************************************************)
EXTENDS SyncVar, FiniteSets

CONSTANTS Pids, Users,      \* all processes, and the user processes
          Names, Invalid,   \* names of files, and those vfs_isvalidname refuses
          Nodes, NoNode,    \* what malloc gives out for a vfs_node
          Handles, NoFcb    \* ... and for a file_PCB

\* FILE_READWRITE is treated as FILE_APPEND.
OpenModes == {"read", "write", "append"}
FilePCBs == [processid : Pids, mode : OpenModes, ptr : Nodes, locked : BOOLEAN]

ASSUME OpenAssumption ==
  /\ NoPid \notin Pids /\ Users \subseteq Pids /\ IsFiniteSet(Pids)
  /\ NoNode \notin Nodes
  /\ NoFcb \notin Handles \cup FilePCBs /\ IsFiniteSet(Handles)

VARIABLES
  entry,            \* the vfs_node vfs_searchname finds for a name
  opencount, locked,    \* fields of the nodes; the first is opened
  fcb,              \* the handles on the list file_globalopen
  vfs_busy,
  at, job,          \* where each process is, and in which call
  faults            \* auxiliary: what went wrong

countVars == <<opencount, locked>>
openVars == <<entry, countVars, fcb, vfs_busy, at, job, faults>>

NoJob == [name |-> NoNode, mode |-> "read", node |-> NoNode, handle |-> NoFcb, why |-> "open"]

OpenInit ==
  /\ entry = [n \in Names |-> NoNode]
  /\ opencount = [d \in Nodes |-> 0] /\ locked = [d \in Nodes |-> FALSE]
  /\ fcb = [h \in Handles |-> NoFcb]
  /\ vfs_busy = FreeVar
  /\ at = [p \in Pids |-> "run"] /\ job = [p \in Pids |-> NoJob]
  /\ faults = {}

------------------------------------------------------------------------------
Goes(p, from, to) == faults = {} /\ at[p] = from /\ at' = [at EXCEPT ![p] = to]
Returns(p, from) == Goes(p, from, "run") /\ job' = [job EXCEPT ![p] = NoJob]
Fault(what, condition) == IF condition THEN {what} ELSE {}
MayFault(what, condition) == {{}} \cup (IF condition THEN {{what}} ELSE {})

Node(p) == job[p].node
Others(p) == Pids \ {p}
OpenHandles == {h \in Handles : fcb[h] # NoFcb}
HandlesOf(p) == {h \in OpenHandles : fcb[h].processid = p}
HandlesOn(d) == {h \in OpenHandles : fcb[h].ptr = d}
\* Without those that fclose is about to unlink.
Held(d) == HandlesOn(d) \ {job[p].handle : p \in {q \in Pids : at[q] = "unlink"}}

FreeNodes == {d \in Nodes : /\ \A n \in Names : entry[n] # d
                            /\ \A q \in Pids : at[q] = "fsdel" => Node(q) # d}

\* From the test of openfilex until the file is counted and locked.
InWindow(p, d) == at[p] \in {"count", "insert", "inside"} /\ Node(p) = d

OpenEnters(p) == Passes(vfs_busy, p) /\ vfs_busy' = Entered(vfs_busy, p)
OpenLeaves == vfs_busy' = Left(vfs_busy)

\* Bound of the model: there is memory for one more handle.
SpareHandle ==
  Cardinality(OpenHandles)
  + Cardinality({q \in Pids : at[q] \in {"create", "fs", "rewrite", "check", "count", "insert", "inside"}})
    < Cardinality(Handles)

\* openfilex looks for the name.  It creates a missing file, and truncates one
\* to be written that is not in use.
OpenSearch(p, n, mode) ==
  LET d == entry[n] IN
  /\ d = NoNode => mode # "read"
  /\ SpareHandle
  /\ job' = [job EXCEPT ![p] = [NoJob EXCEPT !.name = n, !.mode = mode, !.node = d]]
  /\ Goes(p, "run", IF d = NoNode THEN "create"
                    ELSE IF mode = "write" /\ ~locked[d] /\ opencount[d] = 0
                         THEN "rewrite" ELSE "check")
  /\ UNCHANGED <<entry, countVars, fcb, vfs_busy, faults>>

\* fs->rewritefile, which waits for the disk; or there is none and the call
\* fails.  Meanwhile another process may have opened the file.
OpenRewrites(p) ==
  /\ \/ Goes(p, "rewrite", "check") /\ UNCHANGED job
     \/ Returns(p, "rewrite")
  /\ faults' = Fault("truncated",
                     \/ opencount[Node(p)] > 0
                     \/ \E q \in Others(p) : InWindow(q, Node(p)))
  /\ UNCHANGED <<entry, countVars, fcb, vfs_busy>>

\* createfile returns from inside vfs_busy if the file exists by now or its
\* name is not valid ...
CreateLeaks(p) ==
  LET n == job[p].name IN
  /\ Goes(p, "create", "check")
  /\ entry[n] # NoNode \/ n \in Invalid
  /\ OpenEnters(p)
  /\ job' = [job EXCEPT ![p].node = entry[n]]
  /\ faults' = {"leak"}
  /\ UNCHANGED <<entry, countVars, fcb>>

\* ... links a new node into the directory and calls fs->createfile ...
createfile(p, d) ==
  LET n == job[p].name IN
  /\ Goes(p, "create", "fs")
  /\ entry[n] = NoNode /\ n \notin Invalid /\ d \in FreeNodes
  /\ OpenEnters(p)
  /\ entry' = [entry EXCEPT ![n] = d]
  /\ opencount' = [opencount EXCEPT ![d] = 0] /\ locked' = [locked EXCEPT ![d] = FALSE]
  /\ job' = [job EXCEPT ![p].node = d]
  /\ UNCHANGED <<fcb, faults>>

\* Mutant: the lock is kept.
CreatedKeeping(p) ==
  /\ Goes(p, "fs", "check")
  /\ UNCHANGED <<entry, countVars, fcb, job, vfs_busy, faults>>

Created(p) ==
  /\ Goes(p, "fs", "check") /\ OpenLeaves
  /\ UNCHANGED <<entry, countVars, fcb, job, faults>>

\* ... which fails: the node is freed, and openfilex goes on with -1.
CreateFails(p) ==
  /\ Goes(p, "fs", "check") /\ OpenLeaves
  /\ entry' = [entry EXCEPT ![job[p].name] = NoNode]
  /\ job' = [job EXCEPT ![p].node = NoNode]
  /\ faults' = {"wild"}
  /\ UNCHANGED <<countVars, fcb>>

------------------------------------------------------------------------------
\* Mutant: an open for appending is not refused while others have the file.
RefusedWrite(p) == locked[Node(p)] \/ (job[p].mode = "write" /\ opencount[Node(p)] > 0)

Refused(p) == locked[Node(p)] \/ (job[p].mode # "read" /\ opencount[Node(p)] > 0)

OpenRefused(p) ==
  /\ Returns(p, "check") /\ Refused(p)
  /\ UNCHANGED <<entry, countVars, fcb, vfs_busy, faults>>

\* The test succeeds; it says nothing of those who passed it before and have
\* not counted themselves or locked the file yet.
Check(p) ==
  LET d == Node(p) IN
  /\ Goes(p, "check", "count") /\ ~Refused(p)
  /\ faults' = Fault("twice", \E q \in Others(p) :
                                 /\ InWindow(q, d)
                                 /\ "write" = job[q].mode \/ "read" # job[p].mode)
  /\ UNCHANGED <<entry, countVars, fcb, vfs_busy, job>>

\* ptr->opened++ and ptr->opened--, a load and a store each.
Recounts(p) ==
  MayFault("miscount", \E q \in Others(p) : at[q] \in {"count", "uncount"} /\ Node(q) = Node(p))

Count(p) ==
  /\ Goes(p, "count", "insert")
  /\ opencount' = [opencount EXCEPT ![Node(p)] = @ + 1]
  /\ faults' \in Recounts(p)
  /\ UNCHANGED <<entry, locked, fcb, vfs_busy, job>>

OpenLocks(p) ==
  /\ Goes(p, "insert", "inside") /\ OpenEnters(p)
  /\ UNCHANGED <<entry, countVars, fcb, job, faults>>

\* The handle becomes the head of the list; fclose unlinks outside vfs_busy.
Relinks(p) ==
  MayFault("torn", \E q \in Others(p) : at[q] \in {"inside", "unlink"})

Insert(p, h) ==
  LET d == Node(p)  w == job[p].mode = "write" IN
  /\ fcb[h] = NoFcb
  /\ Returns(p, "inside") /\ OpenLeaves
  /\ fcb' = [fcb EXCEPT ![h] = [processid |-> p, mode |-> job[p].mode, ptr |-> d, locked |-> w]]
  /\ locked' = [locked EXCEPT ![d] = @ \/ w]
  /\ faults' \in Relinks(p)
  /\ UNCHANGED <<entry, opencount>>

------------------------------------------------------------------------------
\* fclose and fdelete, after file_ok: from here on the handle is flushed.
CloseBegins(p, h, why) ==
  /\ h \in HandlesOf(p)
  /\ Goes(p, "run", "uncount")
  /\ Passes(vfs_busy, p)
  /\ job' = [job EXCEPT ![p] = [NoJob EXCEPT !.handle = h, !.node = fcb[h].ptr, !.why = why]]
  /\ UNCHANGED <<entry, countVars, fcb, vfs_busy, faults>>

\* exit: closeallfiles looks for one handle of the caller and closes it, all of
\* it inside vfs_busy, which file_ok enters again.  Then the task switcher is
\* asked to kill the caller.
exit(p, h) ==
  /\ h \in HandlesOf(p)
  /\ Goes(p, "run", "uncount")
  /\ OpenEnters(p)
  /\ job' = [job EXCEPT ![p] = [NoJob EXCEPT !.handle = h, !.node = fcb[h].ptr, !.why = "exit"]]
  /\ UNCHANGED <<entry, countVars, fcb, faults>>

\* Mutant: the file stays locked.
UnlockNever(h) == locked

\* fhandle->locked && fhandle->ptr->locked
Unlock(h) == [locked EXCEPT ![fcb[h].ptr] = @ /\ ~fcb[h].locked]

\* The file's buffer is on the disk: the count goes down, the lock is given back.
CloseCounts(p) ==
  LET h == job[p].handle IN
  /\ Goes(p, "uncount", "unlink")
  /\ opencount' = [opencount EXCEPT ![Node(p)] = @ - 1]
  /\ locked' = Unlock(h)
  /\ faults' \in Recounts(p)
  /\ UNCHANGED <<entry, fcb, vfs_busy, job>>

\* The handle leaves the list and is freed.
Unlink(p) ==
  /\ \/ job[p].why = "close" /\ Returns(p, "unlink") /\ UNCHANGED vfs_busy
     \/ /\ job[p].why = "exit" /\ Goes(p, "unlink", "dying") /\ OpenLeaves
        /\ job' = [job EXCEPT ![p] = NoJob]
     \/ job[p].why = "delete" /\ Goes(p, "unlink", "remove") /\ UNCHANGED <<job, vfs_busy>>
  /\ fcb' = [fcb EXCEPT ![job[p].handle] = NoFcb]
  /\ faults' \in Relinks(p)
  /\ UNCHANGED <<entry, countVars>>

Deletable(d) == ~locked[d]

\* vfs_deletefile: the node leaves the directory, if it is still there, and the
\* file system deletes the file.  Who has it open, other than for writing, or
\* is in a call that will look at the node, is left with one that is freed.
StillUsed(p, d) ==
  \/ \E q \in Others(p) : Node(q) = d /\ at[q] # "unlink"
  \/ \E h \in Held(d) : fcb[h].mode # "write"

DeleteRemoves(p) ==
  LET d == Node(p) IN
  /\ Goes(p, "remove", "fsdel")
  /\ Deletable(d) /\ \E n \in Names : entry[n] = d
  /\ entry' = [n \in Names |-> IF entry[n] = d THEN NoNode ELSE entry[n]]
  /\ faults' = Fault("deleted", StillUsed(p, d))
  /\ UNCHANGED <<countVars, fcb, vfs_busy, job>>

DeleteRefused(p) ==
  LET d == Node(p) IN
  /\ Returns(p, "remove")
  /\ ~(Deletable(d) /\ \E n \in Names : entry[n] = d)
  /\ UNCHANGED <<entry, countVars, fcb, vfs_busy, faults>>

\* free(ptr)
Deleted(p) ==
  /\ Returns(p, "fsdel")
  /\ UNCHANGED <<entry, countVars, fcb, vfs_busy, faults>>

------------------------------------------------------------------------------
\* closeallfiles, again and again; not for a kernel thread.
HandlesClosed(v) == IF v \in Users THEN HandlesOf(v) ELSE {}

\* kill_process, in the task switcher and so in the name of whoever was running:
\* it closes files by calls that need vfs_busy and write what is unwritten, and
\* hangs if another process is inside.

Kill(c, v) ==
  LET gone == HandlesClosed(v) IN
  /\ at[c] # "dead" /\ at[v] # "dead"
  /\ faults = {}
  /\ at' = [at EXCEPT ![v] = "dead"] /\ job' = [job EXCEPT ![v] = NoJob]
  /\ fcb' = [h \in Handles |-> IF h \in gone THEN NoFcb ELSE fcb[h]]
  /\ opencount' = [d \in Nodes |-> opencount[d] - Cardinality(HandlesOn(d) \cap gone)]
  /\ locked' = [d \in Nodes |-> locked[d] /\ ~\E h \in gone : fcb[h].ptr = d /\ fcb[h].locked]
  /\ faults' \in
       IF v \in Users /\ vfs_busy.busy \notin {NoPid, c} THEN {{"hang"}}
       ELSE IF at[v] \in {"insert", "inside", "unlink", "fs", "remove", "fsdel"}
               \/ vfs_busy.busy = v THEN {{"halfway"}}
       ELSE IF v \notin Users /\ HandlesOf(v) # {} THEN {{"leftopen"}}
       ELSE MayFault("hang", \E h \in gone : fcb[h].mode # "read")
  /\ UNCHANGED <<entry, vfs_busy>>

OpenStops == (faults # {} \/ \A p \in Pids : at[p] = "dead") /\ UNCHANGED openVars

OpenStep(p) ==
  \/ \E n \in Names, mode \in OpenModes : OpenSearch(p, n, mode)
  \/ OpenRewrites(p)
  \/ CreateLeaks(p) \/ (\E d \in Nodes : createfile(p, d)) \/ Created(p) \/ CreateFails(p)
  \/ OpenRefused(p) \/ Check(p) \/ Count(p) \/ OpenLocks(p) \/ (\E h \in Handles : Insert(p, h))
  \/ \E h \in Handles, why \in {"close", "delete"} : CloseBegins(p, h, why)
  \/ \E h \in Handles : exit(p, h)
  \/ CloseCounts(p) \/ Unlink(p) \/ DeleteRemoves(p) \/ DeleteRefused(p) \/ Deleted(p)

OpenNext ==
  \/ \E p \in Pids : OpenStep(p)
  \/ \E c, v \in Pids : Kill(c, v)
  \/ OpenStops

\* A process inside a call goes on: the round robin of the task switcher.
OpenGoesOn(p) == at[p] # "run" /\ OpenStep(p)
OpenFairness == \A p \in Pids : WF_openVars(OpenGoesOn(p))

OpenSpec == OpenInit /\ [][OpenNext]_openVars /\ OpenFairness

------------------------------------------------------------------------------
\* Everything has its type, and only a handle on the list is closed.
OpenTypeOK ==
  /\ entry \in [Names -> Nodes \cup {NoNode}]
  /\ opencount \in [Nodes -> Nat] /\ locked \in [Nodes -> BOOLEAN]
  /\ fcb \in [Handles -> {NoFcb} \cup FilePCBs]
  /\ vfs_busy \in SyncVars(Pids)
  /\ at \in [Pids -> {"run", "create", "fs", "rewrite", "check", "count", "insert", "inside",
                      "uncount", "unlink", "remove", "fsdel", "dying", "dead"}]
  /\ \A p \in Pids : at[p] \in {"uncount", "unlink"} => job[p].handle \in HandlesOf(p)

\* A file that is open for writing is open once, and of two handles on a file
\* one at least is for reading.
OneWriter ==
  \A d \in Nodes : \A g, h \in Held(d) :
    g # h => "write" \notin {fcb[g].mode, fcb[h].mode} /\ "read" \in {fcb[g].mode, fcb[h].mode}

\* opened counts the handles on the file and those about to be inserted.
OpenedIsCount ==
  \A d \in Nodes :
    opencount[d] = Cardinality(Held(d))
                   + Cardinality({p \in Pids : at[p] \in {"insert", "inside"} /\ Node(p) = d})

\* A file is locked exactly while a handle that is open for writing keeps it.
LockedByHandle == \A d \in Nodes : locked[d] <=> \E h \in Held(d) : fcb[h].locked

\* vfs_busy is held by who is inside, once.
BusyIsInside ==
  LET inside == {p \in Pids : \/ at[p] \in {"fs", "inside"}
                              \/ at[p] \in {"uncount", "unlink"} /\ job[p].why = "exit"}
  IN  /\ Cardinality(inside) = vfs_busy.wait /\ vfs_busy.wait \in 0 .. 1
      /\ \A p \in Pids : p \in inside <=> vfs_busy.busy = p

\* A killed process leaves no handle behind, and a file locked for nobody
\* neither.
DeadOwnNothing == \A p \in Pids : at[p] = "dead" => HandlesOf(p) = {}

\* No file is deleted under its writer, whenever the writer came: fdelete closes
\* its own handle first, and another process may have opened the file before the
\* directory entry goes (vfs_deletefile: "file is open, cannot delete").
WriterKeepsFile ==
  \A d \in Nodes : \A h \in Held(d) : fcb[h].mode = "write" => \E n \in Names : entry[n] = d

\* As long as no interleaving went wrong the list of open files, the counts and
\* locks of the files, the directory and vfs_busy say the same, through every order
\* of opening, closing, deleting, exiting and being killed ("supports file locking
\* if opened for writing,append", openfilex).
OpenFilesAgree ==
  faults = {} => /\ OpenTypeOK /\ OneWriter /\ OpenedIsCount /\ LockedByHandle
                 /\ WriterKeepsFile /\ BusyIsInside /\ DeadOwnNothing

\* vfs_busy is given back, whatever its owner does inside: createfile waits for
\* the disk and closeallfiles closes, and so flushes, a file (vfs_core.c).
BusyIsGivenBack == vfs_busy.busy # NoPid ~> vfs_busy.busy = NoPid \/ faults # {}
==============================================================================
