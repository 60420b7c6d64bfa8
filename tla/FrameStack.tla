------------------------------ MODULE FrameStack ------------------------------
(***************************************************************************)
(* Page frames and the page directories of processes (memory/dexmem.c, and *)
(* its callers in the program loaders, the page fault handler, the process *)
(* manager and the kernel's heap).  Free frames lie on a stack; a process  *)
(* holds its directory, its page tables and the pages it was given, and    *)
(* the loader also enters the pages it commits in the kernel's directory,  *)
(* whose tables for user space it frees in the end.                        *)
(*                                                                         *)
(* What runs without interrupts is one action: commit, the page fault      *)
(* handler, the end of a process (in the task switcher), createprocess.    *)
(* The loader is a kernel thread that can be preempted, also inside        *)
(* mempop, and between turning the window on a page directory              *)
(* (getvirtaddress, one for the whole kernel) and writing through it.      *)
(* One page each stands for those a loader commits and those it reserves,  *)
(* and one table for those of a process's user space.  What must not       *)
(* happen is recorded in harm at the step that causes it, and the model    *)
(* stops there.                                                            *)
(***************************************************************************)
EXTENDS Integers, Sequences, SequencesExt, FiniteSets

CONSTANTS Programs,             \* processes to be loaded from executables
          Detected, NoFrame,    \* the memory found at startup; an entry that is not present
          KernelPages,          \* pages the kernel's heap grows by, at most
          MaxLoads              \* bound on the loads of a behaviour

Frames == ToSet(Detected)

ASSUME FrameAssumption ==
  /\ Detected \in Seq(Frames) /\ IsInjective(Detected)
  /\ NoFrame \notin Frames \cup {"demand"} /\ "demand" \notin Frames /\ "kernel" \notin Programs
  /\ KernelPages \in Nat /\ MaxLoads \in Nat

Tables == {"user", "aux"}       \* of user space; of the kernel's windows
Committed == "image"
Reserved == "heap"
Pages == {Committed, Reserved}

VARIABLES
  stackbase,        \* the free frames, the next one to be given last
  space,            \* of each program: "none", "loads", "lives", or "freed" with a thread left
  pagedir,          \* its page directory
  maps,             \* what that has for its tables and pages
  kernelTable,      \* the kernel directory's table for user space
  kernelHeap,
  loader, loading, top, \* the loader's step, its program, what mempop has read
  window,           \* the frame getvirtaddress has turned the window to
  thread,           \* whether a thread of the program runs
  loads, harm       \* auxiliary; loads counts them

spaceVars == <<space, pagedir, maps>>
loaderVars == <<loader, loading, top>>
frameVars == <<stackbase, spaceVars, kernelTable, kernelHeap, loaderVars, window, thread, loads, harm>>

Unmapped == [x \in Tables \cup Pages |-> NoFrame]

FrameInit ==
  /\ stackbase = Detected
  /\ space = [p \in Programs |-> "none"] /\ pagedir = [p \in Programs |-> NoFrame]
  /\ maps = [p \in Programs |-> Unmapped]
  /\ kernelTable = NoFrame /\ kernelHeap = {}
  /\ loader = "idle" /\ loading = NoFrame /\ top = NoFrame
  /\ window = NoFrame /\ thread = [p \in Programs |-> FALSE] /\ loads = 0 /\ harm = {}

------------------------------------------------------------------------------
\* The frames n mempops give, the first one first, and the stack they leave.
Popped(n) == [i \in 1 .. n |-> stackbase[Len(stackbase) + 1 - i]]
Under(n) == SubSeq(stackbase, 1, Len(stackbase) - n)

\* An empty stack gives 0, which obtainpage returns, too: the caller maps frame 0.
Pops(n) ==
  IF n <= Len(stackbase) THEN stackbase' = Under(n) /\ UNCHANGED harm
  ELSE stackbase' = <<>> /\ harm' = {"empty"}

Given(i, n) == IF n <= Len(stackbase) THEN Popped(n)[i] ELSE NoFrame

Calm == harm = {}

Loads(from, to) == Calm /\ loader = from /\ loader' = to

\* The loader's mempop, up to the frame it will return.
LoadBegins(p) ==
  /\ Loads("idle", "pop") /\ space[p] = "none"
  /\ loads < MaxLoads /\ loads' = loads + 1
  /\ space' = [space EXCEPT ![p] = "loads"] /\ loading' = p
  /\ top' = Given(1, 1)
  /\ harm' = IF stackbase = <<>> THEN {"empty"} ELSE {}
  /\ UNCHANGED <<stackbase, pagedir, maps, kernelTable, kernelHeap, window, thread>>

\* stackbase[0]--: of whatever the stack is by now.
LoadPops ==
  /\ Loads("pop", "turn")
  /\ pagedir' = [pagedir EXCEPT ![loading] = top] /\ top' = NoFrame
  /\ stackbase' = IF stackbase = <<>> THEN <<>> ELSE Under(1)
  /\ harm' = IF stackbase = <<>> \/ Last(stackbase) # top THEN {"torn"} ELSE {}
  /\ UNCHANGED <<space, maps, kernelTable, kernelHeap, loading, window, thread, loads>>

\* Before the directory is cleared, and before a page is reserved in it.
TurnsWindow ==
  /\ \/ Loads("turn", "clear") \/ Loads("again", "reserve")
  /\ window' = pagedir[loading]
  /\ UNCHANGED <<stackbase, spaceVars, kernelTable, kernelHeap, loading, top, thread, harm, loads>>

ThroughWindow == harm' = IF window = pagedir[loading] THEN {} ELSE {"wrong"}

LoadClears ==
  /\ Loads("clear", "commit") /\ ThroughWindow
  /\ UNCHANGED <<stackbase, spaceVars, kernelTable, kernelHeap, loading, top, window, thread, loads>>

\* dex32_commit: the page, the table for it, and one in the kernel's directory,
\* which the window is on in the end.
LoadCommits ==
  /\ Loads("commit", "again") /\ Pops(3)
  /\ maps' = [maps EXCEPT ![loading] = [@ EXCEPT ![Committed] = Given(1, 3), !["user"] = Given(2, 3)]]
  /\ kernelTable' = Given(3, 3) /\ window' = NoFrame
  /\ UNCHANGED <<space, pagedir, kernelHeap, loading, top, thread, loads>>

LoadReserves ==
  /\ Loads("reserve", "create") /\ ThroughWindow
  /\ maps' = [maps EXCEPT ![loading][Reserved] = "demand"]
  /\ window' = NoFrame
  /\ UNCHANGED <<stackbase, space, pagedir, kernelTable, kernelHeap, loading, top, thread, loads>>

\* Mutant: the kernel's tables for user space are left.
FreesKernelTableNever(stack) == stack

\* dex32_freeuserpagetable(pagedir1).
FreesKernelTable(stack) == Append(stack, kernelTable)

\* createprocess: the table for the process's windows.
LoadCreates ==
  /\ Loads("create", "idle")
  /\ maps' = [maps EXCEPT ![loading]["aux"] = Given(1, 1)]
  /\ stackbase' = FreesKernelTable(IF stackbase = <<>> THEN <<>> ELSE Under(1))
  /\ harm' = IF stackbase = <<>> THEN {"empty"} ELSE {}
  /\ kernelTable' = NoFrame /\ window' = NoFrame
  /\ space' = [space EXCEPT ![loading] = "lives"] /\ loading' = NoFrame
  /\ UNCHANGED <<pagedir, kernelHeap, top, thread, loads>>

------------------------------------------------------------------------------
\* pagefaulthandler, on a page that was reserved, which it clears.
PageFault(p) ==
  /\ Calm /\ space[p] = "lives" /\ maps[p][Reserved] = "demand"
  /\ Pops(1)
  /\ maps' = [maps EXCEPT ![p][Reserved] = Given(1, 1)] /\ window' = Given(1, 1)
  /\ UNCHANGED <<space, pagedir, kernelTable, kernelHeap, loaderVars, thread, loads>>

\* sbrk of the kernel.
sbrk ==
  /\ Calm /\ Cardinality(kernelHeap) < KernelPages
  /\ Pops(1)
  /\ kernelHeap' = kernelHeap \cup {Given(1, 1)}
  /\ UNCHANGED <<spaceVars, kernelTable, loaderVars, window, thread, loads>>

StartsThread(p) ==
  /\ Calm /\ space[p] = "lives" /\ ~thread[p]
  /\ thread' = [thread EXCEPT ![p] = TRUE]
  /\ UNCHANGED <<stackbase, spaceVars, kernelTable, kernelHeap, loaderVars, window, harm, loads>>

EndsThread(p) ==
  /\ Calm /\ thread[p]
  /\ thread' = [thread EXCEPT ![p] = FALSE]
  /\ space' = [space EXCEPT ![p] = IF @ = "freed" THEN "none" ELSE @]
  /\ pagedir' = [pagedir EXCEPT ![p] = IF space[p] = "freed" THEN NoFrame ELSE @]
  /\ UNCHANGED <<stackbase, maps, kernelTable, kernelHeap, loaderVars, window, harm, loads>>

Pushed(stack, e) == IF e \in Frames THEN Append(stack, e) ELSE stack

\* freelinearloc of every page, present ones only; then the tables; then the directory.
FreedPages(p) == Pushed(Pushed(stackbase, maps[p][Committed]), maps[p][Reserved])
FreedFrames(p) == Append(Pushed(Pushed(FreedPages(p), maps[p]["user"]), maps[p]["aux"]), pagedir[p])

\* kill_process, whose kill_children finds no child.
FreesProcess(p) ==
  /\ Calm /\ space[p] = "lives"
  /\ stackbase' = FreedFrames(p)
  /\ space' = [space EXCEPT ![p] = IF thread[p] THEN "freed" ELSE "none"]
  /\ pagedir' = [pagedir EXCEPT ![p] = IF thread[p] THEN @ ELSE NoFrame]
  /\ maps' = [maps EXCEPT ![p] = Unmapped]
  /\ window' = pagedir[p]
  /\ UNCHANGED <<kernelTable, kernelHeap, loaderVars, thread, harm, loads>>

\* A thread of a process that was killed gets the CPU, and with it the directory.
ThreadRuns(p) ==
  /\ Calm /\ space[p] = "freed" /\ harm' = {"dangling"}
  /\ UNCHANGED <<stackbase, spaceVars, kernelTable, kernelHeap, loaderVars, window, thread, loads>>

\* Nothing more is modelled after a harm, or when all loads are over and done.
FramesStop ==
  /\ Calm => loads = MaxLoads /\ \A p \in Programs : space[p] = "none"
  /\ UNCHANGED frameVars

FrameNext ==
  \/ LoadPops \/ TurnsWindow \/ LoadClears \/ LoadCommits \/ LoadReserves \/ LoadCreates
  \/ \E p \in Programs :
       \/ LoadBegins(p) \/ PageFault(p) \/ StartsThread(p)
       \/ EndsThread(p) \/ FreesProcess(p) \/ ThreadRuns(p)
  \/ sbrk \/ FramesStop

FrameSpec == FrameInit /\ [][FrameNext]_frameVars

------------------------------------------------------------------------------
FrameTypeOK ==
  /\ stackbase \in Seq(Frames)
  /\ space \in [Programs -> {"none", "loads", "lives", "freed"}]
  /\ pagedir \in [Programs -> Frames \cup {NoFrame}]
  /\ maps \in [Programs -> [Tables \cup Pages -> Frames \cup {NoFrame, "demand"}]]
  /\ kernelTable \in Frames \cup {NoFrame} /\ kernelHeap \subseteq Frames
  /\ loader \in {"idle", "pop", "turn", "clear", "commit", "again", "reserve", "create"}
  /\ top \in Frames \cup {NoFrame} /\ window \in Frames \cup {NoFrame}

\* Everything that can hold a frame, and what it holds.
Holders == (Programs \X ({"dir"} \cup Tables \cup Pages)) \cup {<<"kernel", "table">>}
Held(h) ==
  IF h[1] = "kernel" THEN kernelTable
  ELSE IF h[2] # "dir" THEN maps[h[1]][h[2]]
  ELSE IF space[h[1]] = "freed" THEN NoFrame ELSE pagedir[h[1]]
Holding == {h \in Holders : Held(h) \in Frames}

\* Every frame is on the stack or in use, in one place only, and none is lost
\* (dexmem.c): places and frames are equally many, and every frame has a place.
\* So it is until memory runs out, the loader is preempted inside mempop or with
\* its window turned and somebody else pops or turns it, or a thread runs in a
\* directory that was freed.
FramesAreAccountedFor ==
  Calm =>
    /\ FrameTypeOK
    /\ Len(stackbase) + Cardinality(Holding) + Cardinality(kernelHeap) = Len(Detected)
    /\ ToSet(stackbase) \cup {Held(h) : h \in Holding} \cup kernelHeap = Frames
==============================================================================
