------------------------------ MODULE SyncLock ------------------------------
(***************************************************************************)
(* The re-entrant busy-waiting lock of process/sync.c, instruction by      *)
(* instruction.  The kernel runs on one processor and preempts a process   *)
(* at any instruction, so what matters is which loads and stores of busy   *)
(* and wait can be separated by the timer.  At -O0 wait++ and wait-- are a *)
(* load and a store, and the test that ends the spin loop is not one       *)
(* instruction with the store of busy.                                     *)
(*                                                                         *)
(* The last point lets a process store its pid over that of an owner.  The *)
(* auxiliary variable stolen records that it happened: the properties say  *)
(* that this window is the ONLY defect of the lock, which is what the      *)
(* modules that take the lock in one step rely on.                         *)
(***************************************************************************)
EXTENDS SyncVar, FiniteSets

CONSTANTS Procs,        \* the pids that use the lock
          MaxDepth      \* how deep a process nests its entries (bounds the model)

ASSUME LockAssumption ==
  /\ NoPid \notin Procs
  /\ MaxDepth \in Nat \ {0}

VARIABLES var,      \* the sync_sharedvar
          pc,       \* where each process is in sync_entercrit/sync_leavecrit
          reg,      \* the value of wait a process has loaded
          depth,    \* entries minus exits, per process (kept by the callers)
          stolen    \* auxiliary: a store of busy hit the pid of an owner

vars == <<var, pc, reg, depth, stolen>>

Init ==
  /\ var = FreeVar
  /\ pc = [p \in Procs |-> "run"]
  /\ reg = [p \in Procs |-> 0]
  /\ depth = [p \in Procs |-> 0]
  /\ stolen = FALSE

Goto(p, from, to) == pc[p] = from /\ pc' = [pc EXCEPT ![p] = to]

\* A call of sync_entercrit, from outside or from inside (a nested call).
Call(p) ==
  /\ depth[p] < MaxDepth
  /\ Goto(p, "run", "spin")
  /\ UNCHANGED <<var, reg, depth, stolen>>

\* The loop ends: busy was free, or this process's own.
Test(p) ==
  /\ Passes(var, p)
  /\ Goto(p, "spin", "own")
  /\ UNCHANGED <<var, reg, depth, stolen>>

\* var->busy = getprocessid(), whatever busy has become since the test.
Own(p) ==
  /\ Goto(p, "own", "load")
  /\ var' = [var EXCEPT !.busy = p]
  /\ stolen' = (stolen \/ ~Passes(var, p))
  /\ UNCHANGED <<reg, depth>>

\* var->wait++ as a load and a store; the store returns to the caller.
LoadForEnter(p) ==
  /\ Goto(p, "load", "store")
  /\ reg' = [reg EXCEPT ![p] = var.wait]
  /\ UNCHANGED <<var, depth, stolen>>

\* Mutant: wait = 1 instead of wait++.
StoreOneForEnter(p) ==
  /\ Goto(p, "store", "run")
  /\ var' = [var EXCEPT !.wait = 1]
  /\ depth' = [depth EXCEPT ![p] = @ + 1]
  /\ UNCHANGED <<reg, stolen>>

StoreForEnter(p) ==
  /\ Goto(p, "store", "run")
  /\ var' = [var EXCEPT !.wait = reg[p] + 1]
  /\ depth' = [depth EXCEPT ![p] = @ + 1]
  /\ UNCHANGED <<reg, stolen>>

\* sync_leavecrit: load and store of wait--, then the test that frees busy.
LoadForLeave(p) ==
  /\ depth[p] > 0
  /\ Goto(p, "run", "dec")
  /\ reg' = [reg EXCEPT ![p] = var.wait]
  /\ UNCHANGED <<var, depth, stolen>>

\* Mutant: the count is not taken down.
StoreUnchanged(p) ==
  /\ Goto(p, "dec", "iszero")
  /\ var' = [var EXCEPT !.wait = reg[p]]
  /\ UNCHANGED <<reg, depth, stolen>>

StoreForLeave(p) ==
  /\ Goto(p, "dec", "iszero")
  /\ var' = [var EXCEPT !.wait = reg[p] - 1]
  /\ UNCHANGED <<reg, depth, stolen>>

\* Mutant: every exit frees the lock, not only the outermost.
ReleaseAlways(p) ==
  /\ Goto(p, "iszero", "clear")
  /\ UNCHANGED <<var, reg, depth, stolen>>

Release(p) ==
  /\ pc[p] = "iszero"
  /\ pc' = [pc EXCEPT ![p] = IF var.wait = 0 THEN "clear" ELSE "run"]
  /\ depth' = IF var.wait = 0 THEN depth ELSE [depth EXCEPT ![p] = @ - 1]
  /\ UNCHANGED <<var, reg, stolen>>

\* Mutant: the last exit leaves busy set.
ClearNothing(p) ==
  /\ Goto(p, "clear", "run")
  /\ depth' = [depth EXCEPT ![p] = @ - 1]
  /\ UNCHANGED <<var, reg, stolen>>

Clear(p) ==
  /\ Goto(p, "clear", "run")
  /\ var' = [var EXCEPT !.busy = NoPid]
  /\ depth' = [depth EXCEPT ![p] = @ - 1]
  /\ UNCHANGED <<reg, stolen>>

Enter(p) == Call(p) \/ Test(p) \/ Own(p) \/ LoadForEnter(p) \/ StoreForEnter(p)
Leave(p) == LoadForLeave(p) \/ StoreForLeave(p) \/ Release(p) \/ Clear(p)

Next == \E p \in Procs : Enter(p) \/ Leave(p)

\* Every process is given the CPU again and again (the round-robin
\* scheduler), and the callers pair every entry with an exit.  The strong
\* fairness of Test says that the timer does not preempt the owners inside
\* the lock every single time a spinning process gets its slice.
Fairness ==
  \A p \in Procs :
    /\ SF_vars(Test(p))
    /\ WF_vars(Own(p) \/ LoadForEnter(p) \/ StoreForEnter(p))
    /\ WF_vars(Leave(p))
    /\ SF_vars(depth[p] = 1 /\ LoadForLeave(p))

Spec == Init /\ [][Next]_vars /\ Fairness

------------------------------------------------------------------------------
Inside(p) == depth[p] > 0

TypeOK ==
  /\ var \in SyncVars(Procs)
  /\ pc \in [Procs -> {"run", "spin", "own", "load", "store", "dec",
                       "iszero", "clear"}]
  /\ reg \in [Procs -> Int]
  /\ depth \in [Procs -> 0..MaxDepth]
  /\ stolen \in BOOLEAN

\* Between sync_entercrit and sync_leavecrit a process is alone: what every
\* caller of sync.c relies on (vfs_aux.c: "enter critical section, prevent
\* other VFS operations from taking plce until we leave").
MutualExclusion ==
  \A p, q \in Procs : Inside(p) /\ Inside(q) => p = q

\* The window between the test and the store of sync_entercrit is the only
\* way to lose exclusion: wait++ and wait-- may be preempted at will.
ExclusionUnlessStolen == ~stolen => MutualExclusion

\* A lock nobody is using is free, with its count back to zero: a count that
\* drifted would keep busy set for ever after the last exit.
QuiescentIsFree ==
  /\ ~stolen
  /\ \A p \in Procs : depth[p] = 0 /\ pc[p] \in {"run", "spin", "own"}
  => var = FreeVar

\* While no instruction of sync.c is under way in the owner, the count is
\* its nesting: the exit that clears busy is the outermost one.
CountIsNesting ==
  ~stolen =>
    \A p \in Procs : Inside(p) /\ pc[p] \in {"run", "spin", "own", "load", "store"}
                       => var.busy = p /\ var.wait = depth[p]

\* So the lock is taken just while somebody is in it, however deep: nothing that
\* preempts wait++ or wait-- frees it too early or leaves it taken.
CountIsSound == CountIsNesting /\ QuiescentIsFree

\* A process that spins is let in, as long as the owners leave.
SpinEnds ==
  [](~stolen) => \A p \in Procs : pc[p] = "spin" ~> Inside(p)
==============================================================================
