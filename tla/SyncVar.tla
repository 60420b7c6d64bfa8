------------------------------- MODULE SyncVar -------------------------------
(***************************************************************************)
(* The shared variable of process/sync.h and what the three statements of  *)
(* process/sync.c do to it.  A sync_sharedvar holds the pid of the process *)
(* that is inside (busy, 0 when nobody is) and how many times it entered   *)
(* without leaving (wait).  Modules that use a lock apply these operators. *)
(***************************************************************************)
EXTENDS Integers

CONSTANT NoPid      \* the value 0 of busy: the lock is free

FreeVar == [busy |-> NoPid, wait |-> 0]

SyncVars(pids) == [busy : pids \cup {NoPid}, wait : Int]

\* while (var->busy && var->busy != getprocessid()) ends for process p.
Passes(var, p) == var.busy \in {NoPid, p}

\* var->busy = getprocessid(); var->wait++;
Entered(var, p) == [busy |-> p, wait |-> var.wait + 1]

\* var->wait--; if (var->wait == 0) var->busy = 0;
Left(var) == [busy |-> IF var.wait = 1 THEN NoPid ELSE var.busy,
              wait |-> var.wait - 1]
==============================================================================
