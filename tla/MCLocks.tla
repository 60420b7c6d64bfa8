------------------------------- MODULE MCLocks -------------------------------
(* A lock, the open files that the lock vfs_busy protects, and the flags    *)
(* that do for a lock of the environment and of the extension manager: each *)
(* behaviour is one of the four, and the others stay as they began.  Each   *)
(* part's fairness speaks of its own behaviours only.                       *)
EXTENDS MCSyncLock, OpenFiles, Environment, Extensions
CONSTANTS q1, q2, good, bad, d1, d2, h1, h2
Both == {q1, q2}
One == {q1}
TwoNames == {good, bad}
BadName == {bad}
TwoNodes == {d1, d2}
TwoHandles == {h1, h2}

VARIABLE part

LocksInit ==
  /\ Init /\ OpenInit /\ EnvInit /\ ExtensionsInit
  /\ part \in {"lock", "files", "environment", "extensions"}

LocksNext ==
  /\ UNCHANGED part
  /\ \/ part = "lock" /\ Next /\ UNCHANGED <<openVars, envVars, extensionVars>>
     \/ part = "environment" /\ EnvNext /\ UNCHANGED <<vars, openVars, extensionVars>>
     \/ part = "files" /\ OpenNext /\ UNCHANGED <<vars, envVars, extensionVars>>
     \/ part = "extensions" /\ ExtensionsNext /\ UNCHANGED <<vars, openVars, envVars>>

LocksSpec ==
  /\ LocksInit /\ [][LocksNext]_<<vars, openVars, envVars, extensionVars, part>>
  /\ \/ part = "lock" /\ Fairness
     \/ part = "environment"
     \/ part = "files" /\ OpenFairness
     \/ part = "extensions" /\ ExtensionsFairness
==============================================================================
