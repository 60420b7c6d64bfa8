----------------------------- MODULE MCSyncLock -----------------------------
(* Three processes, entries nested twice.                                  *)
EXTENDS SyncLock
CONSTANTS p1, p2, p3
MCProcs == {p1, p2, p3}
MCTwo == {p1, p2}

\* Every property of the passing run speaks of behaviours without a theft
\* (a theft lasts: stolen is never reset), so TLC need not go on after one.
NoTheftYet == ~stolen
==============================================================================
