------------------------------- MODULE MCTasks -------------------------------
EXTENDS Tasks, TLC
CONSTANTS s1, u1, t1
Small == {NoPid, s1, u1, t1}
KindOf(procs) == [p \in procs |-> CASE p = u1 -> "user"
                                    [] p = t1         -> "thread"
                                    [] OTHER          -> "sys"]
KindSmall == KindOf(Small)
Three == {NoPid, s1, u1}
KindThree == KindOf(Three)
==============================================================================
