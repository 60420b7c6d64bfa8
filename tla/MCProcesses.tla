----------------------------- MODULE MCProcesses -----------------------------
(* The process manager, and the dispatcher's queue: each behaviour is one of  *)
(* the two, and the other stays as it began.  Each part's fairness speaks of  *)
(* its own behaviours only.                                                   *)
EXTENDS MCTasks, Dispatcher

VARIABLE part

ProcessesInit == Init /\ DispatchInit /\ part \in {"ring", "dispatcher"}

ProcessesNext ==
  /\ UNCHANGED part
  /\ \/ part = "ring" /\ Next /\ UNCHANGED dispatchVars
     \/ part = "dispatcher" /\ DispatchNext /\ UNCHANGED vars

SafeSpec == ProcessesInit /\ [][ProcessesNext]_<<vars, dispatchVars, part>>

LiveSpec ==
  /\ SafeSpec
  /\ \/ part = "ring" /\ Fairness
     \/ part = "dispatcher" /\ DispatchFairness
==============================================================================
