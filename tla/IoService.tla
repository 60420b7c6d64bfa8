------------------------------ MODULE IoService ------------------------------
(***************************************************************************)
(* What iomgr/iosched.c promises to the drivers and filesystems that call  *)
(* dex32_requestIO, dex32_IOcomplete and dex32_closeIO: a request is       *)
(* answered exactly once, the answer stays until its owner closes the      *)
(* request, and a request that was made is answered.                       *)
(***************************************************************************)
CONSTANT Clients        \* the processes that do block I/O

VARIABLE stage          \* of the request of each client

Init == stage = [c \in Clients |-> "none"]

Move(c, from, to) == stage[c] = from /\ stage' = [stage EXCEPT ![c] = to]

Submit(c)  == Move(c, "none", "submitted")
Answer(c)  == Move(c, "submitted", "answered")
Immediate(c) == Move(c, "none", "answered")     \* found in the device's cache
Close(c)   == Move(c, "answered", "none")

Next == \E c \in Clients : Submit(c) \/ Answer(c) \/ Immediate(c) \/ Close(c)

Spec == Init /\ [][Next]_stage /\ \A c \in Clients : WF_stage(Answer(c))
==============================================================================
