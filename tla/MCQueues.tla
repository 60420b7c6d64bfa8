------------------------------- MODULE MCQueues -------------------------------
(* Structures that processes share and that are only whole if their steps    *)
(* are: the queue of the disk manager, the stack of page frames, the ring of *)
(* messages of a process, and the clock; and the driver of CDs, whose        *)
(* requests the queue serves or fails.  Each behaviour is one of the five,   *)
(* the others stay as they began.  Two programs with all their pages, and    *)
(* the kernel's table while one is loaded, take more than the ten frames     *)
(* there are.  The clock runs for two and a half days, over the end of a     *)
(* year, a leap day, and the end of a leap year.                             *)
EXTENDS MCIoScheduler, FrameStack, Messages, Clock, Cdrom
CONSTANTS r1, k1
TenFrames == <<"f1", "f2", "f3", "f4", "f5", "f6", "f7", "f8", "f9", "f10">>
OneReceiver == {r1}
ItselfAndThread == {r1, k1}
ThreeDates == {<<2003, 12, 31>>, <<2004, 2, 29>>, <<2004, 12, 31>>}

VARIABLE part

QueuesInit ==
  /\ Init /\ FrameInit /\ MessagesInit /\ ClockInit /\ CdInit
  /\ part \in {"disk", "frames", "messages", "clock", "cd"}
  /\ part # "clock" => /\ toSecond = 0
                       /\ rtc.min = 0 /\ <<rtc.year, rtc.month>> = <<2003, 12>>
  /\ part # "cd" => descriptors = <<>> /\ records = <<[size |-> 2, isDir |-> FALSE]>>

QueuesNext ==
  /\ UNCHANGED part
  /\ \/ part = "disk" /\ Next /\ UNCHANGED <<frameVars, messageVars, clockVars, cdVars>>
     \/ part = "frames" /\ FrameNext /\ UNCHANGED <<vars, messageVars, clockVars, cdVars>>
     \/ part = "messages" /\ MessagesNext /\ UNCHANGED <<vars, frameVars, clockVars, cdVars>>
     \/ part = "clock" /\ ClockNext /\ UNCHANGED <<vars, frameVars, messageVars, cdVars>>
     \/ part = "cd" /\ CdNext /\ UNCHANGED <<vars, frameVars, messageVars, clockVars>>

QueuesSpec ==
  QueuesInit /\ [][QueuesNext]_<<vars, frameVars, messageVars, clockVars, cdVars, part>>
==============================================================================
