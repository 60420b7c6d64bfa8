---------------------------- MODULE MCIoScheduler ----------------------------
(* Clients of a floppy disk with delayed writes and of a CD-ROM.  Three    *)
(* clients put a request before, between and behind others on the list;    *)
(* two are enough for the liveness run.  The blocks lie on both sides of  *)
(* lastjob and two of them are equally near.                               *)
EXTENDS IoScheduler, TLC
CONSTANTS c1, c2, c3, fd0, cd0
ThreeClients == {c1, c2, c3}
TwoClients == {c1, c2}
WithKernel == {c1, c2, NoPid}
Both == {fd0, cd0}
Floppy == {fd0}
Ask(type, dev, block) == [type |-> type, dev |-> dev, block |-> block]
Reads == {Ask(IO_READ, cd0, 1), Ask(IO_READ, cd0, 3)}
Mixed == {Ask(IO_READ, fd0, 1), Ask(IO_WRITE, fd0, 1), Ask(IO_WRITE, cd0, 4)}
Symmetry == Permutations(Clients)
==============================================================================
