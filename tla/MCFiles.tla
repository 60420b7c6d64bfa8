------------------------------- MODULE MCFiles -------------------------------
(* Things of which the code keeps two copies: an open file and its buffer,  *)
(* the clusters of a volume, and their transfer to memory.  Each behaviour  *)
(* is one of these, and the others stay as they began.                      *)
EXTENDS MCFileBuffer, FatChains, FatTransfer, TLC
CONSTANTS w1, w2, fa, fb
TwoWriters == {w1, w2}
TwoFiles == {fa, fb}
TwoStamps == {0, 1}
Symmetry == Permutations(TwoWriters) \cup Permutations(TwoFiles)

VARIABLE part

FilesInit ==
  /\ part \in {"buffer", "transfer", "volume"}
  /\ Init /\ FatInit /\ TransferInit
  /\ part # "transfer" => \A k \in Places : content[k] = 0
  /\ part # "buffer" => size = 0

FilesNext ==
  /\ UNCHANGED part
  /\ \/ part = "buffer" /\ Next /\ UNCHANGED <<transferVars, fatVars>>
     \/ part = "transfer" /\ TransferNext /\ UNCHANGED <<vars, fatVars>>
     \/ part = "volume" /\ FatNext /\ UNCHANGED <<vars, transferVars>>

FilesSpec ==
  FilesInit /\ [][FilesNext]_<<vars, transferVars, fatVars, part>>
==============================================================================
