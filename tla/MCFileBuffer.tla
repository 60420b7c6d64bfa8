---------------------------- MODULE MCFileBuffer -----------------------------
(* The buffer is smaller than the file and a large transfer is larger than   *)
(* the buffer openfilex gives out, but not than the largest one.             *)
EXTENDS FileBuffer
CONSTANTS x, nl
TwoBytes == {x, nl}
OneAndTwo == {1, 2}
==============================================================================
