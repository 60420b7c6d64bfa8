------------------------------- MODULE MCDrive -------------------------------
(* The floppy driver's cache, and the drive below it: each behaviour is one  *)
(* of the cache or one of the drive, and the other stays as it began.  The   *)
(* drive's fairness asks for nothing while the drive is at rest.  On three   *)
(* tracks a seek can end on a wrong one.                                     *)
EXTENDS MCFloppyCache, FloppyDrive
ThreeTracks == 0 .. 2

VARIABLE part

DiskInit ==
  /\ Init /\ DriveInit /\ part \in {"cache", "drive"}
  /\ part = "drive" => \A s \in Sectors : disk[s] = v

DiskNext ==
  /\ UNCHANGED part
  /\ \/ part = "cache" /\ Next /\ UNCHANGED driveVars
     \/ part = "drive" /\ DriveNext /\ UNCHANGED vars

DiskSpec == DiskInit /\ [][DiskNext]_<<vars, driveVars, part>> /\ DriveFairness
==============================================================================
