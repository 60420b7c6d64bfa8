--------------------------------- MODULE Cdrom ---------------------------------
(***************************************************************************)
(* The file system of CDs (filesystem/iso9660.c): the volume descriptors,  *)
(* of which one names the root directory, the records of a directory, from *)
(* which the VFS gets its nodes, and the reading of a file.  Every request *)
(* to the drive may fail, and the driver takes whatever is in its buffer   *)
(* then; clouded records that, and the model stops there.                  *)
(*                                                                         *)
(* A disc is one the standard allows: the records of a directory, of       *)
(* different lengths, fill sectors; the rest of a sector, which may be too *)
(* short for the next record, is zero.  The name of a file ends with a     *)
(* semicolon and a version, that of a directory does not.  What others do  *)
(* with the list of nodes meanwhile is Directories' subject.               *)
(***************************************************************************)
EXTENDS Integers, Sequences, SequencesExt, FiniteSets

CONSTANTS SectorBytes,              \* 2048
          RecordBytes,              \* lengths of records
          MaxRecords, FileBytes,    \* bounds of the model: a directory, and a file
          MaxDescriptors            \* 8

ASSUME CdAssumption ==
  /\ {SectorBytes, MaxRecords, FileBytes, MaxDescriptors} \subseteq Nat \ {0}
  /\ RecordBytes \subseteq 1 .. SectorBytes /\ MaxDescriptors > 1

------------------------------------------------------------------------------
\* What a disc may hold: the descriptors behind the first, of which the last ends the
\* set, and the records of a directory.
Descriptors == {<<>>} \cup UNION {[1 .. n -> {"joliet", "other"}] : n \in 1 .. MaxDescriptors}
Records == UNION {[1 .. n -> [size : RecordBytes, isDir : BOOLEAN]] : n \in 1 .. MaxRecords}

\* Where the standard puts record i: behind the one before it, but a record does not
\* cross the end of a sector.
OffsetAfter(records, i, offset) ==
  LET next == offset + records[i - 1].size IN
  IF i > Len(records) \/ (next % SectorBytes) + records[i].size <= SectorBytes THEN next
  ELSE (next \div SectorBytes + 1) * SectorBytes
Offset(records) ==
  LET at[i \in 1 .. Len(records) + 1] ==
        IF i = 1 THEN 0 ELSE OffsetAfter(records, i, at[i - 1])
  IN at
Extent(records) ==
  ((Offset(records)[Len(records) + 1] + SectorBytes - 1) \div SectorBytes) * SectorBytes

\* The byte at which a record would begin: there is one, or a zero.
RecordAt(records, b) ==
  IF \E i \in DOMAIN records : Offset(records)[i] = b
  THEN CHOOSE i \in DOMAIN records : Offset(records)[i] = b ELSE 0

VARIABLES
  descriptors, records,             \* the disc
  doingCd,                          \* where the driver is
  vol_num, joliet,                  \* the descriptor it reads, and whether it uses one
  sized, shown,                     \* bytes of the directory it has walked; its nodes
  wanted, data_buffer,              \* the positions asked for, and what was read
  clouded                           \* auxiliary

discVars == <<descriptors, records>>
cdVars == <<discVars, doingCd, vol_num, joliet, sized, shown, wanted, data_buffer, clouded>>

CdInit ==
  /\ descriptors \in Descriptors /\ records \in Records
  /\ doingCd = "unmounted" /\ vol_num = 1 /\ joliet = FALSE
  /\ sized = 0 /\ shown = <<>> /\ wanted = <<0, 0>> /\ data_buffer = <<>> /\ clouded = FALSE

------------------------------------------------------------------------------
CdSteps(from, to) == ~clouded /\ doingCd = from /\ doingCd' = to
CdFails(from) ==
  /\ ~clouded /\ doingCd = from /\ clouded' = TRUE
  /\ UNCHANGED <<discVars, doingCd, vol_num, joliet, sized, shown, wanted, data_buffer>>

\* The first descriptor is that of the volume.
iso9660_mountroot ==
  \/ /\ CdSteps("unmounted", "descriptors") /\ vol_num' = 1
     /\ UNCHANGED <<discVars, joliet, sized, shown, wanted, data_buffer, clouded>>
  \/ CdFails("unmounted")

\* The loop over the others: until one with the escape sequence of Joliet, the last
\* one, or eight of them.
ReadsDescriptor ==
  LET last == vol_num > Len(descriptors)
      found == ~last /\ descriptors[vol_num] = "joliet" IN
  \/ /\ joliet' = found
     /\ vol_num' = IF found THEN vol_num ELSE vol_num + 1
     /\ CdSteps("descriptors", IF found \/ last \/ vol_num' >= MaxDescriptors
                               THEN "directory" ELSE "descriptors")
     /\ UNCHANGED <<discVars, sized, shown, wanted, data_buffer, clouded>>
  \/ CdFails("descriptors")

\* iso9660_loaddirectory
iso9660_loaddirectory ==
  \/ /\ CdSteps("directory", "records")
     /\ UNCHANGED <<discVars, vol_num, joliet, sized, shown, wanted, data_buffer, clouded>>
  \/ CdFails("directory")

\* The name that a node gets: what follows that of a directory, up to a semicolon of
\* something else, is taken for its own, unless it is a Joliet name.
iso9660_convertname(i) == IF records[i].isDir /\ ~joliet THEN 0 ELSE i

\* The loop of iso9660_mount, which mountdirectory runs for the directories below:
\* the first zero ends it, and a node is put before the others.
iso9660_mount ==
  LET i == IF sized < Extent(records) THEN RecordAt(records, sized) ELSE 0 IN
  \/ /\ i # 0 /\ CdSteps("records", "records")
     /\ shown' = <<iso9660_convertname(i)>> \o shown
     /\ sized' = sized + records[i].size
     /\ UNCHANGED <<discVars, vol_num, joliet, wanted, data_buffer, clouded>>
  \/ /\ i = 0 /\ CdSteps("records", "mounted")
     /\ UNCHANGED <<discVars, vol_num, joliet, sized, shown, wanted, data_buffer, clouded>>

iso9660_unmount ==
  /\ CdSteps("mounted", "unmounted")
  /\ joliet' = FALSE /\ sized' = 0 /\ shown' = <<>> /\ wanted' = <<0, 0>> /\ data_buffer' = <<>>
  /\ UNCHANGED <<discVars, vol_num, clouded>>

\* The bytes of a file are told apart by their positions in it.
Blocks(first, n) == [k \in 1 .. n * SectorBytes |-> first * SectorBytes + k - 1]

\* Mutant: the first block is copied from its first byte on.
ReadsWholeBlocks(first, last) ==
  /\ CdSteps("mounted", "mounted")
  /\ wanted' = <<first, last>>
  /\ data_buffer' = SubSeq(Blocks(first \div SectorBytes, last \div SectorBytes + 1), 1,
                      last - first + 1)
  /\ UNCHANGED <<discVars, vol_num, joliet, sized, shown, clouded>>

iso9660_openfile(first, last) ==
  LET startblock == first \div SectorBytes
      totalblocks == last \div SectorBytes - startblock + 1
      startadj == first % SectorBytes IN
  \/ /\ CdSteps("mounted", "mounted")
     /\ wanted' = <<first, last>>
     /\ data_buffer' = SubSeq(Blocks(startblock, totalblocks),
                         startadj + 1, startadj + last - first + 1)
     /\ UNCHANGED <<discVars, vol_num, joliet, sized, shown, clouded>>
  \/ CdFails("mounted")

\* Nothing more is modelled after a failure.
CdStops == clouded /\ UNCHANGED cdVars

CdNext ==
  \/ iso9660_mountroot \/ ReadsDescriptor \/ iso9660_loaddirectory \/ iso9660_mount
  \/ iso9660_unmount
  \/ \E first \in 0 .. FileBytes - 1 : \E last \in first .. FileBytes - 1 :
       iso9660_openfile(first, last)
  \/ CdStops

CdSpec == CdInit /\ [][CdNext]_cdVars

------------------------------------------------------------------------------
\* A record is reached if no sector before it ends in zeroes.
InFirstRun(i) == \A j \in 1 .. i - 1 : Offset(records)[j + 1] = Offset(records)[j] + records[j].size
IsShown(i) == \E k \in DOMAIN shown : shown[k] = i

\* As long as the drive reads what it is asked to: a mounted directory shows each file
\* of it once up to the first sector that is not full, which is all of a directory of
\* one sector, and a disc with Joliet names its directories too; and a reading gets
\* the bytes of the file that were asked for, in order.
CdShowsItsFiles ==
  ~clouded /\ doingCd = "mounted" =>
    /\ Len(shown) = Cardinality({i \in DOMAIN records : InFirstRun(i)})
    /\ \A i \in DOMAIN records :
         /\ IsShown(i) => InFirstRun(i)
         /\ InFirstRun(i) \/ Extent(records) <= SectorBytes =>
              IsShown(i) \/ (records[i].isDir /\ ~joliet)
    /\ joliet <=> \E k \in DOMAIN descriptors : k < MaxDescriptors /\ descriptors[k] = "joliet"
    /\ data_buffer # <<>> =>
         data_buffer = [k \in 1 .. wanted[2] - wanted[1] + 1 |-> wanted[1] + k - 1]
==============================================================================
