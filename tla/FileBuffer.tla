------------------------------ MODULE FileBuffer ------------------------------
(***************************************************************************)
(* One open file of vfs/vfs_core.c: the position and the buffer of its     *)
(* file_PCB over the contents of its vfs_node, as the calls with the       *)
(* handle change them.                                                     *)
(*                                                                         *)
(* A handle belongs to one process, so its calls follow one another.       *)
(* fread and fwrite of no more than FILE_BUFSIZE bytes are loops over      *)
(* vfs_readchar and vfs_writechar, one step a byte; larger ones are one    *)
(* step.  The mode is only looked at by openfilex, as in the code.  The    *)
(* file system (FAT) does what it is told, except that it may be full when *)
(* the file needs another allocation unit.                                 *)
(***************************************************************************)
EXTENDS Integers

CONSTANTS Bytes,        \* what a byte of a file may be
          NewLine,      \* the byte a line buffer looks for
          NoByte,       \* what malloc left in a buffer; also: behind the end
          OpenSize,     \* the bufsize openfilex asks for
          BufSizes,     \* the sizes a caller of vfs_setbuffer asks for
          MaxBuf,       \* bound of all of them
          Large,        \* FILE_BUFSIZE
          MaxLarge,     \* bound: the longest fread or fwrite
          Unit,         \* getbytesperblock()
          MaxSize       \* bound: the largest file

ASSUME FileAssumption ==
  /\ NewLine \in Bytes /\ NoByte \notin Bytes
  /\ MaxBuf \in Nat /\ BufSizes \subseteq 1 .. MaxBuf /\ OpenSize \in 1 .. MaxBuf
  /\ Large \in Nat /\ MaxLarge \in Nat
  /\ Unit \in Nat \ {0} /\ MaxSize \in Nat

VARIABLES
  disk, size,                   \* the file: its bytes, ptr->size
  opened,                       \* is there a handle?
  ptrlow, buffertype, buffer, bufsize, startptr, endsize, bufferwrite,
  stored,       \* auxiliary: for each position the byte written there last
  sound,        \* auxiliary: how many bytes at the front of the buffer were
                \* read or written since it was placed where it is
  spoiled,      \* auxiliary: the buffer claimed more bytes than that, or a
                \* flush found the file system full
  last          \* auxiliary: a position read and what was returned

file == <<disk, size>>
place == <<buffertype, bufsize, startptr>>
vars == <<file, opened, ptrlow, place, buffer, endsize, bufferwrite, stored, sound, spoiled, last>>

Modes == {"FILE_IOFBF", "FILE_IOLBF", "FILE_IONBF"}

NoBuffer == [k \in 0 .. MaxBuf - 1 |-> NoByte]
NoBytes == [k \in 0 .. MaxSize - 1 |-> NoByte]
Nothing == [at |-> -1, byte |-> NoByte]

Closed ==
  /\ opened' = FALSE /\ ptrlow' = 0
  /\ buffertype' = "FILE_IOFBF" /\ bufsize' = 0 /\ startptr' = 0
  /\ buffer' = NoBuffer /\ endsize' = 0 /\ bufferwrite' = FALSE
  /\ sound' = 0

\* A file of any size that is not open.
Init ==
  /\ size \in 0 .. MaxSize
  /\ \E f \in [0 .. MaxSize - 1 -> Bytes] :
       disk = [k \in 0 .. MaxSize - 1 |-> IF k < size THEN f[k] ELSE NoByte]
  /\ opened = FALSE /\ ptrlow = 0
  /\ buffertype = "FILE_IOFBF" /\ bufsize = 0 /\ startptr = 0
  /\ buffer = NoBuffer /\ endsize = 0 /\ bufferwrite = FALSE
  /\ stored = disk /\ sound = 0 /\ spoiled = FALSE /\ last = Nothing

------------------------------------------------------------------------------
\* f with the first n bytes of b from p on.
Patched(f, p, n, b) ==
  [k \in 0 .. MaxSize - 1 |-> IF p <= k /\ k < p + n THEN b[k - p] ELSE f[k]]

\* fseek to a position computed with DWORDs: what is not in the file is its end.
Clamp(to, s) == IF to \in 0 .. s THEN to ELSE s

\* vfs_directwrite has to ask for allocation units, when n bytes at p go to a
\* file of size s.
NeedsSectors(s, p, n) ==
  LET totalblocks  == IF s = 0 THEN 0 ELSE s \div Unit + 1
      neededblocks == (p + n) \div Unit + 1
  IN  p + n >= s /\ neededblocks > totalblocks

Grown(s, p, n) == IF p + n >= s THEN p + n ELSE s

Buffered == buffertype # "FILE_IONBF"

\* vfs_flushbuffer has something to write.
Unwritten == Buffered /\ endsize # 0 /\ bufferwrite

FlushAt == Clamp(startptr, size)

\* vfs_flushbuffer, which ignores the result of vfs_directwrite: full says that
\* the file system had no room.
MayFlush(full) == full => Unwritten /\ NeedsSectors(size, FlushAt, endsize)

FlushedDisk(full) ==
  IF Unwritten /\ ~full THEN Patched(disk, FlushAt, endsize, buffer) ELSE disk

\* Mutant: the size is set to the end of what was written.
FlushedSizeShort(full) == IF Unwritten /\ ~full THEN FlushAt + endsize ELSE size

FlushedSize(full) == IF Unwritten /\ ~full THEN Grown(size, FlushAt, endsize) ELSE size

\* The position is put back, but not behind the end of the file.
FlushedPos(full) == IF Unwritten THEN Clamp(ptrlow, FlushedSize(full)) ELSE ptrlow

FlushedEnd == IF Unwritten THEN 0 ELSE endsize
FlushedFlag == bufferwrite /\ ~Unwritten

Written(p, n, b) == stored' = Patched(stored, p, n, b)

------------------------------------------------------------------------------
\* vfs_writechar, between the tests and the return.

\* Mutant: the range ends one byte late.
InRangeLong ==
  startptr <= ptrlow /\ ptrlow <= startptr + bufsize

InRange == startptr <= ptrlow /\ ptrlow < startptr + bufsize

FitsBuffer(c) == InRange /\ (c # NewLine \/ buffertype = "FILE_IOFBF")

WriteUnbuffered(c) ==
  /\ opened /\ ~Buffered /\ ptrlow < MaxSize
  /\ \/ /\ disk' = Patched(disk, ptrlow, 1, [k \in {0} |-> c])
        /\ size' = Grown(size, ptrlow, 1)
        /\ ptrlow' = ptrlow + 1
        /\ Written(ptrlow, 1, [k \in {0} |-> c])
     \/ /\ NeedsSectors(size, ptrlow, 1)
        /\ UNCHANGED <<file, ptrlow, stored>>
  /\ last' = Nothing
  /\ UNCHANGED <<opened, place, buffer, endsize, bufferwrite, sound, spoiled>>

WriteInBuffer(c) ==
  LET relative == ptrlow - startptr
  IN  /\ opened /\ Buffered /\ FitsBuffer(c) /\ ptrlow < MaxSize
      /\ buffer' = [buffer EXCEPT ![relative] = c]
      /\ endsize' = IF relative + 1 >= endsize THEN relative + 1 ELSE endsize
      /\ ptrlow' = ptrlow + 1
      /\ bufferwrite' = TRUE
      /\ Written(ptrlow, 1, [k \in {0} |-> c])
      /\ sound' = IF relative = sound THEN sound + 1 ELSE sound
      /\ spoiled' = (spoiled \/ relative > sound)
      /\ last' = Nothing
      /\ UNCHANGED <<file, opened, place>>

\* Mutant: the buffer is moved without a flush.
WriteUnflushed(c) ==
  /\ opened /\ Buffered /\ ~FitsBuffer(c) /\ ptrlow < MaxSize
  /\ startptr' = ptrlow
  /\ buffer' = [buffer EXCEPT ![0] = c]
  /\ endsize' = 1 /\ bufferwrite' = TRUE
  /\ ptrlow' = ptrlow + 1
  /\ Written(ptrlow, 1, [k \in {0} |-> c])
  /\ sound' = 1 /\ last' = Nothing
  /\ UNCHANGED <<file, opened, buffertype, bufsize, spoiled>>

WriteElsewhere(c) ==
  /\ opened /\ Buffered /\ ~FitsBuffer(c) /\ ptrlow < MaxSize
  /\ \E full \in BOOLEAN :
       /\ MayFlush(full)
       /\ disk' = FlushedDisk(full) /\ size' = FlushedSize(full)
       /\ startptr' = FlushedPos(full)
       /\ spoiled' = (spoiled \/ full)
  /\ buffer' = [buffer EXCEPT ![0] = c]
  /\ endsize' = 1 /\ bufferwrite' = TRUE
  /\ ptrlow' = ptrlow + 1
  /\ Written(ptrlow, 1, [k \in {0} |-> c])
  /\ sound' = 1 /\ last' = Nothing
  /\ UNCHANGED <<opened, buffertype, bufsize>>

------------------------------------------------------------------------------
\* vfs_readchar.  Behind the end of the file as the disk has it there is
\* nothing, whatever is in the buffer.
ReadAtEnd ==
  /\ opened /\ ptrlow >= size
  /\ last' = [at |-> ptrlow, byte |-> NoByte]
  /\ UNCHANGED <<file, opened, ptrlow, place, buffer, endsize, bufferwrite, stored, sound, spoiled>>

ReadUnbuffered ==
  /\ opened /\ ~Buffered /\ ptrlow < size
  /\ last' = [at |-> ptrlow, byte |-> disk[ptrlow]]
  /\ ptrlow' = ptrlow + 1
  /\ UNCHANGED <<file, opened, place, buffer, endsize, bufferwrite, stored, sound, spoiled>>

\* Mutant: what the buffer may hold is taken for what it holds.
InBufferRoom == InRange

InBuffer == startptr <= ptrlow /\ ptrlow < startptr + endsize

ReadInBuffer ==
  /\ opened /\ Buffered /\ ptrlow < size /\ InBuffer
  /\ last' = [at |-> ptrlow, byte |-> buffer[ptrlow - startptr]]
  /\ ptrlow' = ptrlow + 1
  /\ UNCHANGED <<file, opened, place, buffer, endsize, bufferwrite, stored, sound, spoiled>>

ReadElsewhere ==
  /\ opened /\ Buffered /\ ptrlow < size /\ ~InBuffer
  /\ \E full \in BOOLEAN :
       /\ MayFlush(full)
       /\ disk' = FlushedDisk(full) /\ size' = FlushedSize(full)
       /\ spoiled' = (spoiled \/ full)
  /\ LET rest == size' - ptrlow
         n    == IF rest < bufsize THEN rest ELSE bufsize
     IN  /\ buffer' = [k \in 0 .. MaxBuf - 1 |-> IF k < n THEN disk'[ptrlow + k] ELSE buffer[k]]
         /\ endsize' = n /\ sound' = n
  /\ startptr' = ptrlow
  /\ bufferwrite' = FlushedFlag
  /\ last' = [at |-> ptrlow, byte |-> disk'[ptrlow]]
  /\ ptrlow' = ptrlow + 1
  /\ UNCHANGED <<opened, buffertype, bufsize, stored>>

------------------------------------------------------------------------------
\* More than FILE_BUFSIZE bytes: fflush, then directly from or to the device.
LargeSizes == {n \in 1 .. MaxLarge : n > Large}

FlushFirst(full) ==
  /\ MayFlush(full)
  /\ endsize' = FlushedEnd /\ bufferwrite' = FlushedFlag

\* last is any one of the bytes returned.
ReadLarge(n) ==
  /\ opened
  /\ \E full \in BOOLEAN :
       LET p    == FlushedPos(full)
           next == IF p + n >= FlushedSize(full) THEN FlushedSize(full) ELSE p + n
       IN  /\ FlushFirst(full)
           /\ disk' = FlushedDisk(full) /\ size' = FlushedSize(full)
           /\ ptrlow' = next
           /\ spoiled' = (spoiled \/ full)
           /\ \/ \E k \in p .. next - 1 : last' = [at |-> k, byte |-> disk'[k]]
              \/ p = next /\ last' = [at |-> p, byte |-> NoByte]
  /\ UNCHANGED <<opened, place, buffer, stored, sound>>

\* How much at the front of the buffer is still the file's after a write at p.
StillSound(p) == IF p \in startptr .. startptr + sound - 1 THEN p - startptr ELSE sound

WriteLarge(n, b) ==
  /\ opened /\ ptrlow + n <= MaxSize
  /\ \E full \in BOOLEAN :
       LET p == FlushedPos(full)
       IN  /\ FlushFirst(full)
           /\ \/ /\ disk' = Patched(FlushedDisk(full), p, n, b)
                 /\ size' = Grown(FlushedSize(full), p, n)
                 /\ ptrlow' = p + n
                 /\ Written(p, n, b)
                 /\ sound' = IF p < startptr /\ p + n > startptr THEN 0 ELSE StillSound(p)
              \/ /\ NeedsSectors(FlushedSize(full), p, n)
                 /\ disk' = FlushedDisk(full) /\ size' = FlushedSize(full)
                 /\ ptrlow' = p
                 /\ UNCHANGED <<stored, sound>>
           /\ spoiled' = (spoiled \/ full \/ (Buffered /\ endsize' > sound'))
  /\ last' = Nothing
  /\ UNCHANGED <<opened, place, buffer>>

------------------------------------------------------------------------------
fseek(to) ==
  /\ opened
  /\ ptrlow' = Clamp(to, size)
  /\ last' = Nothing
  /\ UNCHANGED <<file, opened, place, buffer, endsize, bufferwrite, stored, sound, spoiled>>

fflush ==
  /\ opened
  /\ \E full \in BOOLEAN :
       /\ FlushFirst(full)
       /\ disk' = FlushedDisk(full) /\ size' = FlushedSize(full)
       /\ ptrlow' = FlushedPos(full)
       /\ spoiled' = (spoiled \/ full)
  /\ last' = Nothing
  /\ UNCHANGED <<opened, place, buffer, stored, sound>>

\* A new buffer holds what malloc left, or there is none.
vfs_setbuffer(mode, n) ==
  /\ opened
  /\ \E full \in BOOLEAN :
       /\ MayFlush(full)
       /\ disk' = FlushedDisk(full) /\ size' = FlushedSize(full)
       /\ ptrlow' = FlushedPos(full)
       /\ spoiled' = (spoiled \/ full)
  /\ startptr' = IF mode = "FILE_IONBF" THEN startptr ELSE ptrlow'
  /\ endsize' = IF mode = "FILE_IONBF" THEN FlushedEnd ELSE 0
  /\ bufferwrite' = FlushedFlag
  /\ buffertype' = mode
  /\ bufsize' = IF mode = "FILE_IONBF" THEN 0 ELSE n
  /\ buffer' = NoBuffer /\ sound' = 0
  /\ last' = Nothing
  /\ UNCHANGED <<opened, stored>>

\* openfilex, when it returns a handle.
openfilex(mode) ==
  /\ ~opened /\ opened' = TRUE
  /\ IF mode = "FILE_WRITE"
     THEN disk' = NoBytes /\ size' = 0 /\ stored' = NoBytes
     ELSE UNCHANGED <<file, stored>>
  /\ ptrlow' = IF mode = "FILE_APPEND" THEN size ELSE 0
  /\ startptr' = ptrlow'
  /\ buffertype' = "FILE_IOFBF" /\ bufsize' = OpenSize
  /\ buffer' = NoBuffer /\ endsize' = 0 /\ bufferwrite' = FALSE
  /\ sound' = 0 /\ last' = Nothing
  /\ UNCHANGED spoiled

fclose ==
  /\ opened
  /\ \E full \in BOOLEAN :
       /\ MayFlush(full)
       /\ disk' = FlushedDisk(full) /\ size' = FlushedSize(full)
       /\ spoiled' = (spoiled \/ full)
  /\ Closed
  /\ last' = Nothing
  /\ UNCHANGED stored

------------------------------------------------------------------------------
ReadChar == ReadAtEnd \/ ReadUnbuffered \/ ReadInBuffer \/ ReadElsewhere

Next ==
  \/ \E c \in Bytes : WriteUnbuffered(c) \/ WriteInBuffer(c) \/ WriteElsewhere(c)
  \/ ReadChar
  \/ \E n \in LargeSizes : ReadLarge(n) \/ \E b \in [0 .. n - 1 -> Bytes] : WriteLarge(n, b)
  \/ \E to \in -1 .. MaxSize : fseek(to)
  \/ fflush
  \/ \E mode \in Modes, n \in BufSizes : vfs_setbuffer(mode, n)
  \/ \E mode \in {"FILE_READ", "FILE_WRITE", "FILE_APPEND", "FILE_READWRITE"} : openfilex(mode)
  \/ fclose

Spec == Init /\ [][Next]_vars

------------------------------------------------------------------------------
Byte == Bytes \cup {NoByte}

TypeOK ==
  /\ disk \in [0 .. MaxSize - 1 -> Byte] /\ stored \in [0 .. MaxSize - 1 -> Byte]
  /\ size \in 0 .. MaxSize
  /\ opened \in BOOLEAN /\ bufferwrite \in BOOLEAN /\ spoiled \in BOOLEAN
  /\ ptrlow \in 0 .. MaxSize /\ startptr \in 0 .. MaxSize
  /\ buffertype \in Modes /\ bufsize \in 0 .. MaxBuf
  /\ buffer \in [0 .. MaxBuf - 1 -> Byte]
  /\ endsize \in 0 .. MaxBuf /\ sound \in 0 .. MaxBuf
  /\ last \in [at : -1 .. MaxSize, byte : Byte]

\* The byte at a position, for one who reads it through the handle.
View(k) ==
  IF Buffered /\ startptr <= k /\ k < startptr + endsize THEN buffer[k - startptr] ELSE disk[k]

\* Buffer and disk together hold at every position what was written there
\* last: moving the buffer, filling it, changing its kind and size, large
\* transfers and closing lose nothing, as long as the buffer never claims bytes
\* it was not given and the file system has room for a flush.
NothingLost == ~spoiled => \A k \in 0 .. MaxSize - 1 : View(k) = stored[k]

\* ... a read returns the byte last written, and no byte only behind the last
\* one or in front of one that waits in the buffer ...
ReadsAreCurrent ==
  ~spoiled /\ last.at \in 0 .. MaxSize - 1 /\ (last.byte # NoByte \/ ~Unwritten)
    => last.byte = stored[last.at]

\* No call loses a byte or returns an old one.
BytesAreKept == NothingLost /\ ReadsAreCurrent

\* The size of the file counts the bytes on the disk.
SizeIsExact == ~spoiled => \A k \in 0 .. MaxSize - 1 : k < size <=> disk[k] # NoByte

\* The flush goes where the buffer was placed: its seek to startptr is never
\* cut off at the end of the file; and a position is in the file or at the end
\* of what waits to be appended to it.
PositionsInFile ==
  /\ startptr <= size
  /\ ~spoiled => ptrlow <= size \/ (Unwritten /\ ptrlow <= startptr + endsize)

\* Size, position and the place of the buffer fit the bytes on the disk, though the
\* size does not count what waits in the buffer.
PlaceIsExact == SizeIsExact /\ PositionsInFile
==============================================================================
