--------------------------- MODULE FileBufferProofs ---------------------------
(***************************************************************************)
(* Theorems about FileBuffer, for any buffer sizes, allocation unit and    *)
(* bytes; about FatTransfer, for clusters of any size and files of any     *)
(* number of them; about Cdrom, for discs of any size; and, at the end,    *)
(* about FatChains, for volumes of any size.                               *)
(*                                                                         *)
(* The invariant says that the front of the buffer, sound bytes long, is   *)
(* the file's, that the buffer claims no more (endsize), and that disk and *)
(* stored only differ under what waits to be written.  A flush then makes  *)
(* them equal, and every move of the buffer starts with one.               *)
(***************************************************************************)
EXTENDS FileBuffer, FatTransfer, FatChains, Cdrom, TLAPS, FiniteSetTheorems, WellFoundedInduction,
        SequenceTheorems

Positions == 0 .. MaxSize - 1

\* Where the buffer and the position are, whatever happened.
Shape ==
  /\ startptr <= size
  /\ ~bufferwrite => ptrlow <= size
  /\ bufferwrite => Buffered /\ endsize > 0 /\ opened
  /\ Buffered => /\ startptr + endsize <= MaxSize /\ startptr + sound <= MaxSize
                 /\ endsize <= bufsize /\ sound <= bufsize
  /\ opened /\ Buffered => bufsize > 0
  /\ ~opened => Buffered /\ endsize = 0

Under(k) == bufferwrite /\ startptr <= k /\ k < startptr + endsize

\* The first s positions of f hold bytes and the others do not.
Exact(f, s) == \A k \in Positions : k < s <=> f[k] # NoByte

\* What they hold, until the buffer is spoiled.
Content ==
  /\ Buffered => endsize <= sound
  /\ Buffered => \A k \in 0 .. sound - 1 :
                   buffer[k] = stored[startptr + k] /\ buffer[k] # NoByte
  /\ \A k \in Positions : Under(k) \/ disk[k] = stored[k]
  /\ Exact(disk, size)
  /\ ptrlow <= size \/ (bufferwrite /\ ptrlow <= startptr + endsize)

Inv == TypeOK /\ Shape /\ (~spoiled => Content) /\ ReadsAreCurrent

Contents == [Positions -> Byte]

------------------------------------------------------------------------------
\* Overwriting a part of a file with bytes leaves a file.
LEMMA PatchedType ==
  ASSUME NEW f \in Contents, NEW p \in Nat, NEW n \in Nat, NEW b,
         \A k \in 0 .. n - 1 : b[k] \in Byte
  PROVE  Patched(f, p, n, b) \in Contents
<1>1. ASSUME NEW k \in Positions, p <= k, k < p + n PROVE b[k - p] \in Byte
  <2>1. k - p \in 0 .. n - 1 BY <1>1, FileAssumption DEF FileAssumption, Positions
  <2>2. QED BY <2>1
<1>2. ASSUME NEW k \in Positions PROVE f[k] \in Byte BY <1>2 DEF Contents
<1>3. QED BY <1>1, <1>2 DEF Patched, Contents, Positions

\* A flush only has something to write when the flag is set.
LEMMA UnwrittenIsFlag ==
  ASSUME TypeOK, Shape
  PROVE  (Unwritten <=> bufferwrite) /\ FlushAt = startptr /\ FlushedFlag = FALSE
<1>1. FlushAt = startptr BY FileAssumption DEF FileAssumption, FlushAt, Clamp, TypeOK, Shape
<1>2. Unwritten <=> bufferwrite BY DEF Unwritten, Shape, TypeOK
<1>3. QED BY <1>1, <1>2 DEF FlushedFlag

\* Where a flush leaves the file and the position, whether or not there was room.
LEMMA FlushType ==
  ASSUME TypeOK, Shape, NEW full \in BOOLEAN
  PROVE  /\ FlushedDisk(full) \in Contents
         /\ FlushedSize(full) \in 0 .. MaxSize /\ size <= FlushedSize(full)
         /\ FlushedPos(full) \in 0 .. ptrlow
         /\ FlushedPos(full) <= FlushedSize(full)
         /\ FlushedEnd \in 0 .. endsize
<1>1. /\ size \in 0 .. MaxSize /\ ptrlow \in 0 .. MaxSize /\ startptr \in 0 .. MaxSize
      /\ endsize \in 0 .. MaxBuf /\ MaxSize \in Nat /\ MaxBuf \in Nat
  BY FileAssumption DEF FileAssumption, TypeOK
<1>2. (Unwritten <=> bufferwrite) /\ FlushAt = startptr BY UnwrittenIsFlag
<1>3. startptr <= size /\ (~Unwritten => ptrlow <= size)
  BY <1>2 DEF Shape
<1>4. Unwritten => startptr + endsize <= MaxSize BY DEF Unwritten, Shape
<1>5. FlushedDisk(full) \in Contents
  <2>1. disk \in Contents /\ \A k \in 0 .. MaxBuf - 1 : buffer[k] \in Byte
    BY DEF TypeOK, Contents, Positions
  <2>2. \A k \in 0 .. endsize - 1 : buffer[k] \in Byte BY <2>1, <1>1
  <2>3. Patched(disk, startptr, endsize, buffer) \in Contents
    <3>1. startptr \in Nat /\ endsize \in Nat BY <1>1
    <3>2. QED BY <2>1, <2>2, <3>1, PatchedType
  <2>4. QED BY <2>1, <2>3, <1>2 DEF FlushedDisk
<1>6. FlushedSize(full) \in 0 .. MaxSize /\ size <= FlushedSize(full)
  BY <1>1, <1>2, <1>4 DEF FlushedSize, Grown
<1>7. FlushedPos(full) \in 0 .. ptrlow /\ FlushedPos(full) <= FlushedSize(full)
  BY <1>1, <1>3, <1>6 DEF FlushedPos, Clamp
<1>8. FlushedEnd \in 0 .. endsize BY <1>1 DEF FlushedEnd
<1>9. QED BY <1>5, <1>6, <1>7, <1>8

\* A flush for which there is room brings everything written to the disk, and
\* leaves the position where it is.
LEMMA FlushContent ==
  ASSUME TypeOK, Shape, Content, NEW full \in BOOLEAN, MayFlush(full), ~full
  PROVE  /\ FlushedDisk(full) = stored
         /\ Exact(stored, FlushedSize(full))
         /\ FlushedPos(full) = ptrlow
<1>1. /\ size \in 0 .. MaxSize /\ ptrlow \in 0 .. MaxSize /\ startptr \in 0 .. MaxSize
      /\ endsize \in 0 .. MaxBuf /\ sound \in 0 .. MaxBuf
      /\ MaxSize \in Nat /\ MaxBuf \in Nat
  BY FileAssumption DEF FileAssumption, TypeOK
<1>2. (Unwritten <=> bufferwrite) /\ FlushAt = startptr BY UnwrittenIsFlag
<1>3. disk \in Contents /\ stored \in Contents BY DEF TypeOK, Contents, Positions
<1>a. \A k \in Positions : k < size <=> disk[k] # NoByte BY DEF Content, Exact
<1>b. startptr <= size BY DEF Shape
<1>4. CASE bufferwrite
  <2>1. FlushedDisk(full) = Patched(disk, startptr, endsize, buffer)
        /\ FlushedSize(full) = Grown(size, startptr, endsize)
    BY <1>2, <1>4 DEF FlushedDisk, FlushedSize
  <2>2. Buffered /\ endsize <= sound BY <1>4 DEF Shape, Content
  <2>3. ASSUME NEW k \in Positions, startptr <= k, k < startptr + endsize
        PROVE  stored[k] = buffer[k - startptr] /\ stored[k] # NoByte
    <3>1. k - startptr \in 0 .. sound - 1 /\ startptr + (k - startptr) = k
      BY <2>2, <2>3, <1>1 DEF Positions
    <3>2. \A m \in 0 .. sound - 1 : buffer[m] = stored[startptr + m] /\ buffer[m] # NoByte
      BY <2>2 DEF Content
    <3>3. QED BY <3>1, <3>2
  <2>4. ASSUME NEW k \in Positions, ~(startptr <= k /\ k < startptr + endsize)
        PROVE  stored[k] = disk[k]
    BY <2>4 DEF Content, Under
  <2>5. FlushedDisk(full) = stored
    <3>1. \A k \in Positions : FlushedDisk(full)[k] = stored[k]
      BY <2>1, <2>3, <2>4 DEF Patched, Positions
    <3>2. FlushedDisk(full) \in Contents BY FlushType
    <3>3. QED BY <3>1, <3>2, <1>3 DEF Contents
  <2>6. ASSUME NEW k \in Positions
        PROVE  k < FlushedSize(full) <=> stored[k] # NoByte
    <3>1. CASE startptr <= k /\ k < startptr + endsize
      <4>1. k < FlushedSize(full) BY <3>1, <2>1, <1>1 DEF Grown, Positions
      <4>2. QED BY <4>1, <3>1, <2>3
    <3>2. CASE ~(startptr <= k /\ k < startptr + endsize)
      <4>1. k < FlushedSize(full) <=> k < size
        BY <3>2, <2>1, <1>1, <1>b DEF Grown, Positions
      <4>2. QED BY <4>1, <3>2, <2>4, <1>a
    <3>3. QED BY <3>1, <3>2
  <2>7. FlushedPos(full) = ptrlow
    <3>1. ptrlow <= size \/ ptrlow <= startptr + endsize BY DEF Content
    <3>2. QED BY <3>1, <2>1, <1>1 DEF FlushedPos, Clamp, Grown
  <2>8. QED BY <2>5, <2>6, <2>7 DEF Exact
<1>5. CASE ~bufferwrite
  <2>1. /\ FlushedDisk(full) = disk /\ FlushedSize(full) = size
        /\ FlushedPos(full) = ptrlow
    BY <1>2, <1>5 DEF FlushedDisk, FlushedSize, FlushedPos
  <2>2. \A k \in Positions : disk[k] = stored[k] BY <1>5 DEF Content, Under
  <2>3. disk = stored BY <2>2, <1>3 DEF Contents
  <2>4. QED BY <2>1, <2>3, <1>a DEF Exact
<1>6. QED BY <1>4, <1>5
\* Bytes written at a position in the file or at its end keep it exact.
LEMMA PatchedExact ==
  ASSUME NEW f, NEW s \in Nat, NEW p \in Nat, NEW n \in Nat, NEW b,
         Exact(f, s), p <= s, \A k \in 0 .. n - 1 : b[k] # NoByte
  PROVE  Exact(Patched(f, p, n, b), Grown(s, p, n))
<1> DEFINE g == Patched(f, p, n, b)
<1>1. SUFFICES ASSUME NEW k \in Positions PROVE k < Grown(s, p, n) <=> g[k] # NoByte
  BY DEF Exact
<1>2. k \in Nat BY FileAssumption DEF FileAssumption, Positions
<1>3. CASE p <= k /\ k < p + n
  <2>1. g[k] = b[k - p] BY <1>3 DEF Patched, Positions
  <2>2. k - p \in 0 .. n - 1 BY <1>2, <1>3
  <2>3. k < Grown(s, p, n) BY <1>2, <1>3 DEF Grown
  <2>4. QED BY <2>1, <2>2, <2>3
<1>4. CASE ~(p <= k /\ k < p + n)
  <2>1. g[k] = f[k] BY <1>4 DEF Patched, Positions
  <2>2. k < Grown(s, p, n) <=> k < s BY <1>2, <1>4 DEF Grown
  <2>3. QED BY <2>1, <2>2 DEF Exact
<1>5. QED BY <1>3, <1>4

\* The numbers of the state.
LEMMA Numbers ==
  ASSUME TypeOK
  PROVE  /\ size \in 0 .. MaxSize /\ ptrlow \in 0 .. MaxSize /\ startptr \in 0 .. MaxSize
         /\ endsize \in 0 .. MaxBuf /\ sound \in 0 .. MaxBuf /\ bufsize \in 0 .. MaxBuf
         /\ MaxSize \in Nat /\ MaxBuf \in Nat
BY FileAssumption DEF FileAssumption, TypeOK

\* Nothing was read.
LEMMA NoRead ==
  ASSUME last' = Nothing
  PROVE  last' \in [at : -1 .. MaxSize, byte : Byte] /\ ReadsAreCurrent'
<1>1. last'.at = -1 /\ last'.at \notin 0 .. MaxSize - 1
  BY FileAssumption DEF Nothing, FileAssumption
<1>2. ReadsAreCurrent' BY <1>1 DEF ReadsAreCurrent
<1>3. -1 \in -1 .. MaxSize /\ NoByte \in Byte BY FileAssumption DEF FileAssumption, Byte
<1>4. QED BY <1>2, <1>3 DEF Nothing

\* When nothing waits to be written the disk has everything.
LEMMA CleanIsStored ==
  ASSUME TypeOK, Content, ~bufferwrite
  PROVE  disk = stored
<1>1. disk \in Contents /\ stored \in Contents BY DEF TypeOK, Contents, Positions
<1>2. \A k \in Positions : disk[k] = stored[k] BY DEF Content, Under
<1>3. QED BY <1>1, <1>2 DEF Contents

------------------------------------------------------------------------------
\* A call that only moves the position within the file, or not at all.
LEMMA MoveKeeps ==
  ASSUME Inv, ptrlow' \in 0 .. size \/ ptrlow' = ptrlow,
         UNCHANGED <<file, opened, place, buffer, endsize, bufferwrite, stored, sound, spoiled>>,
         last' \in [at : -1 .. MaxSize, byte : Byte], ReadsAreCurrent'
  PROVE  Inv'
<1> USE DEF file, place
<1>1. TypeOK /\ Shape BY DEF Inv
<1>2. TypeOK'
  <2>1. ptrlow' \in 0 .. MaxSize BY <1>1, Numbers
  <2>2. QED BY <1>1, <2>1 DEF TypeOK
<1>3. Shape'
  <2>1. ~bufferwrite => ptrlow' <= size BY <1>1, Numbers DEF Shape
  <2>2. QED BY <1>1, <2>1 DEF Shape, Buffered
<1>4. ASSUME ~spoiled' PROVE Content'
  <2>1. Content BY <1>4 DEF Inv
  <2>2. ptrlow' <= size \/ (bufferwrite /\ ptrlow' <= startptr + endsize)
    BY <1>1, <2>1, Numbers DEF Content
  <2>3. QED BY <2>1, <2>2 DEF Content, Buffered, Under, Exact
<1>5. QED BY <1>2, <1>3, <1>4 DEF Inv

\* Moving the position moves no byte.
LEMMA SeekKeeps ==
  ASSUME Inv, NEW to \in -1 .. MaxSize, fseek(to)
  PROVE  Inv'
<1>1. TypeOK BY DEF Inv
<1>2. ptrlow' \in 0 .. size BY <1>1, Numbers DEF fseek, Clamp
<1>3. QED BY <1>2, MoveKeeps, NoRead DEF fseek

\* A read at the end of the file returns nothing.
LEMMA ReadAtEndKeeps ==
  ASSUME Inv, ReadAtEnd
  PROVE  Inv'
<1>1. TypeOK /\ Shape BY DEF Inv
<1>2. last' = [at |-> ptrlow, byte |-> NoByte] BY DEF ReadAtEnd
<1>3. last' \in [at : -1 .. MaxSize, byte : Byte]
  <2>1. ptrlow \in -1 .. MaxSize BY <1>1, Numbers
  <2>2. QED BY <1>2, <2>1 DEF Byte
<1>4. ReadsAreCurrent'
  <2>1. SUFFICES ASSUME ~spoiled, ptrlow \in Positions, ~Unwritten'
                 PROVE  NoByte = stored'[ptrlow]
    BY <1>2 DEF ReadsAreCurrent, ReadAtEnd, Positions
  <2>2. ~bufferwrite
    BY <1>1, <2>1, UnwrittenIsFlag DEF ReadAtEnd, Unwritten, place, Buffered
  <2>3. Content BY <2>1 DEF Inv
  <2>4. disk = stored BY <1>1, <2>2, <2>3, CleanIsStored
  <2>5. ~(ptrlow < size) BY <1>1, Numbers DEF ReadAtEnd
  <2>6. disk[ptrlow] = NoByte BY <2>1, <2>3, <2>5 DEF Content, Exact
  <2>7. QED BY <2>4, <2>6 DEF ReadAtEnd
<1>5. QED BY <1>3, <1>4, MoveKeeps DEF ReadAtEnd

\* A read without a buffer asks the file system.
LEMMA ReadUnbufferedKeeps ==
  ASSUME Inv, ReadUnbuffered
  PROVE  Inv'
<1>1. TypeOK /\ Shape BY DEF Inv
<1>2. last' = [at |-> ptrlow, byte |-> disk[ptrlow]] /\ ptrlow \in Positions
      /\ ptrlow' \in 0 .. size
  BY <1>1, Numbers DEF ReadUnbuffered, Positions
<1>3. last' \in [at : -1 .. MaxSize, byte : Byte]
  <2>1. ptrlow \in -1 .. MaxSize BY <1>1, Numbers
  <2>2. disk[ptrlow] \in Byte BY <1>1, <1>2 DEF TypeOK, Positions
  <2>3. QED BY <1>2, <2>1, <2>2
<1>4. ReadsAreCurrent'
  <2>1. ASSUME ~spoiled PROVE disk[ptrlow] = stored'[ptrlow]
    <3>1. ~bufferwrite BY <1>1 DEF ReadUnbuffered, Shape
    <3>2. Content BY <2>1 DEF Inv
    <3>3. QED BY <1>1, <3>1, <3>2, CleanIsStored DEF ReadUnbuffered
  <2>2. QED BY <1>2, <2>1 DEF ReadsAreCurrent, ReadUnbuffered
<1>5. QED BY <1>2, <1>3, <1>4, MoveKeeps DEF ReadUnbuffered

\* A read whose bytes are all in the buffer.
LEMMA ReadInBufferKeeps ==
  ASSUME Inv, ReadInBuffer
  PROVE  Inv'
<1>1. TypeOK /\ Shape BY DEF Inv
<1> DEFINE k == ptrlow - startptr
<1>2. last' = [at |-> ptrlow, byte |-> buffer[k]] BY DEF ReadInBuffer
<1>3. k \in 0 .. endsize - 1 /\ k \in 0 .. MaxBuf - 1 /\ startptr + k = ptrlow
      /\ ptrlow' \in 0 .. size
  BY <1>1, Numbers DEF ReadInBuffer, InBuffer
<1>4. last' \in [at : -1 .. MaxSize, byte : Byte]
  <2>1. ptrlow \in -1 .. MaxSize BY <1>1, Numbers
  <2>2. buffer[k] \in Byte BY <1>1, <1>3 DEF TypeOK
  <2>3. QED BY <1>2, <2>1, <2>2
<1>5. ReadsAreCurrent'
  <2>1. ASSUME ~spoiled PROVE buffer[k] = stored'[ptrlow]
    <3>1. Content /\ Buffered BY <2>1 DEF Inv, ReadInBuffer
    <3>2. endsize <= sound
          /\ \A m \in 0 .. sound - 1 : buffer[m] = stored[startptr + m]
      BY <3>1 DEF Content
    <3>3. k \in 0 .. sound - 1 BY <1>1, <1>3, <3>2, Numbers
    <3>4. QED BY <1>3, <3>2, <3>3 DEF ReadInBuffer
  <2>2. QED BY <1>2, <2>1 DEF ReadsAreCurrent, ReadInBuffer
<1>6. QED BY <1>3, <1>4, <1>5, MoveKeeps DEF ReadInBuffer
------------------------------------------------------------------------------
One(c) == [m \in {0} |-> c]

\* One byte, as the functions that fputc and fgetc copy.
LEMMA OneIsByte ==
  ASSUME NEW c \in Bytes
  PROVE  \A m \in 0 .. 1 - 1 : One(c)[m] = c /\ One(c)[m] \in Byte /\ One(c)[m] # NoByte
<1>1. c \in Byte /\ c # NoByte BY FileAssumption DEF FileAssumption, Byte
<1>2. \A m \in 0 .. 1 - 1 : m = 0 OBVIOUS
<1>3. One(c)[0] = c BY DEF One
<1>4. QED BY <1>1, <1>2, <1>3

\* One byte written at a position.
LEMMA PatchedOne ==
  ASSUME NEW f \in Contents, NEW p \in Nat, NEW c \in Bytes
  PROVE  /\ Patched(f, p, 1, One(c)) \in Contents
         /\ \A k \in Positions : Patched(f, p, 1, One(c))[k] = IF k = p THEN c ELSE f[k]
<1>1. Patched(f, p, 1, One(c)) \in Contents BY OneIsByte, PatchedType
<1>2. ASSUME NEW k \in Positions
      PROVE  Patched(f, p, 1, One(c))[k] = IF k = p THEN c ELSE f[k]
  <2>1. k \in Int BY DEF Positions
  <2>2. CASE k = p
    <3>1. p <= k /\ k < p + 1 /\ k - p = 0 BY <2>2
    <3>2. Patched(f, p, 1, One(c))[k] = One(c)[0] BY <3>1 DEF Patched, Positions
    <3>3. QED BY <2>2, <3>2 DEF One
  <2>3. CASE k # p
    <3>1. ~(p <= k /\ k < p + 1) BY <2>1, <2>3
    <3>2. QED BY <2>3, <3>1 DEF Patched, Positions
  <2>4. QED BY <2>2, <2>3
<1>3. QED BY <1>1, <1>2

\* A write without a buffer goes to the file system.
LEMMA WriteUnbufferedKeeps ==
  ASSUME Inv, NEW c \in Bytes, WriteUnbuffered(c)
  PROVE  Inv'
<1>1. TypeOK /\ Shape BY DEF Inv
<1>2. ~Buffered /\ ~bufferwrite /\ opened /\ ptrlow <= size
  BY <1>1 DEF WriteUnbuffered, Shape
<1>3. CASE UNCHANGED <<file, ptrlow, stored>>
  BY <1>3, MoveKeeps, NoRead DEF WriteUnbuffered
<1>4. CASE /\ disk' = Patched(disk, ptrlow, 1, [k \in {0} |-> c])
           /\ size' = Grown(size, ptrlow, 1)
           /\ ptrlow' = ptrlow + 1
           /\ Written(ptrlow, 1, [k \in {0} |-> c])
  <2>1. /\ disk' = Patched(disk, ptrlow, 1, One(c))
        /\ stored' = Patched(stored, ptrlow, 1, One(c))
    BY <1>4 DEF Written, One
  <2>2. disk \in Contents /\ stored \in Contents /\ ptrlow \in Nat /\ size \in Nat
    BY <1>1, Numbers DEF TypeOK, Contents, Positions
  <2>3. disk' \in Contents /\ stored' \in Contents BY <2>1, <2>2, PatchedOne
  <2>4. /\ size' \in 0 .. MaxSize /\ size <= size' /\ ptrlow' <= size'
        /\ ptrlow' \in 0 .. MaxSize
    BY <1>1, <1>4, Numbers DEF WriteUnbuffered, Grown
  <2>5. TypeOK'
    BY <1>1, <2>3, <2>4, NoRead DEF TypeOK, WriteUnbuffered, Contents, Positions, place
  <2>6. Shape'
    <3>1. startptr' <= size' BY <1>1, <2>4, Numbers DEF Shape, WriteUnbuffered, place
    <3>2. ~Buffered' /\ opened' /\ ~bufferwrite'
      BY <1>2 DEF WriteUnbuffered, place, Buffered
    <3>3. QED BY <3>1, <3>2, <2>4 DEF Shape
  <2>7. ASSUME ~spoiled' PROVE Content'
    <3>1. Content BY <2>7 DEF Inv, WriteUnbuffered
    <3>2. disk' = stored' BY <1>1, <1>2, <2>1, <3>1, CleanIsStored
    <3>3. Exact(disk, size) BY <3>1 DEF Content
    <3>4. Exact(disk', size') BY <1>2, <1>4, <2>1, <2>2, <3>3, OneIsByte, PatchedExact
    <3>5. ~Buffered' BY <1>2 DEF WriteUnbuffered, place, Buffered
    <3>6. QED BY <2>4, <3>2, <3>4, <3>5 DEF Content, Exact
  <2>8. QED BY <2>5, <2>6, <2>7, NoRead DEF Inv, WriteUnbuffered
<1>5. QED BY <1>3, <1>4 DEF WriteUnbuffered

\* A write that stays in the buffer.
LEMMA WriteInBufferKeeps ==
  ASSUME Inv, NEW c \in Bytes, WriteInBuffer(c)
  PROVE  Inv'
<1> DEFINE relative == ptrlow - startptr
<1>1. TypeOK /\ Shape BY DEF Inv
<1>2. /\ opened /\ Buffered /\ ptrlow < MaxSize
      /\ startptr <= ptrlow /\ ptrlow < startptr + bufsize
      /\ buffer' = [buffer EXCEPT ![relative] = c]
      /\ endsize' = IF relative + 1 >= endsize THEN relative + 1 ELSE endsize
      /\ ptrlow' = ptrlow + 1 /\ bufferwrite' = TRUE
      /\ stored' = Patched(stored, ptrlow, 1, One(c))
      /\ sound' = IF relative = sound THEN sound + 1 ELSE sound
      /\ spoiled' = (spoiled \/ relative > sound)
      /\ UNCHANGED <<file, opened, place>>
  BY DEF WriteInBuffer, FitsBuffer, InRange, Written, One
<1>3. disk \in Contents /\ stored \in Contents /\ ptrlow \in Nat
  BY <1>1, Numbers DEF TypeOK, Contents, Positions
<1>4. /\ stored' \in Contents
      /\ \A k \in Positions : stored'[k] = IF k = ptrlow THEN c ELSE stored[k]
  BY <1>2, <1>3, PatchedOne
<1>5. startptr + endsize <= MaxSize /\ startptr + sound <= MaxSize
      /\ endsize <= bufsize /\ sound <= bufsize /\ startptr <= size
  BY <1>1, <1>2 DEF Shape
<1>6. /\ relative \in 0 .. bufsize - 1 /\ relative \in 0 .. MaxBuf - 1
      /\ startptr + relative = ptrlow
      /\ relative + 1 <= endsize' /\ endsize <= endsize'
      /\ endsize' <= bufsize /\ startptr + endsize' <= MaxSize
      /\ sound' <= bufsize /\ startptr + sound' <= MaxSize /\ sound <= sound'
      /\ endsize' \in 0 .. MaxBuf /\ sound' \in 0 .. MaxBuf /\ ptrlow' \in 0 .. MaxSize
      /\ ptrlow' <= startptr + endsize'
  BY <1>1, <1>2, <1>5, Numbers
<1>7. TypeOK'
  <2>1. c \in Byte BY DEF Byte
  <2>2. buffer' \in [0 .. MaxBuf - 1 -> Byte] BY <1>1, <1>2, <2>1 DEF TypeOK
  <2>3. spoiled' \in BOOLEAN BY <1>2
  <2>4. last' \in [at : -1 .. MaxSize, byte : Byte] BY NoRead DEF WriteInBuffer
  <2>5. QED BY <1>1, <1>2, <1>4, <1>6, <2>2, <2>3, <2>4
           DEF TypeOK, Contents, Positions, file, place
<1>8. Shape'
  <2>1. endsize' > 0 BY <1>1, <1>6, Numbers
  <2>2. Buffered' /\ opened' /\ bufsize' = bufsize /\ startptr' = startptr /\ size' = size
    BY <1>2 DEF Buffered, place, file
  <2>3. bufsize > 0 BY <1>1, <1>2 DEF Shape
  <2>4. QED BY <1>2, <1>5, <1>6, <2>1, <2>2, <2>3 DEF Shape
<1>9. ASSUME ~spoiled' PROVE Content'
  <2>1. Content /\ ~(relative > sound) BY <1>2, <1>9 DEF Inv
  <2>2. UNCHANGED <<disk, size, startptr, Buffered>> BY <1>2 DEF file, place, Buffered
  <2>3. endsize <= sound /\ \A k \in 0 .. sound - 1 :
                              buffer[k] = stored[startptr + k] /\ buffer[k] # NoByte
    BY <1>2, <2>1 DEF Content
  <2>4. endsize' <= sound' BY <1>1, <1>2, <1>6, <2>1, <2>3, Numbers
  <2>a. PICK m : m = sound' OBVIOUS
  <2>5. ASSUME NEW k \in 0 .. m - 1
        PROVE  buffer'[k] = stored'[startptr + k] /\ buffer'[k] # NoByte
    <3>1. startptr + k \in Positions /\ k \in 0 .. MaxBuf - 1
      <4>1. /\ startptr \in Nat /\ bufsize \in Nat /\ bufsize <= MaxBuf
            /\ MaxSize \in Nat /\ MaxBuf \in Nat
        BY <1>1, Numbers
      <4>2. m \in 0 .. MaxBuf /\ m <= bufsize /\ startptr + m <= MaxSize BY <1>6, <2>a
      <4>3. QED BY <4>1, <4>2 DEF Positions
    <3>2. CASE k = relative
      <4>1. buffer'[k] = c BY <1>1, <1>2, <3>1, <3>2 DEF TypeOK
      <4>2. stored'[startptr + k] = c BY <1>4, <1>6, <3>1, <3>2
      <4>3. c # NoByte BY FileAssumption DEF FileAssumption
      <4>4. QED BY <4>1, <4>2, <4>3
    <3>3. CASE k # relative
      <4>1. buffer'[k] = buffer[k] BY <1>1, <1>2, <3>1, <3>3 DEF TypeOK
      <4>2. startptr + k # ptrlow BY <1>1, <3>3, Numbers
      <4>3. stored'[startptr + k] = stored[startptr + k] BY <1>4, <3>1, <4>2
      <4>4. k \in 0 .. sound - 1
        <5>1. m = IF relative = sound THEN sound + 1 ELSE sound BY <1>2, <2>a
        <5>2. QED BY <1>1, <3>3, <5>1, Numbers
      <4>5. QED BY <2>3, <4>1, <4>3, <4>4
    <3>4. QED BY <3>2, <3>3
  <2>6. ASSUME NEW k \in Positions PROVE Under(k)' \/ disk'[k] = stored'[k]
    <3>1. k \in Int BY DEF Positions
    <3>2. CASE k = ptrlow
      <4>1. startptr <= k /\ k < startptr + endsize' BY <1>1, <1>6, <3>2, Numbers
      <4>2. QED BY <1>2, <2>2, <4>1 DEF Under
    <3>3. CASE k # ptrlow
      <4>1. stored'[k] = stored[k] BY <1>4, <3>3
      <4>2. CASE Under(k)
        <5>1. startptr <= k /\ k < startptr + endsize'
          BY <1>1, <1>6, <3>1, <4>2, Numbers DEF Under
        <5>2. QED BY <1>2, <2>2, <5>1 DEF Under
      <4>3. CASE ~Under(k) BY <2>1, <2>2, <4>1, <4>3 DEF Content
      <4>4. QED BY <4>2, <4>3
    <3>4. QED BY <3>2, <3>3
  <2>7. Exact(disk, size)' BY <2>1, <2>2 DEF Content, Exact
  <2>8. ptrlow' <= startptr' + endsize' BY <1>6, <2>2
  <2>9. QED BY <1>2, <2>2, <2>4, <2>a, <2>5, <2>6, <2>7, <2>8 DEF Content, Exact
<1>10. QED BY <1>7, <1>8, <1>9, NoRead DEF Inv, WriteInBuffer

\* A write outside the buffer flushes it and loads another part of the file first.
LEMMA WriteElsewhereKeeps ==
  ASSUME Inv, NEW c \in Bytes, WriteElsewhere(c)
  PROVE  Inv'
<1>1. TypeOK /\ Shape BY DEF Inv
<1>2. PICK full \in BOOLEAN :
        /\ MayFlush(full)
        /\ disk' = FlushedDisk(full) /\ size' = FlushedSize(full)
        /\ startptr' = FlushedPos(full)
        /\ spoiled' = (spoiled \/ full)
  BY DEF WriteElsewhere
<1>3. /\ opened /\ Buffered /\ ptrlow < MaxSize
      /\ buffer' = [buffer EXCEPT ![0] = c] /\ endsize' = 1 /\ bufferwrite' = TRUE
      /\ ptrlow' = ptrlow + 1 /\ stored' = Patched(stored, ptrlow, 1, One(c))
      /\ sound' = 1
      /\ UNCHANGED <<opened, buffertype, bufsize>>
  BY DEF WriteElsewhere, Written, One
<1>4. /\ disk' \in Contents /\ size' \in 0 .. MaxSize
      /\ startptr' \in 0 .. ptrlow /\ startptr' <= size'
  BY <1>1, <1>2, FlushType
<1>5. stored \in Contents /\ ptrlow \in Nat
  BY <1>1, Numbers DEF TypeOK, Contents, Positions
<1>6. /\ stored' \in Contents
      /\ \A k \in Positions : stored'[k] = IF k = ptrlow THEN c ELSE stored[k]
  BY <1>3, <1>5, PatchedOne
<1>7. /\ bufsize > 0 /\ 1 \in 0 .. MaxBuf /\ 0 \in 0 .. MaxBuf - 1 /\ 1 <= bufsize
      /\ ptrlow' \in 0 .. MaxSize
      /\ startptr' \in 0 .. MaxSize /\ startptr' + 1 <= MaxSize
  <2>1. bufsize > 0 BY <1>1, <1>3 DEF Shape
  <2>2. QED BY <1>1, <1>3, <1>4, <2>1, Numbers
<1>8. buffer'[0] = c BY <1>1, <1>3, <1>7 DEF TypeOK
<1>9. TypeOK'
  <2>1. c \in Byte BY DEF Byte
  <2>2. buffer' \in [0 .. MaxBuf - 1 -> Byte] BY <1>1, <1>3, <2>1 DEF TypeOK
  <2>3. spoiled' \in BOOLEAN BY <1>2
  <2>4. last' \in [at : -1 .. MaxSize, byte : Byte] BY NoRead DEF WriteElsewhere
  <2>5. QED BY <1>1, <1>3, <1>4, <1>6, <1>7, <2>2, <2>3, <2>4
           DEF TypeOK, Contents, Positions
<1>10. Shape' BY <1>3, <1>4, <1>7 DEF Shape, Buffered
<1>11. ASSUME ~spoiled' PROVE Content'
  <2>1. Content /\ ~full BY <1>2, <1>11 DEF Inv
  <2>2. disk' = stored /\ Exact(stored, size') /\ startptr' = ptrlow
    BY <1>1, <1>2, <2>1, FlushContent
  <2>3. ptrlow \in Positions BY <1>1, <1>3, Numbers DEF Positions
  <2>4. ASSUME NEW k \in 0 .. sound' - 1
        PROVE  buffer'[k] = stored'[startptr' + k] /\ buffer'[k] # NoByte
    <3>1. k = 0 /\ startptr' + k = ptrlow BY <1>3, <1>5, <2>2
    <3>2. c # NoByte BY FileAssumption DEF FileAssumption
    <3>3. QED BY <1>6, <1>8, <2>3, <3>1, <3>2
  <2>5. ASSUME NEW k \in Positions PROVE Under(k)' \/ disk'[k] = stored'[k]
    <3>1. CASE k = ptrlow
      <4>1. startptr' <= k /\ k < startptr' + endsize' BY <1>3, <1>5, <2>2, <3>1
      <4>2. QED BY <1>3, <4>1 DEF Under
    <3>2. CASE k # ptrlow BY <1>6, <2>2, <3>2
    <3>3. QED BY <3>1, <3>2
  <2>6. Exact(disk, size)' BY <2>2 DEF Exact
  <2>7. ptrlow' <= startptr' + endsize' /\ endsize' <= sound' BY <1>3, <1>5, <2>2
  <2>8. QED BY <1>3, <2>4, <2>5, <2>6, <2>7 DEF Content, Exact
<1>12. QED BY <1>9, <1>10, <1>11, NoRead DEF Inv, WriteElsewhere
------------------------------------------------------------------------------
\* What a flush that keeps the buffer in its place leaves.
LEMMA FlushedShape ==
  ASSUME TypeOK, Shape, NEW full \in BOOLEAN, FlushFirst(full)
  PROVE  bufferwrite' = FALSE /\ endsize' \in 0 .. endsize /\ endsize' \in 0 .. MaxBuf
<1>1. FlushedEnd \in 0 .. endsize BY FlushType
<1>2. endsize' = FlushedEnd /\ bufferwrite' = FALSE BY UnwrittenIsFlag DEF FlushFirst
<1>3. QED BY <1>1, <1>2, Numbers

\* fflush, and the part of a large read that changes the state.
LEMMA FlushKeeps ==
  ASSUME Inv, opened, NEW full \in BOOLEAN, FlushFirst(full),
         disk' = FlushedDisk(full), size' = FlushedSize(full),
         ptrlow' \in 0 .. size', spoiled' = (spoiled \/ full),
         last' \in [at : -1 .. MaxSize, byte : Byte], ReadsAreCurrent',
         UNCHANGED <<opened, place, buffer, stored, sound>>
  PROVE  Inv'
<1>1. TypeOK /\ Shape BY DEF Inv
<1>2. bufferwrite' = FALSE /\ endsize' \in 0 .. endsize /\ endsize' \in 0 .. MaxBuf
  BY <1>1, FlushedShape
<1>3. disk' \in Contents /\ size' \in 0 .. MaxSize /\ size <= size'
  BY <1>1, FlushType
<1>4. ptrlow' \in 0 .. MaxSize /\ ptrlow' <= size' BY <1>1, <1>3, Numbers
<1>5. TypeOK'
  BY <1>1, <1>2, <1>3, <1>4 DEF TypeOK, Contents, Positions, place
<1>6. Shape'
  <2>1. UNCHANGED <<Buffered, startptr, bufsize, sound, opened>> BY DEF place, Buffered
  <2>2. startptr' <= size' BY <1>1, <1>3, <2>1, Numbers DEF Shape
  <2>3. Buffered => startptr + endsize' <= MaxSize /\ endsize' <= bufsize
    BY <1>1, <1>2, Numbers DEF Shape
  <2>4. QED BY <1>1, <1>2, <1>4, <2>1, <2>2, <2>3 DEF Shape
<1>7. ASSUME ~spoiled' PROVE Content'
  <2>1. Content /\ ~full /\ MayFlush(full) BY <1>7 DEF Inv, FlushFirst
  <2>2. disk' = stored' /\ Exact(stored, size') BY <1>1, <2>1, FlushContent
  <2>3. UNCHANGED <<Buffered, startptr, sound, buffer, stored>> BY DEF place, Buffered
  <2>4. Buffered => endsize' <= sound BY <1>1, <1>2, <2>1, Numbers DEF Content
  <2>5. QED BY <1>4, <2>1, <2>2, <2>3, <2>4 DEF Content, Exact
<1>8. QED BY <1>5, <1>6, <1>7 DEF Inv

\* The buffer is written out, and what is beyond it stays.
LEMMA FflushKeeps ==
  ASSUME Inv, fflush
  PROVE  Inv'
<1>1. TypeOK /\ Shape BY DEF Inv
<1>2. PICK full \in BOOLEAN :
        /\ FlushFirst(full)
        /\ disk' = FlushedDisk(full) /\ size' = FlushedSize(full)
        /\ ptrlow' = FlushedPos(full)
        /\ spoiled' = (spoiled \/ full)
  BY DEF fflush
<1>3. ptrlow' \in 0 .. size' BY <1>1, <1>2, FlushType, Numbers
<1>4. QED BY <1>2, <1>3, FlushKeeps, NoRead DEF fflush

\* A read larger than the buffer goes around it, after a flush.
LEMMA ReadLargeKeeps ==
  ASSUME Inv, NEW n \in LargeSizes, ReadLarge(n)
  PROVE  Inv'
<1>1. TypeOK /\ Shape BY DEF Inv
<1> DEFINE end(full) == IF FlushedPos(full) + n >= FlushedSize(full)
                        THEN FlushedSize(full) ELSE FlushedPos(full) + n
<1>2. PICK full \in BOOLEAN :
        /\ FlushFirst(full)
        /\ disk' = FlushedDisk(full) /\ size' = FlushedSize(full)
        /\ ptrlow' = end(full)
        /\ spoiled' = (spoiled \/ full)
        /\ \/ \E k \in FlushedPos(full) .. end(full) - 1 :
                 last' = [at |-> k, byte |-> disk'[k]]
           \/ FlushedPos(full) = end(full)
              /\ last' = [at |-> FlushedPos(full), byte |-> NoByte]
  BY DEF ReadLarge
<1>3. n \in Nat \ {0} BY FileAssumption DEF LargeSizes, FileAssumption
<1>4. /\ disk' \in Contents /\ size' \in 0 .. MaxSize
      /\ FlushedPos(full) \in 0 .. MaxSize /\ FlushedPos(full) <= size'
  BY <1>1, <1>2, FlushType, Numbers
<1>a. PICK next : next = end(full) OBVIOUS
<1>b. next = IF FlushedPos(full) + n >= size' THEN size' ELSE FlushedPos(full) + n
  BY <1>a, <1>2
<1>c. MaxSize \in Nat /\ size' \in Nat /\ FlushedPos(full) \in Nat BY <1>1, <1>4, Numbers
<1>5. ptrlow' = next /\ next \in 0 .. size' BY <1>2, <1>a, <1>b, <1>c, <1>3
<1>6. stored' = stored /\ UNCHANGED <<opened, place, buffer, stored, sound>> /\ opened
  BY DEF ReadLarge
<1>7. ASSUME ~spoiled'
      PROVE  disk' = stored' /\ Exact(stored, size')
  <2>1. Content /\ ~full /\ MayFlush(full) BY <1>2, <1>7 DEF Inv, FlushFirst
  <2>2. QED BY <1>1, <1>2, <1>6, <2>1, FlushContent
<1>8. last' \in [at : -1 .. MaxSize, byte : Byte] /\ ReadsAreCurrent'
  <2>1. CASE \E k \in FlushedPos(full) .. next - 1 :
               last' = [at |-> k, byte |-> disk'[k]]
    <3>1. PICK k \in FlushedPos(full) .. next - 1 :
            last' = [at |-> k, byte |-> disk'[k]]
      BY <2>1
    <3>2. k \in Positions /\ k \in -1 .. MaxSize
      BY <1>4, <1>5, <1>c DEF Positions
    <3>3. disk'[k] \in Byte BY <1>4, <3>2 DEF Contents
    <3>4. last' \in [at : -1 .. MaxSize, byte : Byte] BY <3>1, <3>2, <3>3
    <3>5. ReadsAreCurrent' BY <1>7, <3>1 DEF ReadsAreCurrent
    <3>6. QED BY <3>4, <3>5
  <2>2. CASE FlushedPos(full) = next
             /\ last' = [at |-> FlushedPos(full), byte |-> NoByte]
    <3>1. FlushedPos(full) = size'
      <4>1. FlushedPos(full) = next BY <2>2
      <4>2. CASE FlushedPos(full) + n >= size' BY <1>b, <4>1, <4>2
      <4>3. CASE ~(FlushedPos(full) + n >= size')
        <5>1. next = FlushedPos(full) + n BY <1>b, <4>3
        <5>2. FALSE BY <1>3, <1>c, <4>1, <5>1
        <5>3. QED BY <5>2
      <4>4. QED BY <4>2, <4>3
    <3>2. last' = [at |-> size', byte |-> NoByte] BY <2>2, <3>1
    <3>3. size' \in -1 .. MaxSize /\ ~(size' < size') BY <1>4
    <3>4. last' \in [at : -1 .. MaxSize, byte : Byte] BY <3>2, <3>3 DEF Byte
    <3>5. ASSUME ~spoiled', size' \in Positions PROVE stored'[size'] = NoByte
      BY <1>6, <1>7, <3>3, <3>5 DEF Exact
    <3>6. ReadsAreCurrent' BY <3>2, <3>5 DEF ReadsAreCurrent, Positions
    <3>7. QED BY <3>4, <3>6
  <2>3. QED BY <1>2, <1>a, <2>1, <2>2
<1>9. QED BY <1>2, <1>5, <1>6, <1>8, FlushKeeps

\* A read outside the buffer flushes it and loads another part of the file first.
LEMMA ReadElsewhereKeeps ==
  ASSUME Inv, ReadElsewhere
  PROVE  Inv'
<1>1. TypeOK /\ Shape BY DEF Inv
<1>a. PICK n : n = IF size' - ptrlow < bufsize THEN size' - ptrlow ELSE bufsize OBVIOUS
<1>b. PICK s : s = size' OBVIOUS
<1>c. n = IF s - ptrlow < bufsize THEN s - ptrlow ELSE bufsize BY <1>a, <1>b, Zenon
<1>2. PICK full \in BOOLEAN :
        /\ MayFlush(full)
        /\ disk' = FlushedDisk(full) /\ size' = FlushedSize(full)
        /\ spoiled' = (spoiled \/ full)
  BY DEF ReadElsewhere
<1>3. /\ opened /\ Buffered /\ ptrlow < size
      /\ buffer' = [k \in 0 .. MaxBuf - 1 |-> IF k < n THEN disk'[ptrlow + k] ELSE buffer[k]]
      /\ endsize' = n /\ sound' = n /\ startptr' = ptrlow
      /\ last' = [at |-> ptrlow, byte |-> disk'[ptrlow]]
      /\ ptrlow' = ptrlow + 1
      /\ UNCHANGED <<opened, buffertype, bufsize, stored>>
  BY <1>a DEF ReadElsewhere
<1>4. bufferwrite' = FALSE BY <1>1, UnwrittenIsFlag DEF ReadElsewhere
<1>5. disk' \in Contents /\ size' \in 0 .. MaxSize /\ size <= size'
  BY <1>1, <1>2, FlushType
<1>6. /\ n \in 1 .. MaxBuf /\ n <= bufsize /\ ptrlow + n <= size' /\ ptrlow + n <= MaxSize
      /\ ptrlow' \in 0 .. MaxSize /\ ptrlow' <= size' /\ ptrlow \in Positions
      /\ ptrlow \in 0 .. MaxSize /\ ptrlow <= size' /\ ptrlow \in -1 .. MaxSize
  <2>1. bufsize > 0 BY <1>1, <1>3 DEF Shape
  <2>2. /\ bufsize \in Nat /\ bufsize <= MaxBuf /\ MaxBuf \in Nat /\ MaxSize \in Nat
        /\ ptrlow \in Nat /\ size \in Nat /\ ptrlow < size
    BY <1>1, <1>3, Numbers
  <2>3. s \in 0 .. MaxSize /\ size <= s BY <1>5, <1>b
  <2>4. /\ n \in 1 .. MaxBuf /\ n <= bufsize /\ ptrlow + n <= s /\ ptrlow + n <= MaxSize
        /\ ptrlow + 1 \in 0 .. MaxSize /\ ptrlow + 1 <= s /\ ptrlow <= s
    BY <1>c, <2>1, <2>2, <2>3
  <2>5. QED BY <1>3, <1>b, <2>2, <2>4, Numbers, <1>1 DEF Positions
<1>7. ASSUME NEW k \in 0 .. n - 1
      PROVE  k \in 0 .. MaxBuf - 1 /\ buffer'[k] = disk'[ptrlow + k]
             /\ ptrlow + k \in Positions /\ ptrlow + k < size'
  <2>1. k \in 0 .. MaxBuf - 1 /\ k < n /\ ptrlow + k \in Positions /\ ptrlow + k < size'
    <3>1. n \in Nat /\ n <= MaxBuf /\ MaxBuf \in Nat /\ MaxSize \in Nat
          /\ ptrlow \in Nat /\ ptrlow + n <= size' /\ ptrlow + n <= MaxSize
          /\ size' \in Nat
      <4>1. MaxBuf \in Nat /\ MaxSize \in Nat /\ ptrlow \in Nat BY <1>1, Numbers
      <4>2. size' \in Nat BY <1>5, <4>1
      <4>3. QED BY <1>6, <4>1, <4>2
    <3>2. k \in Nat /\ k < n BY <3>1
    <3>3. QED BY <3>1, <3>2 DEF Positions
  <2>2. QED BY <1>3, <2>1
<1>8. disk'[ptrlow] \in Byte BY <1>5, <1>6 DEF Contents
<1>9. last' \in [at : -1 .. MaxSize, byte : Byte] BY <1>3, <1>6, <1>8
<1>10. TypeOK'
  <2>1. buffer' \in [0 .. MaxBuf - 1 -> Byte]
    <3>1. ASSUME NEW k \in 0 .. MaxBuf - 1
          PROVE  (IF k < n THEN disk'[ptrlow + k] ELSE buffer[k]) \in Byte
      <4>1. CASE k < n
        <5>1. k \in 0 .. n - 1 BY <1>6, <4>1
        <5>2. disk'[ptrlow + k] \in Byte BY <1>5, <1>7, <5>1 DEF Contents
        <5>3. QED BY <4>1, <5>2
      <4>2. CASE ~(k < n) BY <1>1, <4>2 DEF TypeOK
      <4>3. QED BY <4>1, <4>2
    <3>2. QED BY <1>3, <3>1
  <2>2. endsize' \in 0 .. MaxBuf /\ sound' \in 0 .. MaxBuf BY <1>3, <1>6
  <2>3. QED BY <1>1, <1>2, <1>3, <1>4, <1>5, <1>6, <1>9, <2>1, <2>2
           DEF TypeOK, Contents, Positions
<1>11. Shape'
  <2>1. bufsize > 0 BY <1>1, <1>3 DEF Shape
  <2>2. Buffered' BY <1>3 DEF Buffered
  <2>3. startptr' + endsize' <= MaxSize /\ startptr' + sound' <= MaxSize
        /\ endsize' <= bufsize' /\ sound' <= bufsize' /\ startptr' <= size'
    BY <1>3, <1>6
  <2>4. QED BY <1>3, <1>4, <1>6, <2>1, <2>2, <2>3 DEF Shape
<1>12. ASSUME ~spoiled' PROVE disk' = stored' /\ Exact(stored, size')
  <2>1. Content /\ ~full BY <1>2, <1>12 DEF Inv
  <2>2. QED BY <1>1, <1>2, <1>3, <2>1, FlushContent
<1>13. ASSUME ~spoiled' PROVE Content'
  <2>1. disk' = stored' /\ stored' = stored /\ Exact(stored, size')
    BY <1>3, <1>12, <1>13
  <2>2. ASSUME NEW k \in 0 .. sound' - 1
        PROVE  buffer'[k] = stored'[startptr' + k] /\ buffer'[k] # NoByte
    <3>1. k \in 0 .. n - 1 /\ startptr' = ptrlow BY <1>3
    <3>2. QED BY <1>7, <2>1, <3>1 DEF Exact
  <2>3. endsize' <= sound' BY <1>3, <1>6
  <2>4. QED BY <1>6, <2>1, <2>2, <2>3 DEF Content, Exact
<1>14. ReadsAreCurrent' BY <1>3, <1>12 DEF ReadsAreCurrent
<1>15. QED BY <1>9, <1>10, <1>11, <1>13, <1>14 DEF Inv
------------------------------------------------------------------------------
\* A write larger than the buffer goes around it, after a flush.
LEMMA WriteLargeKeeps ==
  ASSUME Inv, NEW n \in LargeSizes, NEW b \in [0 .. n - 1 -> Bytes], WriteLarge(n, b)
  PROVE  Inv'
<1>1. TypeOK /\ Shape BY DEF Inv
<1>2. PICK full \in BOOLEAN :
        /\ FlushFirst(full)
        /\ \/ /\ disk' = Patched(FlushedDisk(full), FlushedPos(full), n, b)
              /\ size' = Grown(FlushedSize(full), FlushedPos(full), n)
              /\ ptrlow' = FlushedPos(full) + n
              /\ Written(FlushedPos(full), n, b)
              /\ sound' = IF FlushedPos(full) < startptr /\ FlushedPos(full) + n > startptr
                          THEN 0 ELSE StillSound(FlushedPos(full))
           \/ /\ disk' = FlushedDisk(full) /\ size' = FlushedSize(full)
              /\ ptrlow' = FlushedPos(full)
              /\ UNCHANGED <<stored, sound>>
        /\ spoiled' = (spoiled \/ full \/ (Buffered /\ endsize' > sound'))
  BY DEF WriteLarge
<1>3. UNCHANGED <<opened, place, buffer>> /\ opened /\ last' = Nothing
      /\ ptrlow + n <= MaxSize
  BY DEF WriteLarge
<1>4. n \in Nat BY FileAssumption DEF LargeSizes, FileAssumption
<1>5. PICK p : p = FlushedPos(full) OBVIOUS
<1>6. /\ FlushedDisk(full) \in Contents /\ FlushedSize(full) \in 0 .. MaxSize
      /\ size <= FlushedSize(full) /\ p \in 0 .. ptrlow /\ p <= FlushedSize(full)
  BY <1>1, <1>5, FlushType
<1>7. bufferwrite' = FALSE /\ endsize' \in 0 .. endsize /\ endsize' \in 0 .. MaxBuf
  BY <1>1, <1>2, FlushedShape
<1>8. ASSUME ~spoiled'
      PROVE  /\ Content /\ FlushedDisk(full) = stored
             /\ Exact(stored, FlushedSize(full))
             /\ Buffered => ~(endsize' > sound')
  <2>1. Content /\ ~full /\ MayFlush(full) BY <1>2, <1>8 DEF Inv, FlushFirst
  <2>2. QED BY <1>1, <1>2, <1>8, <2>1, FlushContent
<1>9. UNCHANGED <<Buffered, startptr, bufsize, buffer>> BY <1>3 DEF place, Buffered
<1>10. \* What has to be shown of the two outcomes.
  ASSUME disk' \in Contents, stored' \in Contents, size' \in 0 .. MaxSize, size <= size',
         ptrlow' \in 0 .. MaxSize, ptrlow' <= size', sound' \in 0 .. sound,
         ~spoiled' => /\ disk' = stored' /\ Exact(stored', size')
                      /\ Buffered => \A k \in 0 .. sound' - 1 :
                           buffer[k] = stored'[startptr + k] /\ buffer[k] # NoByte
  PROVE  Inv'
  <2>1. sound' \in 0 .. MaxBuf BY <1>1, <1>10, Numbers
  <2>2. TypeOK'
    BY <1>1, <1>2, <1>3, <1>7, <1>10, <2>1, NoRead DEF TypeOK, Contents, Positions, place
  <2>3. Shape'
    <3>1. startptr' <= size' BY <1>1, <1>9, <1>10, Numbers DEF Shape
    <3>2. Buffered => /\ startptr + endsize' <= MaxSize /\ startptr + sound' <= MaxSize
                      /\ endsize' <= bufsize /\ sound' <= bufsize
      <4>1. ASSUME Buffered PROVE /\ startptr + endsize <= MaxSize
                                  /\ startptr + sound <= MaxSize
                                  /\ endsize <= bufsize /\ sound <= bufsize
        BY <1>1, <4>1 DEF Shape
      <4>2. QED BY <1>1, <1>7, <1>10, <4>1, Numbers
    <3>3. opened /\ Buffered => bufsize > 0 BY <1>1 DEF Shape
    <3>4. QED BY <1>3, <1>7, <1>9, <1>10, <3>1, <3>2, <3>3 DEF Shape
  <2>4. ASSUME ~spoiled' PROVE Content'
    <3>1. Buffered => endsize' <= sound' BY <1>7, <1>8, <1>10, <2>4, <2>1, <1>1, Numbers
    <3>2. QED BY <1>9, <1>10, <2>4, <3>1 DEF Content, Exact
  <2>5. QED BY <1>3, <2>2, <2>3, <2>4, NoRead DEF Inv
<1>11. CASE /\ disk' = FlushedDisk(full) /\ size' = FlushedSize(full)
            /\ ptrlow' = FlushedPos(full)
            /\ UNCHANGED <<stored, sound>>
  <2>1. disk' \in Contents /\ stored' \in Contents
    BY <1>1, <1>6, <1>11 DEF TypeOK, Contents, Positions
  <2>2. /\ size' \in 0 .. MaxSize /\ size <= size' /\ ptrlow' \in 0 .. MaxSize
        /\ ptrlow' <= size' /\ sound' \in 0 .. sound
    <3>1. ptrlow' = p /\ size' = FlushedSize(full) /\ sound' = sound BY <1>5, <1>11
    <3>2. QED BY <1>1, <1>6, <3>1, Numbers
  <2>3. ASSUME ~spoiled'
        PROVE  /\ disk' = stored' /\ Exact(stored', size')
               /\ Buffered => \A k \in 0 .. sound' - 1 :
                    buffer[k] = stored'[startptr + k] /\ buffer[k] # NoByte
    BY <1>8, <1>11, <2>3 DEF Content
  <2>4. QED BY <1>10, <2>1, <2>2, <2>3
<1>12. CASE /\ disk' = Patched(FlushedDisk(full), FlushedPos(full), n, b)
            /\ size' = Grown(FlushedSize(full), FlushedPos(full), n)
            /\ ptrlow' = FlushedPos(full) + n
            /\ Written(FlushedPos(full), n, b)
            /\ sound' = IF FlushedPos(full) < startptr /\ FlushedPos(full) + n > startptr
                        THEN 0 ELSE StillSound(FlushedPos(full))
  <2>1. /\ disk' = Patched(FlushedDisk(full), p, n, b)
        /\ stored' = Patched(stored, p, n, b)
        /\ size' = Grown(FlushedSize(full), p, n) /\ ptrlow' = p + n
        /\ sound' = IF p < startptr /\ p + n > startptr THEN 0
                    ELSE IF p \in startptr .. startptr + sound - 1 THEN p - startptr ELSE sound
    BY <1>5, <1>12 DEF Written, StillSound
  <2>2. p \in Nat /\ FlushedSize(full) \in Nat /\ p <= ptrlow
    BY <1>1, <1>6, Numbers
  <2>3. \A k \in 0 .. n - 1 : b[k] \in Byte /\ b[k] # NoByte
    <3>1. \A k \in 0 .. n - 1 : b[k] \in Bytes OBVIOUS
    <3>2. QED BY <3>1, FileAssumption DEF FileAssumption, Byte
  <2>4. stored \in Contents BY <1>1 DEF TypeOK, Contents, Positions
  <2>5. disk' \in Contents /\ stored' \in Contents
    BY <1>4, <1>6, <2>1, <2>2, <2>3, <2>4, PatchedType
  <2>6. /\ size' \in 0 .. MaxSize /\ size <= size' /\ ptrlow' \in 0 .. MaxSize
        /\ ptrlow' <= size'
    BY <1>1, <1>3, <1>4, <1>6, <2>1, <2>2, Numbers DEF Grown
  <2>7. sound' \in 0 .. sound
    BY <1>1, <2>1, <2>2, Numbers
  <2>8. ASSUME ~spoiled'
        PROVE  /\ disk' = stored' /\ Exact(stored', size')
               /\ Buffered => \A k \in 0 .. sound' - 1 :
                    buffer[k] = stored'[startptr + k] /\ buffer[k] # NoByte
    <3>1. disk' = stored' BY <1>8, <2>1, <2>8
    <3>2. Exact(stored', size')
      BY <1>4, <1>6, <1>8, <2>1, <2>2, <2>3, <2>8, PatchedExact
    <3>3. PICK m : m = sound' OBVIOUS
    <3>4. m \in 0 .. sound /\ m = IF p < startptr /\ p + n > startptr THEN 0
                    ELSE IF p \in startptr .. startptr + sound - 1 THEN p - startptr ELSE sound
      BY <2>1, <2>7, <3>3
    <3>5. ASSUME Buffered, NEW k \in 0 .. m - 1
          PROVE  buffer[k] = stored'[startptr + k] /\ buffer[k] # NoByte
      <4>1. k \in 0 .. sound - 1 /\ ~(p <= startptr + k /\ startptr + k < p + n)
        <5>1. startptr \in Nat /\ sound \in Nat /\ p \in Nat /\ n \in Nat /\ k \in Nat
          BY <1>1, <1>4, <2>2, <3>4, <3>5, Numbers
        <5>2. CASE p < startptr /\ p + n > startptr
          <6>1. m = 0 BY <3>4, <5>2
          <6>2. QED BY <3>5, <6>1
        <5>3. CASE p \in startptr .. startptr + sound - 1
          <6>1. m = p - startptr BY <3>4, <5>1, <5>3
          <6>2. QED BY <3>5, <5>1, <5>3, <6>1
        <5>4. CASE /\ ~(p < startptr /\ p + n > startptr)
                   /\ p \notin startptr .. startptr + sound - 1
          <6>1. m = sound BY <3>4, <5>4
          <6>2. QED BY <3>5, <5>1, <5>4, <6>1
        <5>5. QED BY <5>2, <5>3, <5>4
      <4>2. startptr + sound <= MaxSize BY <1>1, <3>5 DEF Shape
      <4>3. startptr + k \in Positions BY <1>1, <4>1, <4>2, Numbers DEF Positions
      <4>4. stored'[startptr + k] = stored[startptr + k]
        BY <2>1, <4>1, <4>3 DEF Patched, Positions
      <4>5. QED BY <1>8, <2>8, <3>5, <4>1, <4>4 DEF Content
    <3>6. QED BY <3>1, <3>2, <3>3, <3>5
  <2>9. QED BY <1>10, <2>5, <2>6, <2>7, <2>8
<1>13. QED BY <1>2, <1>11, <1>12

\* A buffer of another size, after the old one is flushed.
LEMMA SetBufferKeeps ==
  ASSUME Inv, NEW mode \in Modes, NEW n \in BufSizes, vfs_setbuffer(mode, n)
  PROVE  Inv'
<1>1. TypeOK /\ Shape BY DEF Inv
<1>2. PICK full \in BOOLEAN :
        /\ MayFlush(full)
        /\ disk' = FlushedDisk(full) /\ size' = FlushedSize(full)
        /\ ptrlow' = FlushedPos(full)
        /\ spoiled' = (spoiled \/ full)
  BY DEF vfs_setbuffer
<1>3. /\ opened /\ buffertype' = mode /\ buffer' = NoBuffer /\ sound' = 0
      /\ startptr' = IF mode = "FILE_IONBF" THEN startptr ELSE ptrlow'
      /\ endsize' = IF mode = "FILE_IONBF" THEN FlushedEnd ELSE 0
      /\ bufsize' = IF mode = "FILE_IONBF" THEN 0 ELSE n
      /\ UNCHANGED <<opened, stored>>
  BY DEF vfs_setbuffer
<1>4. bufferwrite' = FALSE BY <1>1, UnwrittenIsFlag DEF vfs_setbuffer
<1>5. /\ disk' \in Contents /\ size' \in 0 .. MaxSize /\ size <= size'
      /\ ptrlow' \in 0 .. MaxSize /\ ptrlow' <= size'
      /\ FlushedEnd \in 0 .. MaxBuf
  BY <1>1, <1>2, FlushType, Numbers
<1>6. n \in 1 .. MaxBuf /\ 0 \in 0 .. MaxBuf /\ MaxBuf \in Nat
  BY FileAssumption DEF FileAssumption
<1>7. startptr' \in 0 .. MaxSize /\ startptr' <= size'
  <2>1. startptr \in 0 .. MaxSize /\ startptr <= size' /\ ptrlow' <= size'
    BY <1>1, <1>5, Numbers DEF Shape
  <2>2. CASE mode = "FILE_IONBF"
    <3>1. startptr' = startptr BY <1>3, <2>2
    <3>2. QED BY <2>1, <3>1
  <2>3. CASE mode # "FILE_IONBF"
    <3>1. startptr' = ptrlow' BY <1>3, <2>3
    <3>2. QED BY <1>5, <3>1
  <2>4. QED BY <2>2, <2>3
<1>8. endsize' \in 0 .. MaxBuf /\ bufsize' \in 0 .. MaxBuf
  <2>1. n \in 0 .. MaxBuf BY <1>6
  <2>2. QED BY <1>3, <1>5, <1>6, <2>1
<1>9. Buffered' => endsize' = 0 /\ bufsize' = n BY <1>3 DEF Buffered
<1>10. TypeOK'
  <2>1. NoByte \in Byte BY DEF Byte
  <2>2. buffer' \in [0 .. MaxBuf - 1 -> Byte] BY <1>3, <2>1 DEF NoBuffer
  <2>3. spoiled' \in BOOLEAN BY <1>2
  <2>4. last' \in [at : -1 .. MaxSize, byte : Byte] BY NoRead DEF vfs_setbuffer
  <2>5. QED BY <1>1, <1>3, <1>4, <1>5, <1>6, <1>7, <1>8, <2>2, <2>3, <2>4
           DEF TypeOK, Contents, Positions
<1>11. Shape'
  <2>1. n > 0 /\ startptr' + 0 <= MaxSize /\ 0 <= n BY <1>1, <1>6, <1>7, Numbers
  <2>2. QED BY <1>3, <1>4, <1>5, <1>7, <1>9, <2>1 DEF Shape
<1>12. ASSUME ~spoiled' PROVE Content'
  <2>1. Content /\ ~full BY <1>2, <1>12 DEF Inv
  <2>2. disk' = stored' /\ Exact(stored, size') BY <1>1, <1>2, <1>3, <2>1, FlushContent
  <2>3. Buffered' => endsize' <= sound' BY <1>3, <1>9
  <2>4. \A k \in 0 .. sound' - 1 : FALSE BY <1>3
  <2>5. QED BY <1>3, <1>5, <2>2, <2>3, <2>4 DEF Content, Exact
<1>13. QED BY <1>10, <1>11, <1>12, NoRead DEF Inv, vfs_setbuffer

\* An open starts with an empty buffer.
LEMMA OpenKeeps ==
  ASSUME Inv, NEW mode, openfilex(mode)
  PROVE  Inv'
<1>1. TypeOK /\ Shape BY DEF Inv
<1>2. /\ ~opened /\ opened' = TRUE /\ startptr' = ptrlow'
      /\ buffertype' = "FILE_IOFBF" /\ bufsize' = OpenSize
      /\ buffer' = NoBuffer /\ endsize' = 0 /\ bufferwrite' = FALSE
      /\ sound' = 0 /\ spoiled' = spoiled
  BY DEF openfilex
<1>3. ~bufferwrite BY <1>1, <1>2 DEF Shape
<1>4. disk' \in Contents /\ stored' \in Contents /\ size' \in 0 .. MaxSize
      /\ ptrlow' \in 0 .. size'
  <2>1. CASE mode = "FILE_WRITE"
    <3>1. disk' = NoBytes /\ stored' = NoBytes /\ size' = 0 BY <2>1 DEF openfilex
    <3>2. mode # "FILE_APPEND" BY <2>1
    <3>3. ptrlow' = 0 BY <3>2 DEF openfilex
    <3>4. NoBytes \in Contents BY DEF NoBytes, Contents, Positions, Byte
    <3>5. 0 \in 0 .. MaxSize /\ 0 \in 0 .. 0 BY FileAssumption DEF FileAssumption
    <3>6. QED BY <3>1, <3>3, <3>4, <3>5
  <2>2. CASE mode # "FILE_WRITE"
    <3>1. disk' = disk /\ stored' = stored /\ size' = size BY <2>2 DEF openfilex, file
    <3>2. ptrlow' = 0 \/ ptrlow' = size BY DEF openfilex
    <3>3. 0 \in 0 .. size /\ size \in 0 .. size /\ size \in 0 .. MaxSize BY <1>1, Numbers
    <3>4. QED BY <1>1, <3>1, <3>2, <3>3 DEF TypeOK, Contents, Positions
  <2>3. QED BY <2>1, <2>2
<1>5. ptrlow' \in 0 .. MaxSize /\ ptrlow' <= size'
  BY <1>4, FileAssumption DEF FileAssumption
<1>6. OpenSize \in 0 .. MaxBuf /\ OpenSize > 0 /\ 0 \in 0 .. MaxBuf
  BY FileAssumption DEF FileAssumption
<1>7. TypeOK'
  <2>1. NoByte \in Byte BY DEF Byte
  <2>2. buffer' \in [0 .. MaxBuf - 1 -> Byte] BY <1>2, <2>1 DEF NoBuffer
  <2>3. last' \in [at : -1 .. MaxSize, byte : Byte] BY NoRead DEF openfilex
  <2>4. buffertype' \in Modes /\ bufsize' \in 0 .. MaxBuf BY <1>2, <1>6 DEF Modes
  <2>5. endsize' \in 0 .. MaxBuf /\ sound' \in 0 .. MaxBuf BY <1>2, <1>6
  <2>6. QED BY <1>1, <1>2, <1>4, <1>5, <2>2, <2>3, <2>4, <2>5
           DEF TypeOK, Contents, Positions
<1>8. Shape'
  <2>1. bufsize' > 0 /\ 0 <= bufsize' BY <1>2, <1>6
  <2>2. PICK s : s = ptrlow' OBVIOUS
  <2>3. s \in 0 .. MaxSize BY <1>5, <2>2
  <2>4. s + 0 <= MaxSize BY <2>3, FileAssumption DEF FileAssumption
  <2>5. startptr' + 0 <= MaxSize BY <1>2, <2>2, <2>4
  <2>6. QED BY <1>2, <1>5, <2>1, <2>5 DEF Shape
<1>9. ASSUME ~spoiled' PROVE Content'
  <2>1. Content BY <1>2, <1>9 DEF Inv
  <2>2. disk' = stored' /\ Exact(stored', size')
    <3>1. CASE mode = "FILE_WRITE"
      <4>1. disk' = NoBytes /\ stored' = NoBytes /\ size' = 0 BY <3>1 DEF openfilex
      <4>2. \A k \in Positions : ~(k < 0) /\ NoBytes[k] = NoByte BY DEF Positions, NoBytes
      <4>3. QED BY <4>1, <4>2 DEF Exact
    <3>2. CASE mode # "FILE_WRITE"
      <4>1. disk' = disk /\ stored' = stored /\ size' = size BY <3>2 DEF openfilex, file
      <4>2. disk = stored BY <1>1, <1>3, <2>1, CleanIsStored
      <4>3. QED BY <2>1, <4>1, <4>2 DEF Content, Exact
    <3>3. QED BY <3>1, <3>2
  <2>3. \A k \in 0 .. sound' - 1 : FALSE BY <1>2
  <2>4. endsize' <= sound' BY <1>2
  <2>5. QED BY <1>5, <2>2, <2>3, <2>4 DEF Content, Exact
<1>10. QED BY <1>7, <1>8, <1>9, NoRead DEF Inv, openfilex

\* A close flushes the buffer before it is freed.
LEMMA CloseKeeps ==
  ASSUME Inv, fclose
  PROVE  Inv'
<1>1. TypeOK /\ Shape BY DEF Inv
<1>2. PICK full \in BOOLEAN :
        /\ MayFlush(full)
        /\ disk' = FlushedDisk(full) /\ size' = FlushedSize(full)
        /\ spoiled' = (spoiled \/ full)
  BY DEF fclose
<1>3. /\ opened' = FALSE /\ ptrlow' = 0 /\ buffertype' = "FILE_IOFBF" /\ bufsize' = 0
      /\ startptr' = 0 /\ buffer' = NoBuffer /\ endsize' = 0 /\ bufferwrite' = FALSE
      /\ sound' = 0 /\ stored' = stored
  BY DEF fclose, Closed
<1>4. disk' \in Contents /\ size' \in 0 .. MaxSize BY <1>1, <1>2, FlushType
<1>5. 0 \in 0 .. MaxSize /\ 0 \in 0 .. MaxBuf /\ 0 <= size' /\ 0 + 0 <= MaxSize
  BY <1>4, FileAssumption DEF FileAssumption
<1>6. TypeOK'
  <2>1. NoByte \in Byte BY DEF Byte
  <2>2. buffer' \in [0 .. MaxBuf - 1 -> Byte] BY <1>3, <2>1 DEF NoBuffer
  <2>3. last' \in [at : -1 .. MaxSize, byte : Byte] BY NoRead DEF fclose
  <2>4. buffertype' \in Modes /\ spoiled' \in BOOLEAN BY <1>2, <1>3 DEF Modes
  <2>5. QED BY <1>1, <1>3, <1>4, <1>5, <2>2, <2>3, <2>4 DEF TypeOK, Contents, Positions
<1>7. Shape' BY <1>3, <1>5 DEF Shape, Buffered
<1>8. ASSUME ~spoiled' PROVE Content'
  <2>1. Content /\ ~full BY <1>2, <1>8 DEF Inv
  <2>2. disk' = stored' /\ Exact(stored, size') BY <1>1, <1>2, <1>3, <2>1, FlushContent
  <2>3. \A k \in 0 .. sound' - 1 : FALSE BY <1>3
  <2>4. endsize' <= sound' BY <1>3
  <2>5. QED BY <1>3, <1>5, <2>2, <2>3, <2>4 DEF Content, Exact
<1>9. QED BY <1>6, <1>7, <1>8, NoRead DEF Inv, fclose
------------------------------------------------------------------------------
\* The invariant of the handle: every call keeps the front of the buffer equal
\* to the file and confines what disk lacks to what waits in the buffer.
THEOREM Inductive == Spec => []Inv
<1>1. Init => Inv
  <2>1. SUFFICES ASSUME Init PROVE Inv OBVIOUS
  <2>2. /\ size \in 0 .. MaxSize /\ disk \in Contents
        /\ \A k \in Positions : k < size <=> disk[k] # NoByte
    <3>1. PICK f \in [0 .. MaxSize - 1 -> Bytes] :
            disk = [k \in 0 .. MaxSize - 1 |-> IF k < size THEN f[k] ELSE NoByte]
      BY <2>1 DEF Init
    <3>2. \A k \in Positions : f[k] \in Bytes /\ f[k] # NoByte
      BY FileAssumption DEF FileAssumption, Positions
    <3>3. disk \in Contents BY <3>1, <3>2 DEF Contents, Positions, Byte
    <3>4. \A k \in Positions : k < size <=> disk[k] # NoByte
      BY <3>1, <3>2 DEF Positions
    <3>5. QED BY <2>1, <3>3, <3>4 DEF Init
  <2>3. /\ opened = FALSE /\ ptrlow = 0 /\ buffertype = "FILE_IOFBF" /\ bufsize = 0
        /\ startptr = 0 /\ buffer = NoBuffer /\ endsize = 0 /\ bufferwrite = FALSE
        /\ stored = disk /\ sound = 0 /\ spoiled = FALSE /\ last = Nothing
    BY <2>1 DEF Init
  <2>4. /\ MaxSize \in Nat /\ MaxBuf \in Nat /\ 0 \in 0 .. MaxSize /\ 0 \in 0 .. MaxBuf
        /\ 0 <= size /\ 0 + 0 <= MaxSize /\ -1 \in -1 .. MaxSize /\ -1 \notin 0 .. MaxSize - 1
    BY <2>2, FileAssumption DEF FileAssumption
  <2>5. buffer \in [0 .. MaxBuf - 1 -> Byte] BY <2>3 DEF NoBuffer, Byte
  <2>6. last \in [at : -1 .. MaxSize, byte : Byte] BY <2>3, <2>4 DEF Nothing, Byte
  <2>7. TypeOK
    BY <2>2, <2>3, <2>4, <2>5, <2>6 DEF TypeOK, Contents, Positions, Modes
  <2>8. Shape BY <2>3, <2>4 DEF Shape, Buffered
  <2>9. \A k \in 0 .. sound - 1 : FALSE BY <2>3
  <2>10. Content BY <2>2, <2>3, <2>4, <2>9 DEF Content, Exact
  <2>11. last.at = -1 BY <2>3 DEF Nothing
  <2>12. ReadsAreCurrent BY <2>4, <2>11 DEF ReadsAreCurrent
  <2>13. QED BY <2>7, <2>8, <2>10, <2>12 DEF Inv
<1>2. Inv /\ [Next]_vars => Inv'
  <2>1. SUFFICES ASSUME Inv, [Next]_vars PROVE Inv' OBVIOUS
  <2>2. CASE \E c \in Bytes : WriteUnbuffered(c) \/ WriteInBuffer(c) \/ WriteElsewhere(c)
    BY <2>1, <2>2, WriteUnbufferedKeeps, WriteInBufferKeeps, WriteElsewhereKeeps
  <2>3. CASE ReadChar
    BY <2>1, <2>3, ReadAtEndKeeps, ReadUnbufferedKeeps, ReadInBufferKeeps, ReadElsewhereKeeps
       DEF ReadChar
  <2>4. CASE \E n \in LargeSizes :
               ReadLarge(n) \/ \E b \in [0 .. n - 1 -> Bytes] : WriteLarge(n, b)
    BY <2>1, <2>4, ReadLargeKeeps, WriteLargeKeeps
  <2>5. CASE \E to \in -1 .. MaxSize : fseek(to) BY <2>1, <2>5, SeekKeeps
  <2>6. CASE fflush BY <2>1, <2>6, FflushKeeps
  <2>7. CASE \E mode \in Modes, n \in BufSizes : vfs_setbuffer(mode, n)
    BY <2>1, <2>7, SetBufferKeeps
  <2>8. CASE \E mode \in {"FILE_READ", "FILE_WRITE", "FILE_APPEND", "FILE_READWRITE"} :
               openfilex(mode)
    BY <2>1, <2>8, OpenKeeps
  <2>9. CASE fclose BY <2>1, <2>9, CloseKeeps
  <2>10. CASE UNCHANGED vars
    <3>1. /\ UNCHANGED <<disk, size, opened, ptrlow, buffertype, bufsize, startptr, buffer>>
          /\ UNCHANGED <<endsize, bufferwrite, stored, sound, spoiled, last>>
      BY <2>10 DEF vars, file, place
    <3>2. TypeOK' BY <2>1, <3>1 DEF Inv, TypeOK
    <3>3. Shape' BY <2>1, <3>1 DEF Inv, Shape, Buffered
    <3>4. Content' <=> Content BY <3>1 DEF Content, Buffered, Under, Exact
    <3>5. ReadsAreCurrent' BY <2>1, <3>1 DEF Inv, ReadsAreCurrent, Unwritten, Buffered
    <3>6. QED BY <2>1, <3>1, <3>2, <3>3, <3>4, <3>5 DEF Inv
  <2>11. QED BY <2>1, <2>2, <2>3, <2>4, <2>5, <2>6, <2>7, <2>8, <2>9, <2>10 DEF Next
<1>3. QED BY <1>1, <1>2, PTL DEF Spec

\* Every variable stays in its range.
THEOREM TypeCorrect == Spec => []TypeOK
<1>1. Inv => TypeOK BY DEF Inv
<1>2. QED BY <1>1, Inductive, PTL

\* Buffer and disk together hold what was written last, whatever calls with the
\* handle come in between: vfs_flushbuffer before every move of the buffer is
\* enough; and vfs_readchar and fread return it.
THEOREM KeptBytes == Spec => []BytesAreKept
<1>1. Inv => NothingLost
  <2>1. SUFFICES ASSUME Inv, ~spoiled, NEW k \in Positions PROVE View(k) = stored[k]
    BY DEF NothingLost, Positions
  <2>2. TypeOK /\ Shape /\ Content BY <2>1 DEF Inv
  <2>3. CASE Buffered /\ startptr <= k /\ k < startptr + endsize
    <3>1. /\ startptr \in Nat /\ endsize \in Nat /\ sound \in Nat
          /\ endsize <= sound /\ k \in Nat
      BY <2>2, <2>3, FileAssumption DEF FileAssumption, TypeOK, Content, Positions
    <3>2. k - startptr \in 0 .. sound - 1 /\ startptr + (k - startptr) = k
      BY <2>3, <3>1
    <3>3. \A m \in 0 .. sound - 1 : buffer[m] = stored[startptr + m]
      BY <2>2, <2>3 DEF Content
    <3>4. buffer[k - startptr] = stored[k] BY <3>2, <3>3
    <3>5. QED BY <2>3, <3>4 DEF View
  <2>4. CASE ~(Buffered /\ startptr <= k /\ k < startptr + endsize)
    <3>1. ~Under(k) BY <2>2, <2>4 DEF Under, Shape
    <3>2. disk[k] = stored[k] BY <2>2, <3>1 DEF Content
    <3>3. View(k) = disk[k] BY <2>4 DEF View
    <3>4. QED BY <3>2, <3>3
  <2>5. QED BY <2>3, <2>4
<1>2. Inv => BytesAreKept BY <1>1 DEF BytesAreKept, Inv
<1>3. QED BY <1>2, Inductive, PTL

\* ptr->size counts the bytes the disk holds, a flush finds its place in the file,
\* and the position is in the file or at the end of what waits in the buffer.
THEOREM ExactPlace == Spec => []PlaceIsExact
<1>1. Inv => SizeIsExact BY DEF Inv, Content, Exact, SizeIsExact, Positions
<1>2. Inv => PositionsInFile
  <2>1. SUFFICES ASSUME Inv PROVE PositionsInFile OBVIOUS
  <2>2. startptr <= size BY <2>1 DEF Inv, Shape
  <2>3. Unwritten <=> bufferwrite BY <2>1, UnwrittenIsFlag DEF Inv
  <2>4. ~spoiled => ptrlow <= size \/ (bufferwrite /\ ptrlow <= startptr + endsize)
    BY <2>1 DEF Inv, Content
  <2>5. QED BY <2>2, <2>3, <2>4 DEF PositionsInFile
<1>3. Inv => PlaceIsExact BY <1>1, <1>2 DEF PlaceIsExact
<1>4. QED BY <1>3, Inductive, PTL

------------------------------------------------------------------------------
(***************************************************************************)
(* How a write and a read cut the bytes into pieces is a function that is  *)
(* counted from one piece to the next.  PieceFor gives the piece of a      *)
(* block outright; the first block where the count differed would follow   *)
(* one where it does not.  With that a byte's piece, its place in the      *)
(* caller's buffer and its place in the file are a matter of arithmetic.   *)
(***************************************************************************)

\* A set of numbers that is not empty has a least one.  What is claimed of each value of
\* a recursive function follows from it: of the places where the claim fails take the first.
LEMMA HasLeast ==
  ASSUME NEW T \in SUBSET Nat, T # {}
  PROVE  \E m \in T : \A k \in T : m <= k
<1>1. PICK n \in T : TRUE
  OBVIOUS
<1> DEFINE S == 0 .. n
           ups == {0 .. k : k \in T \cap S}
<1>2. ups \subseteq SUBSET S /\ ups # {}
  BY <1>1
<1>3. IsWellFoundedOn(StrictSubsetOrdering(S), SUBSET S)
  <2>0. IsFiniteSet(S)
    BY <1>1, FS_Interval
  <2> HIDE DEF S
  <2>1. FiniteSubsetsOf(S) = SUBSET S
    BY <2>0, FS_FiniteSubsetsOfFinite
  <2>2. IsWellFoundedOn(StrictSubsetOrdering(S), FiniteSubsetsOf(S))
    BY FS_StrictSubsetOrderingWellFounded
  <2> QED
    BY <2>1, <2>2
<1> HIDE DEF S, ups
<1>4. PICK x \in ups : \A y \in ups : <<y, x>> \notin StrictSubsetOrdering(S)
  BY <1>2, <1>3, WFMin
<1>5. PICK m \in T \cap S : x = 0 .. m
  BY DEF ups
<1>6. ASSUME NEW k \in T PROVE m <= k
  <2>1. CASE k \in S /\ k < m
    <3>1. 0 .. k \in ups
      BY <2>1 DEF ups
    <3>2. <<0 .. k, x>> \notin StrictSubsetOrdering(S)
      BY <1>4, <3>1
    <3>3. 0 .. k \subseteq 0 .. m /\ 0 .. k # 0 .. m /\ 0 .. m \subseteq S
      BY <2>1, <1>5 DEF S
    <3> QED
      BY <1>5, <3>2, <3>3 DEF StrictSubsetOrdering
  <2> QED
    BY <1>5, <2>1 DEF S
<1> QED
  BY <1>5, <1>6

\* A place lies in its cluster, ...
LEMMA PlaceInBlock ==
  ASSUME NEW k \in Nat
  PROVE  /\ k \div ClusterBytes \in Nat /\ k % ClusterBytes \in 0 .. ClusterBytes - 1
         /\ k = (k \div ClusterBytes) * ClusterBytes + (k % ClusterBytes)
BY TransferAssumption DEF TransferAssumption

\* and one block ends before the next begins.
LEMMA BlocksInOrder ==
  ASSUME NEW a \in Int, NEW b \in Int, a < b
  PROVE  /\ a * ClusterBytes \in Int /\ b * ClusterBytes \in Int
         /\ a * ClusterBytes + ClusterBytes <= b * ClusterBytes
         /\ (b - 1) * ClusterBytes = b * ClusterBytes - ClusterBytes
<1>1. ClusterBytes \in Nat
  BY TransferAssumption DEF TransferAssumption
<1>2. a * ClusterBytes \in Int /\ b * ClusterBytes \in Int /\ (b - 1) * ClusterBytes = b * ClusterBytes - ClusterBytes
  BY <1>1
<1>3. PICK c \in Nat : b = a + 1 + c
  <2>1. b - a - 1 \in Nat /\ b = a + 1 + (b - a - 1)
    OBVIOUS
  <2> QED
    BY <2>1
<1>4. b * ClusterBytes = a * ClusterBytes + ClusterBytes + c * ClusterBytes
  BY <1>1, <1>3
<1>5. c * ClusterBytes \in Nat
  BY <1>1
<1> QED
  BY <1>1, <1>2, <1>4, <1>5

\* Where the piece of a block lies in the caller's buffer, and the piece.
Ofs(b, start) ==
  IF b < StartBlock(start) THEN b * ClusterBytes
  ELSE IF b = StartBlock(start) THEN 0 ELSE b * ClusterBytes - start
PieceFor(b, start, end) == PieceOf(b, StartBlock(start), EndBlock(end), start, end, Ofs(b, start))

\* The first and the last block, and how far start and end are into them.
LEMMA BlocksOf ==
  ASSUME NEW start \in Nat, NEW end \in Nat, start <= end
  PROVE  /\ StartBlock(start) \in Nat /\ EndBlock(end) \in Nat /\ StartBlock(start) <= EndBlock(end)
         /\ StartAdj(start) \in 0 .. ClusterBytes - 1 /\ Adj(end) \in 1 .. ClusterBytes
         /\ start = StartBlock(start) * ClusterBytes + StartAdj(start)
         /\ end = EndBlock(end) * ClusterBytes + Adj(end) - 1
         /\ StartBlock(start) * ClusterBytes \in Nat /\ EndBlock(end) * ClusterBytes \in Nat
<1>1. ClusterBytes \in Nat
  BY TransferAssumption DEF TransferAssumption
<1> DEFINE a == StartBlock(start)
           b == EndBlock(end)
           r == end % ClusterBytes
<1>2. a \in Nat /\ StartAdj(start) \in 0 .. ClusterBytes - 1 /\ start = a * ClusterBytes + StartAdj(start)
  BY PlaceInBlock DEF StartBlock, StartAdj
<1>3. b \in Nat /\ r \in 0 .. ClusterBytes - 1 /\ end = b * ClusterBytes + r
  BY PlaceInBlock DEF EndBlock
<1>4. Adj(end) = r + 1
  BY DEF Adj
<1> HIDE DEF a, b, r
<1>5. a * ClusterBytes \in Nat /\ b * ClusterBytes \in Nat
  BY <1>1, <1>2, <1>3
<1>6. ~(b < a)
  <2>1. b < a => b * ClusterBytes + ClusterBytes <= a * ClusterBytes
    BY <1>2, <1>3, BlocksInOrder
  <2> QED
    BY <1>1, <1>2, <1>3, <1>5, <2>1
<1>7. Adj(end) \in 1 .. ClusterBytes /\ end = b * ClusterBytes + Adj(end) - 1
  <2>1. Adj(end) \in 1 .. ClusterBytes
    BY <1>1, <1>3, <1>4
  <2>2. r = Adj(end) - 1 /\ Adj(end) \in Int
    BY <1>3, <1>4
  <2>3. end = b * ClusterBytes + (Adj(end) - 1)
    BY <1>3, <2>2
  <2> QED
    BY <1>5, <2>1, <2>2, <2>3
<1> QED
  BY <1>2, <1>3, <1>5, <1>6, <1>7 DEF a, b

\* A piece begins in the buffer where the one before it ends.
LEMMA NextPiece ==
  ASSUME NEW start \in Nat, NEW end \in Nat, start <= end,
         NEW b \in Nat \ {0}, b <= EndBlock(end), b # StartBlock(start)
  PROVE  After(PieceFor(b - 1, start, end)) = Ofs(b, start)
<1> DEFINE first == StartBlock(start)
           final == EndBlock(end)
           C == ClusterBytes
<1>1. /\ first \in Nat /\ final \in Nat /\ first <= final
      /\ start = first * C + StartAdj(start) /\ first * C \in Nat
      /\ StartAdj(start) \in 0 .. C - 1
  BY BlocksOf
<1>2. C \in Nat /\ b - 1 \in Int /\ b - 1 < b /\ b - 1 # final
  BY <1>1, TransferAssumption DEF TransferAssumption
<1>3. b * C \in Int /\ (b - 1) * C \in Int /\ (b - 1) * C = b * C - C
  BY <1>2, BlocksInOrder
<1> HIDE DEF first, final, C
<1>4. CASE b - 1 = first
  <2>1. PieceFor(b - 1, start, end) = Piece(StartAdj(start), C - StartAdj(start), 0)
    BY <1>2, <1>4 DEF PieceFor, PieceOf, StartLength, first, final, C
  <2>2. Ofs(b, start) = b * C - start
    BY <1>1, <1>4 DEF Ofs, first, C
  <2>3. 0 + (C - StartAdj(start)) = b * C - start
    BY <1>1, <1>2, <1>3, <1>4
  <2> QED
    BY <2>1, <2>2, <2>3 DEF After, Piece
<1>5. CASE b - 1 # first
  <2>1. PieceFor(b - 1, start, end) = Piece(0, C, Ofs(b - 1, start))
    BY <1>2, <1>5 DEF PieceFor, PieceOf, first, final, C
  <2>2. After(PieceFor(b - 1, start, end)) = Ofs(b - 1, start) + C
    BY <2>1 DEF After, Piece
  <2>3. CASE b < first
    <3>1. Ofs(b, start) = b * C /\ Ofs(b - 1, start) = (b - 1) * C
      BY <1>1, <1>2, <2>3 DEF Ofs, first, C
    <3> QED
      BY <1>2, <1>3, <2>2, <3>1
  <2>4. CASE b > first
    <3>1. Ofs(b, start) = b * C - start /\ Ofs(b - 1, start) = (b - 1) * C - start
      BY <1>1, <1>2, <1>5, <2>4 DEF Ofs, first, C
    <3> QED
      BY <1>1, <1>2, <1>3, <2>2, <3>1
  <2> QED
    BY <1>1, <2>3, <2>4 DEF first
<1> QED
  BY <1>4, <1>5

\* The pieces are counted one after the other, from block 0 or from the first.
Counted(f, lo, hi, start, end) ==
  f = [b \in lo .. hi |-> PieceOf(b, StartBlock(start), EndBlock(end), start, end,
                                  IF b = lo THEN 0 ELSE After(f[b - 1]))]

\* The piece counted first is the one of its block, ...
LEMMA FirstPiece ==
  ASSUME NEW start \in Nat, NEW end \in Nat, start <= end, NEW lo \in {0, StartBlock(start)}
  PROVE  PieceOf(lo, StartBlock(start), EndBlock(end), start, end, 0) = PieceFor(lo, start, end)
<1>1. StartBlock(start) \in Nat /\ 0 * ClusterBytes = 0
  BY BlocksOf, TransferAssumption DEF TransferAssumption
<1>2. Ofs(lo, start) = 0
  BY <1>1 DEF Ofs
<1> QED
  BY <1>2 DEF PieceFor

\* so is each that is counted from the one before it, ...
LEMMA LaterPiece ==
  ASSUME NEW start \in Nat, NEW end \in Nat, start <= end, NEW b \in Nat \ {0}, b <= EndBlock(end)
  PROVE  PieceOf(b, StartBlock(start), EndBlock(end), start, end, After(PieceFor(b - 1, start, end)))
         = PieceFor(b, start, end)
<1>1. CASE b = StartBlock(start)
  BY <1>1 DEF PieceFor, PieceOf
<1>2. CASE b # StartBlock(start)
  <2>1. After(PieceFor(b - 1, start, end)) = Ofs(b, start)
    BY <1>2, NextPiece
  <2> QED
    BY <2>1 DEF PieceFor
<1> QED
  BY <1>1, <1>2

\* so the pieces of the blocks are counted one after the other, ...
LEMMA PiecesCount ==
  ASSUME NEW start \in Nat, NEW end \in Nat, start <= end, NEW lo \in {0, StartBlock(start)},
         NEW hi \in Int, hi <= EndBlock(end)
  PROVE  Counted([b \in lo .. hi |-> PieceFor(b, start, end)], lo, hi, start, end)
<1> DEFINE g == [b \in lo .. hi |-> PieceFor(b, start, end)]
           rule(b) == PieceOf(b, StartBlock(start), EndBlock(end), start, end,
                              IF b = lo THEN 0 ELSE After(g[b - 1]))
<1>1. lo \in Nat
  BY BlocksOf
<1>2. ASSUME NEW b \in lo .. hi PROVE g[b] = rule(b)
  <2>1. g[b] = PieceFor(b, start, end)
    OBVIOUS
  <2>2. CASE b = lo
    BY <2>1, <2>2, FirstPiece
  <2>3. CASE b # lo
    <3>1. b \in Nat \ {0} /\ b <= EndBlock(end) /\ b - 1 \in lo .. hi
      <4>1. EndBlock(end) \in Nat
        BY BlocksOf
      <4> QED
        BY <1>1, <2>3, <4>1
    <3>2. g[b - 1] = PieceFor(b - 1, start, end)
      BY <3>1
    <3> HIDE DEF g
    <3> QED
      BY <2>1, <2>3, <3>1, <3>2, LaterPiece
  <2> QED
    BY <2>2, <2>3
<1>3. g = [b \in lo .. hi |-> rule(b)]
  <2>1. g = [b \in lo .. hi |-> g[b]]
    OBVIOUS
  <2> HIDE DEF g, rule
  <2> QED
    BY <1>2, <2>1
<1> QED
  BY <1>3 DEF Counted

\* and what is counted one after the other are the pieces of the blocks: the first that
\* was not would follow one that is.
LEMMA PiecesAre ==
  ASSUME NEW start \in Nat, NEW end \in Nat, start <= end, NEW lo \in {0, StartBlock(start)},
         NEW hi \in Int, hi <= EndBlock(end), NEW f, Counted(f, lo, hi, start, end)
  PROVE  /\ DOMAIN f = lo .. hi
         /\ \A b \in lo .. hi : f[b] = PieceFor(b, start, end)
<1>1. lo \in Nat /\ EndBlock(end) \in Nat
  BY BlocksOf
<1>2. /\ DOMAIN f = lo .. hi
      /\ \A b \in lo .. hi : f[b] = PieceOf(b, StartBlock(start), EndBlock(end), start, end,
                                            IF b = lo THEN 0 ELSE After(f[b - 1]))
  BY DEF Counted
<1> DEFINE wrong == {b \in lo .. hi : f[b] # PieceFor(b, start, end)}
<1>3. SUFFICES ASSUME wrong # {} PROVE FALSE
  BY <1>2
<1>4. wrong \in SUBSET Nat
  BY <1>1
<1>5. PICK b \in wrong : \A c \in wrong : b <= c
  BY <1>3, <1>4, HasLeast
<1>6. b \in lo .. hi /\ b \in Nat /\ f[b] # PieceFor(b, start, end)
  BY <1>1
<1>7. CASE b = lo
  BY <1>2, <1>6, <1>7, FirstPiece
<1>8. CASE b # lo
  <2>1. b - 1 \in lo .. hi /\ b \in Nat \ {0} /\ b <= EndBlock(end)
    BY <1>1, <1>6, <1>8
  <2>2. b - 1 \notin wrong
    BY <1>5, <1>6
  <2>3. f[b - 1] = PieceFor(b - 1, start, end)
    BY <2>1, <2>2
  <2> QED
    BY <1>2, <1>6, <1>8, <2>1, <2>3, LaterPiece
<1> QED
  BY <1>7, <1>8

\* This is what a write computes, whatever its first block is, ...
LEMMA WritePiecesAre ==
  ASSUME NEW start \in Nat, NEW end \in Nat, start <= end
  PROVE  /\ DOMAIN WritePieces(start, end) = StartBlock(start) .. EndBlock(end)
         /\ \A b \in StartBlock(start) .. EndBlock(end) :
              WritePieces(start, end)[b] = PieceFor(b, start, end)
<1> DEFINE lo == StartBlock(start)
           hi == EndBlock(end)
<1>1. lo \in Nat /\ hi \in Nat
  BY BlocksOf
<1>2. \E f : Counted(f, lo, hi, start, end)
  <2>1. Counted([b \in lo .. hi |-> PieceFor(b, start, end)], lo, hi, start, end)
    BY <1>1, PiecesCount
  <2> QED
    BY <2>1
<1>3. WritePieces(start, end) = CHOOSE f : Counted(f, lo, hi, start, end)
  BY Zenon DEF WritePieces, Counted
<1> HIDE DEF lo, hi
<1>4. Counted(WritePieces(start, end), lo, hi, start, end)
  BY <1>2, <1>3, Zenon
<1> QED
  BY <1>1, <1>4, PiecesAre DEF lo, hi

\* and what a read does, of as many blocks from 0 on as it reads.
LEMMA ReadPiecesAre ==
  ASSUME NEW start \in Nat, NEW end \in Nat, start <= end
  PROVE  /\ DOMAIN ReadPieces(start, end) = 0 .. EndBlock(end) - StartBlock(start)
         /\ \A b \in 0 .. EndBlock(end) - StartBlock(start) :
              ReadPieces(start, end)[b] = PieceFor(b, start, end)
<1> DEFINE hi == EndBlock(end) - StartBlock(start)
<1>1. hi \in Int /\ hi <= EndBlock(end)
  BY BlocksOf
<1>2. \E f : Counted(f, 0, hi, start, end)
  <2>1. Counted([b \in 0 .. hi |-> PieceFor(b, start, end)], 0, hi, start, end)
    BY <1>1, PiecesCount
  <2> QED
    BY <2>1
<1>3. ReadPieces(start, end) = CHOOSE f : Counted(f, 0, hi, start, end)
  BY Zenon DEF ReadPieces, Counted
<1> HIDE DEF hi
<1>4. Counted(ReadPieces(start, end), 0, hi, start, end)
  BY <1>2, <1>3, Zenon
<1> QED
  BY <1>1, <1>4, PiecesAre DEF hi

\* The places of the blocks up to one that is in the file are in the file.
LEMMA PlacesAre ==
  /\ Places \subseteq Nat
  /\ \A k \in Places, b \in Int, r \in 0 .. ClusterBytes - 1 :
       b >= 0 /\ b <= k \div ClusterBytes => b * ClusterBytes + r \in Places
<1>1. ClusterBytes \in Nat \ {0} /\ FileClusters \in Nat \ {0}
  BY TransferAssumption DEF TransferAssumption
<1>2. ClusterBytes * FileClusters \in Nat
  BY <1>1
<1>3. Places \subseteq Nat
  BY <1>2 DEF Places
<1>4. ASSUME NEW k \in Places, NEW b \in Int, NEW r \in 0 .. ClusterBytes - 1,
             b >= 0, b <= k \div ClusterBytes
      PROVE  b * ClusterBytes + r \in Places
  <2> DEFINE q == k \div ClusterBytes
  <2>1. /\ q \in Nat /\ k % ClusterBytes \in 0 .. ClusterBytes - 1
        /\ k = q * ClusterBytes + (k % ClusterBytes)
    BY <1>3, PlaceInBlock
  <2>2. k \in Nat /\ k < ClusterBytes * FileClusters
    BY <1>2 DEF Places
  <2> HIDE DEF q
  <2>3. q * ClusterBytes \in Nat /\ q * ClusterBytes < ClusterBytes * FileClusters
    BY <1>1, <1>2, <2>1, <2>2
  <2>4. q < FileClusters
    <3>1. SUFFICES ASSUME FileClusters <= q PROVE FALSE
      BY <1>1, <2>1
    <3>2. FileClusters < q => FileClusters * ClusterBytes + ClusterBytes <= q * ClusterBytes
      BY <1>1, <2>1, BlocksInOrder
    <3>3. ClusterBytes * FileClusters = FileClusters * ClusterBytes
      BY <1>1
    <3> QED
      BY <1>1, <1>2, <2>1, <2>3, <3>1, <3>2, <3>3
  <2>5. b < FileClusters
    BY <1>1, <1>4, <2>1, <2>4 DEF q
  <2>6. b * ClusterBytes + ClusterBytes <= FileClusters * ClusterBytes
    BY <1>1, <2>5, BlocksInOrder
  <2>7. b * ClusterBytes \in Nat /\ FileClusters * ClusterBytes = ClusterBytes * FileClusters
    BY <1>1, <1>4
  <2>8. r \in Nat /\ r < ClusterBytes
    BY <1>1
  <2>9. b * ClusterBytes + r \in Nat /\ b * ClusterBytes + r < ClusterBytes * FileClusters
    BY <1>1, <1>2, <2>6, <2>7, <2>8
  <2> QED
    BY <1>2, <2>9 DEF Places
<1> QED
  BY <1>3, <1>4

\* A piece lies in its cluster, and its bytes are those asked for.
LEMMA PieceLies ==
  ASSUME NEW start \in Nat, NEW end \in Nat, start <= end, NEW b \in Nat, b <= EndBlock(end)
  PROVE  LET x == PieceFor(b, start, end) IN
         /\ x.within \in Nat /\ x.length \in Nat /\ x.ofs \in Int
         /\ x.within + x.length <= ClusterBytes
<1> DEFINE x == PieceFor(b, start, end)
<1>1. /\ StartBlock(start) \in Nat /\ EndBlock(end) \in Nat /\ StartBlock(start) <= EndBlock(end)
      /\ StartAdj(start) \in 0 .. ClusterBytes - 1 /\ Adj(end) \in 1 .. ClusterBytes
      /\ start = StartBlock(start) * ClusterBytes + StartAdj(start)
      /\ end = EndBlock(end) * ClusterBytes + Adj(end) - 1
      /\ StartBlock(start) * ClusterBytes \in Nat /\ EndBlock(end) * ClusterBytes \in Nat
  BY BlocksOf
<1>2. ClusterBytes \in Nat /\ b * ClusterBytes \in Int
  BY TransferAssumption DEF TransferAssumption
<1>3. Ofs(b, start) \in Int
  BY <1>1, <1>2 DEF Ofs
<1>4. CASE b = StartBlock(start) /\ b = EndBlock(end)
  <2>1. x = Piece(StartAdj(start), end - start + 1, 0)
    BY <1>4 DEF PieceFor, PieceOf
  <2>2. end - start + 1 = Adj(end) - StartAdj(start)
    BY <1>1, <1>4
  <2>3. end - start + 1 \in Nat /\ StartAdj(start) + (end - start + 1) <= ClusterBytes
    BY <1>1, <1>2, <2>2
  <2> QED
    BY <1>1, <2>1, <2>3 DEF Piece
<1>5. CASE b = StartBlock(start) /\ b # EndBlock(end)
  <2>1. x = Piece(StartAdj(start), ClusterBytes - StartAdj(start), 0)
    BY <1>5 DEF PieceFor, PieceOf, StartLength
  <2> QED
    BY <1>1, <1>2, <2>1 DEF Piece
<1>6. CASE b # StartBlock(start) /\ b = EndBlock(end)
  <2>1. x = Piece(0, Adj(end), Ofs(b, start))
    BY <1>6 DEF PieceFor, PieceOf
  <2> QED
    BY <1>1, <1>2, <1>3, <2>1 DEF Piece
<1>7. CASE b # StartBlock(start) /\ b # EndBlock(end)
  <2>1. x = Piece(0, ClusterBytes, Ofs(b, start))
    BY <1>7 DEF PieceFor, PieceOf
  <2> QED
    BY <1>1, <1>2, <1>3, <2>1 DEF Piece
<1> QED
  BY <1>4, <1>5, <1>6, <1>7

\* Of the bytes in a block from the first on, a piece has those from start to end.
LEMMA PieceHas ==
  ASSUME NEW start \in Nat, NEW end \in Nat, start <= end, NEW b \in Nat,
         StartBlock(start) <= b, b <= EndBlock(end),
         NEW r \in 0 .. ClusterBytes - 1, NEW k, k = b * ClusterBytes + r
  PROVE  /\ Covers(PieceFor(b, start, end), r) <=> start <= k /\ k <= end
         /\ Covers(PieceFor(b, start, end), r) =>
              PieceFor(b, start, end).ofs + r - PieceFor(b, start, end).within = k - start
<1> DEFINE x == PieceFor(b, start, end)
           first == StartBlock(start)
           final == EndBlock(end)
<1>1. /\ first \in Nat /\ final \in Nat /\ first <= final
      /\ StartAdj(start) \in 0 .. ClusterBytes - 1 /\ Adj(end) \in 1 .. ClusterBytes
      /\ start = first * ClusterBytes + StartAdj(start)
      /\ end = final * ClusterBytes + Adj(end) - 1
      /\ first * ClusterBytes \in Nat /\ final * ClusterBytes \in Nat
  BY BlocksOf
<1>2. ClusterBytes \in Nat /\ b * ClusterBytes \in Int /\ r \in Int /\ k \in Int
  BY TransferAssumption DEF TransferAssumption
<1>3. /\ first < b => first * ClusterBytes + ClusterBytes <= b * ClusterBytes
      /\ b < final => b * ClusterBytes + ClusterBytes <= final * ClusterBytes
  BY <1>1, BlocksInOrder
<1> HIDE DEF first, final
<1>4. CASE b = first /\ b = final
  <2>1. x = Piece(StartAdj(start), end - start + 1, 0)
    BY <1>4 DEF PieceFor, PieceOf, first, final
  <2>2. Covers(x, r) <=> StartAdj(start) <= r /\ r < StartAdj(start) + (end - start + 1)
    BY <2>1 DEF Covers, Piece
  <2>3. x.ofs + r - x.within = r - StartAdj(start)
    BY <1>1, <2>1 DEF Piece
  <2>4. StartAdj(start) <= r <=> start <= k
    BY <1>1, <1>2, <1>4
  <2>5. r < StartAdj(start) + (end - start + 1) <=> k <= end
    BY <1>1, <1>2, <1>4
  <2>6. r - StartAdj(start) = k - start
    <3>1. start = b * ClusterBytes + StartAdj(start) /\ StartAdj(start) \in Int
      BY <1>1, <1>4
    <3> QED
      BY <1>2, <3>1
  <2> QED
    BY <2>2, <2>3, <2>4, <2>5, <2>6
<1>5. CASE b = first /\ b # final
  <2>1. x = Piece(StartAdj(start), ClusterBytes - StartAdj(start), 0)
    BY <1>5 DEF PieceFor, PieceOf, StartLength, first, final
  <2>2. Covers(x, r) <=> StartAdj(start) <= r /\ r < StartAdj(start) + (ClusterBytes - StartAdj(start))
    BY <2>1 DEF Covers, Piece
  <2>3. x.ofs + r - x.within = r - StartAdj(start)
    BY <1>1, <2>1 DEF Piece
  <2>4. StartAdj(start) <= r <=> start <= k
    BY <1>1, <1>2, <1>5
  <2>5. r < ClusterBytes => k <= end
    BY <1>1, <1>2, <1>3, <1>5
  <2>6. r - StartAdj(start) = k - start
    <3>1. start = b * ClusterBytes + StartAdj(start) /\ StartAdj(start) \in Int
      BY <1>1, <1>5
    <3> QED
      BY <1>2, <3>1
  <2>7. r \in 0 .. ClusterBytes - 1 => r < StartAdj(start) + (ClusterBytes - StartAdj(start))
    BY <1>1, <1>2
  <2> QED
    BY <1>2, <2>2, <2>3, <2>4, <2>5, <2>6, <2>7
<1>6. CASE b # first
  <2>1. x.within = 0 /\ x.ofs = b * ClusterBytes - start
    <3>1. Ofs(b, start) = b * ClusterBytes - start
      BY <1>1, <1>6 DEF Ofs, first
    <3> QED
      BY <1>6, <3>1 DEF PieceFor, PieceOf, Piece, first
  <2>2. x.length = IF b = final THEN Adj(end) ELSE ClusterBytes
    BY <1>6 DEF PieceFor, PieceOf, Piece, first, final
  <2>3. x.ofs + r - x.within = k - start
    BY <1>1, <1>2, <2>1
  <2>4. Covers(x, r) <=> 0 <= r /\ r < x.length
    BY <1>1, <1>2, <2>1, <2>2 DEF Covers
  <2>5. r \in 0 .. ClusterBytes - 1 => start <= k
    <3>1. first < b
      BY <1>1, <1>6 DEF first
    <3> QED
      BY <1>1, <1>2, <1>3, <3>1
  <2>6. r \in 0 .. ClusterBytes - 1 => (r < x.length <=> k <= end)
    <3>1. CASE b = final
      BY <1>1, <1>2, <2>2, <3>1
    <3>2. CASE b # final
      BY <1>1, <1>2, <1>3, <2>2, <3>2 DEF final
    <3> QED
      BY <3>1, <3>2
  <2> QED
    BY <2>3, <2>4, <2>5, <2>6
<1> QED
  BY <1>4, <1>5, <1>6

\* A set of numbers up to n has a greatest one.
LEMMA Greatest ==
  ASSUME NEW n \in Nat, NEW T \in SUBSET (0 .. n), T # {}
  PROVE  \E m \in T : \A k \in T : k <= m
<1> DEFINE mirror == {n - k : k \in T}
<1>1. mirror \in SUBSET Nat /\ mirror # {}
  <2>1. \A k \in T : n - k \in Nat
    OBVIOUS
  <2>2. PICK k \in T : TRUE
    OBVIOUS
  <2> QED
    BY <2>1, <2>2
<1>2. PICK c \in mirror : \A d \in mirror : c <= d
  BY <1>1, HasLeast
<1>3. PICK m \in T : c = n - m
  OBVIOUS
<1>4. ASSUME NEW k \in T PROVE k <= m
  <2>1. n - m <= n - k
    BY <1>2, <1>3
  <2> QED
    BY <2>1
<1> QED
  BY <1>3, <1>4

\* The copies that may leave a byte at a place of the caller's memory, and where such
\* a byte comes from.
Copies(k, start, end) ==
  {i \in 0 .. EndBlock(end) - StartBlock(start) :
     PieceFor(i, start, end).ofs <= k /\ k < After(PieceFor(i, start, end))}
\* Where in the file the byte at k comes from that the copy of block i leaves.
Source(i, k, start, end) ==
  (StartBlock(start) + i) * ClusterBytes + PieceFor(i, start, end).within + k - PieceFor(i, start, end).ofs

\* After a read a place holds what was there, when nothing was copied to it, or the byte
\* of one of the copies.
LEMMA ReadCopies ==
  ASSUME NEW start \in Nat, NEW end \in Nat, start <= end, loadfile12EX2(start, end), NEW k \in Places
  PROVE  \/ Copies(k, start, end) = {} /\ memory'[k] = memory[k]
         \/ \E i \in Copies(k, start, end) : memory'[k] = content[Source(i, k, start, end)]
<1> DEFINE pieces == ReadPieces(start, end)
           hi == EndBlock(end) - StartBlock(start)
           writers(q) == {i \in DOMAIN pieces : pieces[i].ofs <= q /\ q < After(pieces[i])}
           byte(i, q) == content[(StartBlock(start) + i) * ClusterBytes + pieces[i].within + q - pieces[i].ofs]
           latest(q) == CHOOSE i \in writers(q) : \A j \in writers(q) : j <= i
<1>1. memory'[k] = IF writers(k) = {} THEN memory[k] ELSE byte(latest(k), k)
  BY DEF loadfile12EX2
<1>2. DOMAIN pieces = 0 .. hi /\ \A i \in 0 .. hi : pieces[i] = PieceFor(i, start, end)
  BY ReadPiecesAre
<1>3. hi \in Nat
  <2>1. /\ StartBlock(start) \in Nat /\ EndBlock(end) \in Nat
        /\ StartBlock(start) <= EndBlock(end)
    BY BlocksOf
  <2> QED
    BY <2>1
<1> HIDE DEF pieces, hi
<1>4. writers(k) = Copies(k, start, end) /\ writers(k) \subseteq 0 .. hi
  BY <1>2 DEF Copies, hi
<1>5. \A i \in writers(k) : byte(i, k) = content[Source(i, k, start, end)]
  BY <1>2, <1>4 DEF Source
<1>6. CASE writers(k) = {}
  BY <1>1, <1>4, <1>6
<1>7. CASE writers(k) # {}
  <2> HIDE DEF writers, byte
  <2>1. \E m \in writers(k) : \A j \in writers(k) : j <= m
    BY <1>3, <1>4, <1>7, Greatest
  <2>2. latest(k) \in writers(k)
    BY <2>1
  <2> QED
    BY <1>1, <1>4, <1>5, <1>7, <2>2
<1> QED
  BY <1>6, <1>7

\* A copied byte is one of its piece and comes from the file.
LEMMA SourceLies ==
  ASSUME NEW start \in Nat, NEW end \in Places, start <= end, NEW k \in Nat, NEW i \in Copies(k, start, end)
  PROVE  LET x == PieceFor(i, start, end)  r == x.within + k - x.ofs IN
         /\ r \in 0 .. ClusterBytes - 1 /\ Covers(x, r) /\ x.ofs + r - x.within = k
         /\ Source(i, k, start, end) = (StartBlock(start) + i) * ClusterBytes + r
         /\ Source(i, k, start, end) \in Places
<1> DEFINE x == PieceFor(i, start, end)
           r == x.within + k - x.ofs
<1>0. end \in Nat
  BY PlacesAre
<1>1. StartBlock(start) \in Nat /\ EndBlock(end) \in Nat /\ StartBlock(start) <= EndBlock(end)
  BY <1>0, BlocksOf
<1>2. i \in Nat /\ i <= EndBlock(end) - StartBlock(start) /\ x.ofs <= k /\ k < x.ofs + x.length
  BY <1>1 DEF Copies, After
<1>3. /\ x.within \in Nat /\ x.length \in Nat /\ x.ofs \in Int
      /\ x.within + x.length <= ClusterBytes
  BY <1>0, <1>1, <1>2, PieceLies
<1>4. ClusterBytes \in Nat
  BY TransferAssumption DEF TransferAssumption
<1> HIDE DEF x
<1>5. r \in 0 .. ClusterBytes - 1 /\ Covers(x, r) /\ x.ofs + r - x.within = k
  BY <1>2, <1>3, <1>4 DEF Covers
<1> DEFINE b == StartBlock(start) + i
<1>6. b \in Int /\ b >= 0 /\ b <= end \div ClusterBytes
  BY <1>1, <1>2 DEF EndBlock
<1>7. b * ClusterBytes \in Int
  BY <1>4, <1>6
<1>8. Source(i, k, start, end) = b * ClusterBytes + r
  BY <1>3, <1>7 DEF Source, x
<1>9. b * ClusterBytes + r \in Places
  BY <1>5, <1>6, PlacesAre
<1> QED
  BY <1>5, <1>8, <1>9 DEF x

\* What a plain read copies comes from where it should, and it reaches no further.
LEMMA PlainSource ==
  ASSUME NEW start \in Nat, NEW end \in Places, start <= end, PlainRead(start, end),
         NEW k \in Nat, NEW i \in Copies(k, start, end)
  PROVE  Source(i, k, start, end) = start + k /\ k < Touched(start, end)
<1> DEFINE first == StartBlock(start)
           final == EndBlock(end)
           x == PieceFor(i, start, end)
           r == x.within + k - x.ofs
<1>0. end \in Nat
  BY PlacesAre
<1>1. /\ first \in Nat /\ final \in Nat /\ first <= final
      /\ start = first * ClusterBytes + StartAdj(start) /\ first * ClusterBytes \in Nat
  BY <1>0, BlocksOf
<1>2. ClusterBytes \in Nat /\ i \in Nat /\ i <= final - first
  BY <1>1, TransferAssumption DEF TransferAssumption, Copies
<1>3. /\ r \in 0 .. ClusterBytes - 1 /\ Covers(x, r) /\ x.ofs + r - x.within = k
      /\ Source(i, k, start, end) = (first + i) * ClusterBytes + r
  BY SourceLies
<1>4. CASE first = 0
  <2>1. first <= i /\ i <= final /\ first + i = i /\ r \in Int
    BY <1>1, <1>2, <1>3, <1>4
  <2>a. PICK m \in Int : m = i * ClusterBytes + r
    BY <1>2, <2>1
  <2>2. /\ Covers(x, r) <=> start <= m /\ m <= end
        /\ Covers(x, r) => x.ofs + r - x.within = m - start
    <3>1. StartBlock(start) <= i /\ i <= EndBlock(end)
      BY <1>4, <2>1
    <3> QED
      BY <1>0, <1>2, <1>3, <2>a, <3>1, PieceHas
  <2> HIDE DEF x, r, first, final
  <2>4. m = start + k
    BY <1>3, <2>2
  <2>5. Source(i, k, start, end) = start + k
    BY <1>3, <2>1, <2>a, <2>4
  <2>6. start + k <= end
    BY <1>3, <2>2, <2>4
  <2>7. k < end - start + 1
    BY <1>0, <2>6
  <2> QED
    BY <1>4, <2>5, <2>7 DEF Touched, first
<1>5. CASE first # 0 /\ StartAdj(start) = 0 /\ final < 2 * first
  <2>1. i < first /\ i # final
    BY <1>1, <1>2, <1>5
  <2>2. x = Piece(0, ClusterBytes, i * ClusterBytes)
    BY <1>1, <1>2, <2>1 DEF PieceFor, PieceOf, Ofs
  <2>3. x.within = 0 /\ x.ofs = i * ClusterBytes
    BY <2>2 DEF Piece
  <2> HIDE DEF x, first, final
  <2>4. i * ClusterBytes \in Nat /\ (first + i) * ClusterBytes = first * ClusterBytes + i * ClusterBytes
    BY <1>1, <1>2
  <2>5. r = k - i * ClusterBytes
    BY <2>3, <2>4
  <2>6. start = first * ClusterBytes
    BY <1>1, <1>5
  <2>7. Source(i, k, start, end) = start + k
    BY <1>1, <1>3, <2>4, <2>5, <2>6
  <2>8. i * ClusterBytes + ClusterBytes <= (final - first + 1) * ClusterBytes
    <3>1. final - first + 1 \in Int /\ i < final - first + 1
      BY <1>1, <1>2
    <3> QED
      BY <1>2, <3>1, BlocksInOrder
  <2>9. (final - first + 1) * ClusterBytes \in Int
    BY <1>1, <1>2
  <2>10. k < (final - first + 1) * ClusterBytes
    BY <1>2, <1>3, <2>4, <2>5, <2>8, <2>9
  <2> QED
    BY <1>5, <2>7, <2>10 DEF Touched, first, final
<1> QED
  BY <1>4, <1>5 DEF PlainRead

\* And it copies every byte it should.
LEMMA PlainCopies ==
  ASSUME NEW start \in Nat, NEW end \in Nat, start <= end, PlainRead(start, end), NEW k \in 0 .. end - start
  PROVE  Copies(k, start, end) # {}
<1> DEFINE first == StartBlock(start)
           final == EndBlock(end)
<1>1. /\ first \in Nat /\ final \in Nat /\ first <= final
      /\ StartAdj(start) \in 0 .. ClusterBytes - 1 /\ Adj(end) \in 1 .. ClusterBytes
      /\ start = first * ClusterBytes + StartAdj(start)
      /\ end = final * ClusterBytes + Adj(end) - 1
      /\ first * ClusterBytes \in Nat /\ final * ClusterBytes \in Nat
  BY BlocksOf
<1>2. ClusterBytes \in Nat
  BY TransferAssumption DEF TransferAssumption
<1>3. CASE first = 0
  <2> DEFINE b == (start + k) \div ClusterBytes
             r == (start + k) % ClusterBytes
             x == PieceFor(b, start, end)
  <2>1. b \in Nat /\ r \in 0 .. ClusterBytes - 1 /\ start + k = b * ClusterBytes + r
    BY PlaceInBlock
  <2>2. b * ClusterBytes \in Nat /\ r \in Nat
    BY <1>2, <2>1
  <2> HIDE DEF b, r, first, final
  <2>3. b <= final
    <3>1. final < b => final * ClusterBytes + ClusterBytes <= b * ClusterBytes
      BY <1>1, <2>1, BlocksInOrder
    <3>2. start + k <= end
      OBVIOUS
    <3> QED
      BY <1>1, <1>2, <2>1, <2>2, <3>1, <3>2
  <2>4. /\ Covers(x, r) <=> start <= start + k /\ start + k <= end
        /\ Covers(x, r) => x.ofs + r - x.within = start + k - start
    <3>1. StartBlock(start) <= b /\ b <= EndBlock(end)
      BY <1>3, <2>1, <2>3 DEF first, final
    <3> QED
      BY <2>1, <3>1, PieceHas
  <2>5. Covers(x, r) /\ x.ofs + r - x.within = k
    <3>1. start <= start + k /\ start + k <= end /\ start + k - start = k
      OBVIOUS
    <3> QED
      BY <2>4, <3>1
  <2>6. x.within \in Nat /\ x.length \in Nat /\ x.ofs \in Int
    BY <2>1, <2>3, PieceLies DEF final
  <2> HIDE DEF x
  <2>7. x.ofs <= k /\ k < x.ofs + x.length
    BY <2>2, <2>5, <2>6 DEF Covers
  <2>8. b \in 0 .. final - first
    BY <1>1, <1>3, <2>1, <2>3
  <2> QED
    BY <2>7, <2>8 DEF Copies, After, x, first, final
<1>4. CASE first # 0 /\ StartAdj(start) = 0 /\ final < 2 * first
  <2> DEFINE b == k \div ClusterBytes
             r == k % ClusterBytes
             x == PieceFor(b, start, end)
  <2>1. b \in Nat /\ r \in 0 .. ClusterBytes - 1 /\ k = b * ClusterBytes + r
    BY PlaceInBlock
  <2>2. b * ClusterBytes \in Nat /\ r \in Nat
    BY <1>2, <2>1
  <2> HIDE DEF b, r, first, final
  <2>3. b <= final - first
    <3>1. final - first < b => (final - first) * ClusterBytes + ClusterBytes <= b * ClusterBytes
      BY <1>1, <2>1, BlocksInOrder
    <3>2. (final - first) * ClusterBytes = final * ClusterBytes - first * ClusterBytes
      BY <1>1, <1>2
    <3>3. k <= end - start /\ end - start = final * ClusterBytes + Adj(end) - 1 - first * ClusterBytes
      BY <1>1, <1>4
    <3> QED
      BY <1>1, <1>2, <2>1, <2>2, <3>1, <3>2, <3>3
  <2>4. b < first /\ b # final
    BY <1>1, <1>4, <2>1, <2>3
  <2>5. x = Piece(0, ClusterBytes, b * ClusterBytes)
    BY <1>1, <2>1, <2>4 DEF PieceFor, PieceOf, Ofs, first, final
  <2>6. x.ofs <= k /\ k < After(x)
    BY <1>2, <2>1, <2>2, <2>5 DEF Piece, After
  <2>7. b \in 0 .. final - first
    BY <1>1, <2>1, <2>3
  <2> QED
    BY <2>6, <2>7 DEF Copies, first, final
<1> QED
  BY <1>3, <1>4 DEF PlainRead

\* A byte that a write is given goes to its place, every other byte stays.
LEMMA WritePuts ==
  ASSUME NEW start \in Places, NEW end \in Places, start <= end,
         NEW buf, writefile12EX2(start, end, buf), NEW k \in Places
  PROVE  content'[k] = IF start <= k /\ k <= end THEN buf[k - start] ELSE content[k]
<1> DEFINE first == StartBlock(start)
           final == EndBlock(end)
           b == k \div ClusterBytes
           r == k % ClusterBytes
           pieces == WritePieces(start, end)
<1>0. start \in Nat /\ end \in Nat /\ k \in Nat
  BY PlacesAre
<1>1. /\ first \in Nat /\ final \in Nat /\ first <= final
      /\ StartAdj(start) \in 0 .. ClusterBytes - 1 /\ Adj(end) \in 1 .. ClusterBytes
      /\ start = first * ClusterBytes + StartAdj(start)
      /\ end = final * ClusterBytes + Adj(end) - 1
      /\ first * ClusterBytes \in Nat /\ final * ClusterBytes \in Nat
  BY <1>0, BlocksOf
<1>2. b \in Nat /\ r \in 0 .. ClusterBytes - 1 /\ k = b * ClusterBytes + r
  BY <1>0, PlaceInBlock
<1>3. ClusterBytes \in Nat /\ b * ClusterBytes \in Int /\ r \in Int
  BY <1>2, TransferAssumption DEF TransferAssumption
<1>4. content'[k] = IF b \in DOMAIN pieces /\ Covers(pieces[b], r)
                    THEN buf[pieces[b].ofs + r - pieces[b].within] ELSE content[k]
  BY DEF writefile12EX2
<1>5. DOMAIN pieces = first .. final /\ \A c \in first .. final : pieces[c] = PieceFor(c, start, end)
  BY <1>0, WritePiecesAre
<1> HIDE DEF pieces, b, r
<1>6. CASE b \in first .. final
  <2>1. first <= b /\ b <= final
    BY <1>1, <1>6
  <2>2. /\ Covers(PieceFor(b, start, end), r) <=> start <= k /\ k <= end
        /\ Covers(PieceFor(b, start, end), r) =>
              PieceFor(b, start, end).ofs + r - PieceFor(b, start, end).within = k - start
    BY <1>0, <1>2, <2>1, PieceHas DEF first, final
  <2>3. pieces[b] = PieceFor(b, start, end) /\ b \in DOMAIN pieces
    BY <1>5, <1>6
  <2> QED
    BY <1>4, <2>2, <2>3
<1>7. CASE b \notin first .. final
  <2> HIDE DEF first, final
  <2>1. b < first \/ final < b
    BY <1>1, <1>2, <1>7
  <2>2. b < first => b * ClusterBytes + ClusterBytes <= first * ClusterBytes
    BY <1>1, <1>2, BlocksInOrder
  <2>3. final < b => final * ClusterBytes + ClusterBytes <= b * ClusterBytes
    BY <1>1, <1>2, BlocksInOrder
  <2>4. b < first => k < start
    BY <1>0, <1>1, <1>2, <1>3, <2>2
  <2>5. final < b => end < k
    BY <1>0, <1>1, <1>2, <1>3, <2>3
  <2>6. ~(start <= k /\ k <= end)
    BY <1>0, <2>1, <2>4, <2>5
  <2> QED
    BY <1>4, <1>5, <1>7, <2>6
<1> QED
  BY <1>6, <1>7

\* What a reader's memory holds once a read is over.
Fits(start, end) ==
  PlainRead(start, end) =>
    /\ \A k \in 0 .. end - start : memory[k] = content[start + k]
    /\ \A k \in Places : k >= Touched(start, end) => memory[k] = Unset

\* What holds after each write and read: TransfersAreExact, with the request being one of
\* the file, and a memory no read has touched yet.
TransferInv ==
  /\ content \in [Places -> Stamps] /\ intended = content
  /\ memory \in [Places -> Stamps \cup {Unset}]
  /\ asked = NoRequest => memory = Untouched
  /\ asked # NoRequest =>
       \E start, end \in Places : start <= end /\ asked = <<start, end>> /\ Fits(start, end)

\* A write keeps it, ...
LEMMA WriteStep ==
  ASSUME TransferInv, NEW start \in Places, NEW end \in Places, start <= end,
         NEW buf \in [0 .. end - start -> Stamps], writefile12EX2(start, end, buf)
  PROVE  TransferInv'
<1>0. /\ asked = NoRequest /\ asked' = NoRequest /\ memory' = memory
      /\ intended' = [k \in Places |-> IF start <= k /\ k <= end THEN buf[k - start] ELSE intended[k]]
  BY DEF writefile12EX2
<1>1. content' = [k \in Places |-> content'[k]]
  BY DEF writefile12EX2
<1>2. \A k \in Places : content'[k] = IF start <= k /\ k <= end THEN buf[k - start] ELSE content[k]
  BY WritePuts
<1>3. \A k \in Places : content'[k] \in Stamps
  <2>1. SUFFICES ASSUME NEW k \in Places PROVE content'[k] \in Stamps
    OBVIOUS
  <2>2. start \in Nat /\ end \in Nat /\ k \in Nat
    BY PlacesAre
  <2>3. CASE start <= k /\ k <= end
    <3>1. k - start \in 0 .. end - start
      BY <2>2, <2>3
    <3> QED
      BY <1>2, <2>3, <3>1
  <2>4. CASE ~(start <= k /\ k <= end)
    BY <1>2, <2>4 DEF TransferInv
  <2> QED
    BY <2>3, <2>4
<1>4. content' \in [Places -> Stamps]
  BY <1>1, <1>3
<1>5. intended' = content'
  <2>1. intended' = [k \in Places |-> IF start <= k /\ k <= end THEN buf[k - start] ELSE content[k]]
    BY <1>0 DEF TransferInv
  <2> QED
    BY <1>1, <1>2, <2>1
<1>6. (memory \in [Places -> Stamps \cup {Unset}])'
  BY <1>0 DEF TransferInv
<1>7. (asked = NoRequest => memory = Untouched)'
  BY <1>0 DEF TransferInv, Untouched
<1> QED
  BY <1>0, <1>4, <1>5, <1>6, <1>7 DEF TransferInv

\* a read does, ...
LEMMA ReadStep ==
  ASSUME TransferInv, NEW start \in Places, NEW end \in Places, start <= end,
         loadfile12EX2(start, end)
  PROVE  TransferInv'
<1>0. start \in Nat /\ end \in Nat /\ Places \subseteq Nat
  BY PlacesAre
<1>1. /\ asked = NoRequest /\ asked' = <<start, end>> /\ memory = Untouched
      /\ content' = content /\ intended' = intended
  BY DEF loadfile12EX2, TransferInv
<1>2. memory' = [k \in Places |-> memory'[k]]
  BY DEF loadfile12EX2
<1>3. \A k \in Places :
        \/ Copies(k, start, end) = {} /\ memory'[k] = Unset
        \/ \E i \in Copies(k, start, end) : memory'[k] = content[Source(i, k, start, end)]
  <2>1. SUFFICES ASSUME NEW k \in Places
                 PROVE  \/ Copies(k, start, end) = {} /\ memory'[k] = Unset
                        \/ \E i \in Copies(k, start, end) : memory'[k] = content[Source(i, k, start, end)]
    OBVIOUS
  <2>2. \/ Copies(k, start, end) = {} /\ memory'[k] = memory[k]
        \/ \E i \in Copies(k, start, end) : memory'[k] = content[Source(i, k, start, end)]
    BY <1>0, ReadCopies
  <2>3. memory[k] = Unset
    BY <1>1 DEF Untouched
  <2> QED
    BY <2>2, <2>3
<1>4. ASSUME NEW k \in Places PROVE memory'[k] \in Stamps \cup {Unset}
  <2>1. CASE memory'[k] = Unset
    BY <2>1
  <2>2. ASSUME NEW i \in Copies(k, start, end), memory'[k] = content[Source(i, k, start, end)]
        PROVE  memory'[k] \in Stamps
    <3>1. k \in Nat
      BY <1>0
    <3>2. Source(i, k, start, end) \in Places
      BY <1>0, <3>1, SourceLies
    <3> QED
      BY <2>2, <3>2 DEF TransferInv
  <2> QED
    BY <1>3, <2>1, <2>2
<1>5. ASSUME PlainRead(start, end), NEW k \in 0 .. end - start
      PROVE  memory'[k] = content[start + k]
  <2>1. k \in Nat /\ k <= end
    BY <1>0
  <2>2. k \in Places
    <3>1. ClusterBytes * FileClusters \in Int
      BY TransferAssumption DEF TransferAssumption
    <3> QED
      BY <2>1, <3>1 DEF Places
  <2>3. Copies(k, start, end) # {}
    BY <1>0, <1>5, PlainCopies
  <2>4. PICK i \in Copies(k, start, end) : memory'[k] = content[Source(i, k, start, end)]
    BY <1>3, <2>2, <2>3
  <2>5. Source(i, k, start, end) = start + k
    BY <1>0, <1>5, <2>1, PlainSource
  <2> QED
    BY <2>4, <2>5
<1>6. ASSUME PlainRead(start, end), NEW k \in Places, k >= Touched(start, end)
      PROVE  memory'[k] = Unset
  <2>1. Touched(start, end) \in Int
    <3>1. StartBlock(start) \in Nat /\ EndBlock(end) \in Nat
      BY <1>0, BlocksOf
    <3>2. ClusterBytes \in Nat
      BY TransferAssumption DEF TransferAssumption
    <3>3. (EndBlock(end) - StartBlock(start) + 1) * ClusterBytes \in Int
      BY <3>1, <3>2
    <3> QED
      BY <1>0, <3>3 DEF Touched
  <2>2. k \in Nat
    BY <1>0
  <2>3. ASSUME NEW i \in Copies(k, start, end) PROVE FALSE
    <3>1. k < Touched(start, end)
      BY <1>0, <1>6, <2>2, PlainSource
    <3> QED
      BY <1>6, <2>1, <2>2, <3>1
  <2> QED
    BY <1>3, <2>3
<1>7. (memory \in [Places -> Stamps \cup {Unset}])'
  BY <1>2, <1>4
<1>8. Fits(start, end)'
  BY <1>1, <1>5, <1>6 DEF Fits, PlainRead, Touched
<1>9. <<start, end>> # NoRequest
  BY DEF NoRequest
<1> QED
  BY <1>1, <1>7, <1>8, <1>9 DEF TransferInv

\* and it always holds.
LEMMA TransferInvHolds == TransferSpec => []TransferInv
<1>1. ASSUME TransferInit PROVE TransferInv
  <2>1. Untouched \in [Places -> Stamps \cup {Unset}]
    BY DEF Untouched
  <2> QED
    BY <1>1, <2>1 DEF TransferInit, TransferInv
<1>2. ASSUME TransferInv, [TransferNext]_transferVars PROVE TransferInv'
  <2>1. CASE UNCHANGED transferVars
    <3>1. content' = content /\ memory' = memory /\ intended' = intended /\ asked' = asked
      BY <2>1 DEF transferVars
    <3>2. \A start, end \in Places : Fits(start, end) => Fits(start, end)'
      BY <3>1 DEF Fits, PlainRead, Touched
    <3> QED
      BY <1>2, <3>1, <3>2 DEF TransferInv, Untouched
  <2>2. CASE ReadIsUsed
    <3>1. Untouched \in [Places -> Stamps \cup {Unset}]
      BY DEF Untouched
    <3> QED
      BY <1>2, <2>2, <3>1 DEF ReadIsUsed, TransferInv, Untouched
  <2>3. ASSUME NEW start \in Places, NEW end \in Places, start <= end, loadfile12EX2(start, end)
        PROVE  TransferInv'
    BY <1>2, <2>3, ReadStep
  <2>4. ASSUME NEW start \in Places, NEW end \in Places, start <= end,
               NEW buf \in [0 .. end - start -> Stamps], writefile12EX2(start, end, buf)
        PROVE  TransferInv'
    BY <1>2, <2>4, WriteStep
  <2> QED
    BY <1>2, <2>1, <2>2, <2>3, <2>4 DEF TransferNext
<1> QED
  BY <1>1, <1>2, PTL DEF TransferSpec

\* TransfersAreExact, for clusters of any size, files of any number of them and transfers
\* of any bytes: a write (writefile12EX2) puts each byte in its place and touches no other,
\* and a read (loadfile12EX2) from the first cluster, or from the start of another over no
\* more clusters than lie before it, gives the bytes asked for and stays in their bounds.
THEOREM ExactTransfers == TransferSpec => []TransfersAreExact
<1>1. TransferInv => TransfersAreExact
  BY DEF TransferInv, TransfersAreExact, Fits
<1> QED
  BY <1>1, TransferInvHolds, PTL

------------------------------------------------------------------------------
\* Division, and multiplication by a sector's length.
LEMMA InSector ==
  ASSUME NEW k \in Nat
  PROVE  /\ k \div SectorBytes \in Nat /\ k % SectorBytes \in 0 .. SectorBytes - 1
         /\ (k \div SectorBytes) * SectorBytes \in Nat
         /\ k = (k \div SectorBytes) * SectorBytes + (k % SectorBytes)
<1>1. /\ k \div SectorBytes \in Nat /\ k % SectorBytes \in 0 .. SectorBytes - 1
      /\ k = (k \div SectorBytes) * SectorBytes + (k % SectorBytes)
  BY CdAssumption DEF CdAssumption
<1>2. SectorBytes \in Nat
  BY CdAssumption DEF CdAssumption
<1> QED
  BY <1>1, <1>2

\* The records of a disc.
LEMMA RecordsAre ==
  ASSUME NEW r \in Records
  PROVE  /\ Len(r) \in Nat \ {0} /\ DOMAIN r = 1 .. Len(r)
         /\ \A i \in 1 .. Len(r) : r[i].size \in 1 .. SectorBytes /\ r[i].isDir \in BOOLEAN
<1>1. PICK n \in 1 .. MaxRecords : r \in [1 .. n -> [size : RecordBytes, isDir : BOOLEAN]]
  BY DEF Records
<1>2. MaxRecords \in Nat /\ RecordBytes \subseteq 1 .. SectorBytes
  BY CdAssumption DEF CdAssumption
<1>3. n \in Nat \ {0} /\ Len(r) = n /\ DOMAIN r = 1 .. n
  BY <1>1, <1>2
<1>4. \A i \in 1 .. n : r[i] \in [size : RecordBytes, isDir : BOOLEAN]
  BY <1>1
<1> QED
  BY <1>2, <1>3, <1>4

\* A record follows the one before it or begins a sector further on.
LEMMA OffsetAfterIs ==
  ASSUME NEW r \in Records, NEW i \in 2 .. Len(r) + 1, NEW o \in Nat
  PROVE  /\ OffsetAfter(r, i, o) \in Nat /\ o + r[i - 1].size <= OffsetAfter(r, i, o)
         /\ \/ OffsetAfter(r, i, o) = o + r[i - 1].size
            \/ OffsetAfter(r, i, o) >= SectorBytes
<1>1. PICK next : next = o + r[i - 1].size
  OBVIOUS
<1>2. i - 1 \in 1 .. Len(r) /\ SectorBytes \in Nat \ {0}
  BY RecordsAre, CdAssumption DEF CdAssumption
<1>3. r[i - 1].size \in 1 .. SectorBytes
  BY <1>2, RecordsAre
<1>4. next \in Nat
  BY <1>1, <1>2, <1>3
<1>5. PICK q, p, t : q = next \div SectorBytes /\ p = q * SectorBytes /\ t = next % SectorBytes
  OBVIOUS
<1>6. q \in Nat /\ p \in Nat /\ t \in 0 .. SectorBytes - 1 /\ next = p + t
  BY <1>4, <1>5, InSector
<1>7. (q + 1) * SectorBytes = p + SectorBytes
  BY <1>2, <1>5, <1>6
<1>8. OffsetAfter(r, i, o) \in {next, p + SectorBytes}
  BY <1>1, <1>5, <1>7 DEF OffsetAfter
<1>9. p + SectorBytes \in Nat /\ p + SectorBytes >= SectorBytes /\ next <= p + SectorBytes
  BY <1>2, <1>6
<1> QED
  BY <1>1, <1>4, <1>8, <1>9

\* The offsets of the first n records, one after the other.
Placed(at, r, n) ==
  at = [i \in 1 .. n |-> IF i = 1 THEN 0 ELSE OffsetAfter(r, i, at[i - 1])]

\* There are such: the first n without them would follow one that has them.
LEMMA PlacesExist ==
  ASSUME NEW r, NEW n \in Nat
  PROVE  \E at : Placed(at, r, n)
<1> DEFINE T == {k \in Nat : ~\E at : Placed(at, r, k)}
<1> SUFFICES ASSUME T # {} PROVE FALSE
  OBVIOUS
<1>1. PICK m \in T : \A k \in T : m <= k
  <2>1. T \in SUBSET Nat
    OBVIOUS
  <2> HIDE DEF T
  <2> QED
    BY <2>1, HasLeast
<1>2. m \in Nat /\ ~\E at : Placed(at, r, m)
  BY <1>1
<1>3. CASE m = 0
  <2>1. Placed([i \in 1 .. 0 |-> 0], r, 0)
    <3>1. 1 .. 0 = {}
      OBVIOUS
    <3>2. \A f, g : [i \in {} |-> f[i]] = [i \in {} |-> g[i]]
      OBVIOUS
    <3> QED
      BY <3>1 DEF Placed
  <2> QED
    BY <1>2, <1>3, <2>1
<1>4. CASE m # 0
  <2>1. m - 1 \in Nat /\ m - 1 \notin T
    BY <1>1, <1>2, <1>4
  <2>2. PICK at : Placed(at, r, m - 1)
    BY <2>1
  <2> DEFINE to == [i \in 1 .. m |-> IF i = m THEN IF m = 1 THEN 0 ELSE OffsetAfter(r, m, at[m - 1])
                                     ELSE at[i]]
             rule(i) == IF i = 1 THEN 0 ELSE OffsetAfter(r, i, to[i - 1])
  <2>3. \A i \in 1 .. m - 1 : at[i] = IF i = 1 THEN 0 ELSE OffsetAfter(r, i, at[i - 1])
    BY <2>2 DEF Placed
  <2>4. ASSUME NEW i \in 1 .. m PROVE to[i] = rule(i)
    <3>1. i = 1 \/ (i - 1 \in 1 .. m - 1 /\ to[i - 1] = at[i - 1])
      BY <1>2
    <3>2. CASE i = m
      <4>1. to[i] = IF i = 1 THEN 0 ELSE OffsetAfter(r, i, at[i - 1])
        BY <3>2
      <4> HIDE DEF to
      <4> QED
        BY <3>1, <4>1
    <3>3. CASE i # m
      <4>1. to[i] = at[i] /\ i \in 1 .. m - 1
        BY <1>2, <3>3
      <4> HIDE DEF to
      <4> QED
        BY <2>3, <3>1, <4>1
    <3> QED
      BY <3>2, <3>3
  <2>5. to = [i \in 1 .. m |-> rule(i)]
    <3>1. to = [i \in 1 .. m |-> to[i]]
      OBVIOUS
    <3> HIDE DEF to, rule
    <3> QED
      BY <2>4, <3>1
  <2>6. Placed(to, r, m)
    BY <2>5 DEF Placed
  <2> QED
    BY <1>2, <2>6
<1> QED
  BY <1>3, <1>4

\* Where the records lie.
LEMMA OffsetsAre ==
  ASSUME NEW r \in Records
  PROVE  /\ Offset(r)[1] = 0
         /\ \A i \in 1 .. Len(r) + 1 : Offset(r)[i] \in Nat
         /\ \A i \in 2 .. Len(r) + 1 : Offset(r)[i] = OffsetAfter(r, i, Offset(r)[i - 1])
<1>1. PICK n : n = Len(r) + 1
  OBVIOUS
<1>2. n \in Nat /\ n >= 1
  BY <1>1, RecordsAre
<1>3. \E at : Placed(at, r, n)
  BY <1>2, PlacesExist
<1>4. Offset(r) = CHOOSE at : Placed(at, r, n)
  BY <1>1, Zenon DEF Offset, Placed
<1>5. Placed(Offset(r), r, n)
  BY <1>3, <1>4, Zenon
<1>6. PICK at : at = Offset(r)
  OBVIOUS
<1>7. \A i \in 1 .. n : at[i] = IF i = 1 THEN 0 ELSE OffsetAfter(r, i, at[i - 1])
  BY <1>5, <1>6 DEF Placed
<1>8. at[1] = 0 /\ \A i \in 2 .. n : at[i] = OffsetAfter(r, i, at[i - 1])
  BY <1>2, <1>7
<1>9. \A i \in 1 .. n : at[i] \in Nat
  <2> DEFINE T == {i \in 1 .. n : at[i] \notin Nat}
  <2> SUFFICES ASSUME T # {} PROVE FALSE
    OBVIOUS
  <2>1. PICK m \in T : \A k \in T : m <= k
    <3>1. T \in SUBSET Nat
      OBVIOUS
    <3> HIDE DEF T
    <3> QED
      BY <3>1, HasLeast
  <2>2. m \in 2 .. n /\ m - 1 \in 1 .. n /\ at[m - 1] \in Nat
    BY <1>2, <1>8, <2>1
  <2>3. OffsetAfter(r, m, at[m - 1]) \in Nat
    BY <1>1, <2>2, OffsetAfterIs
  <2> QED
    BY <1>8, <2>1, <2>2, <2>3
<1> QED
  BY <1>1, <1>6, <1>8, <1>9

\* Record j begins where record i ends, or further on, ...
LEMMA OffsetsRise ==
  ASSUME NEW r \in Records, NEW i \in 1 .. Len(r), NEW j \in i + 1 .. Len(r) + 1
  PROVE  Offset(r)[i] + r[i].size <= Offset(r)[j]
<1>1. PICK n, at : n = Len(r) + 1 /\ at = Offset(r)
  OBVIOUS
<1>2. n \in Nat /\ n >= 1 /\ \A k \in 1 .. n : at[k] \in Nat
  BY <1>1, RecordsAre, OffsetsAre
<1>3. \A k \in 2 .. n : at[k - 1] + r[k - 1].size <= at[k] /\ r[k - 1].size \in Nat
  <2> SUFFICES ASSUME NEW k \in 2 .. n
               PROVE  at[k - 1] + r[k - 1].size <= at[k] /\ r[k - 1].size \in Nat
    OBVIOUS
  <2>1. k - 1 \in 1 .. Len(r) /\ k - 1 \in 1 .. n
    BY <1>1, RecordsAre
  <2>2. r[k - 1].size \in 1 .. SectorBytes /\ SectorBytes \in Nat
    BY <2>1, RecordsAre, CdAssumption DEF CdAssumption
  <2>3. at[k] = OffsetAfter(r, k, at[k - 1]) /\ at[k - 1] \in Nat
    BY <1>1, <1>2, <2>1, OffsetsAre
  <2>4. at[k - 1] + r[k - 1].size <= at[k]
    BY <1>1, <2>3, OffsetAfterIs
  <2> QED
    BY <2>2, <2>4
<1> DEFINE T == {k \in i + 1 .. n : ~(at[i] + r[i].size <= at[k])}
<1> SUFFICES ASSUME T # {} PROVE FALSE
  BY <1>1
<1>4. PICK m \in T : \A k \in T : m <= k
  <2>1. T \in SUBSET Nat
    BY <1>2
  <2> HIDE DEF T
  <2> QED
    BY <2>1, HasLeast
<1>5. m \in i + 1 .. n /\ ~(at[i] + r[i].size <= at[m])
  BY <1>4
<1>6. m \in 2 .. n /\ m - 1 \in 1 .. n /\ i \in 1 .. n /\ i + 1 \in 2 .. n
  BY <1>1, <1>2, <1>5
<1>7. CASE m = i + 1
  <2>1. m - 1 = i
    BY <1>7
  <2> QED
    BY <1>3, <1>5, <1>6, <2>1
<1>8. CASE m # i + 1
  <2>1. m - 1 \in i + 1 .. n /\ m - 1 \notin T
    BY <1>4, <1>5, <1>6, <1>8
  <2>2. at[i] + r[i].size <= at[m - 1]
    BY <2>1
  <2>3. at[m - 1] + r[m - 1].size <= at[m] /\ r[m - 1].size \in Nat
    BY <1>3, <1>6
  <2>4. at[i] \in Nat /\ at[m - 1] \in Nat /\ at[m] \in Nat
    BY <1>2, <1>6
  <2>5. i + 1 - 1 = i /\ r[i].size \in Nat
    BY <1>3, <1>6
  <2>6. PICK x, y, z, s, t : /\ x = at[i] /\ y = at[m - 1] /\ z = at[m]
                             /\ s = r[i].size /\ t = r[m - 1].size
    OBVIOUS
  <2>7. x + s <= y /\ y + t <= z /\ {x, y, z, s, t} \subseteq Nat
    BY <2>2, <2>3, <2>4, <2>5, <2>6
  <2>8. x + s <= z
    BY <2>7
  <2> QED
    BY <1>5, <2>6, <2>8
<1> QED
  BY <1>7, <1>8

\* The sectors of a directory hold its records.
LEMMA ExtentIs ==
  ASSUME NEW r \in Records
  PROVE  Extent(r) \in Nat /\ Offset(r)[Len(r) + 1] <= Extent(r)
<1>1. PICK x, y : x = Offset(r)[Len(r) + 1] /\ y = x + SectorBytes - 1
  OBVIOUS
<1>2. SectorBytes \in Nat \ {0} /\ x \in Nat
  <2>1. Len(r) + 1 \in 1 .. Len(r) + 1
    BY RecordsAre
  <2> QED
    BY <1>1, <2>1, OffsetsAre, CdAssumption DEF CdAssumption
<1>3. y \in Nat
  BY <1>1, <1>2
<1>4. PICK p, t : p = (y \div SectorBytes) * SectorBytes /\ t = y % SectorBytes
  OBVIOUS
<1>5. p \in Nat /\ t \in 0 .. SectorBytes - 1 /\ y = p + t
  BY <1>3, <1>4, InSector
<1>6. Extent(r) = p
  BY <1>1, <1>4 DEF Extent
<1>7. x <= p
  BY <1>1, <1>2, <1>5
<1> QED
  BY <1>1, <1>5, <1>6, <1>7

\* What the driver finds at a byte of the directory.
LEMMA RecordAtIs ==
  ASSUME NEW r \in Records, NEW b \in Nat
  PROVE  /\ RecordAt(r, b) # 0 => RecordAt(r, b) \in 1 .. Len(r) /\ Offset(r)[RecordAt(r, b)] = b
         /\ RecordAt(r, b) = 0 => \A i \in 1 .. Len(r) : Offset(r)[i] # b
<1>1. DOMAIN r = 1 .. Len(r) /\ Len(r) \in Nat
  BY RecordsAre
<1>2. CASE \E i \in DOMAIN r : Offset(r)[i] = b
  <2>1. RecordAt(r, b) \in DOMAIN r /\ Offset(r)[RecordAt(r, b)] = b
    BY <1>2 DEF RecordAt
  <2> QED
    BY <1>1, <2>1
<1>3. CASE ~\E i \in DOMAIN r : Offset(r)[i] = b
  BY <1>1, <1>3 DEF RecordAt
<1> QED
  BY <1>2, <1>3

\* The descriptor that is used is the first one of Joliet among those that are read.
JolietFits ==
  /\ joliet \in BOOLEAN
  /\ doingCd \in {"unmounted", "descriptors"} => joliet = FALSE
  /\ doingCd = "descriptors" =>
       /\ vol_num \in 1 .. MaxDescriptors - 1
       /\ \A k \in DOMAIN descriptors : k < vol_num => descriptors[k] # "joliet"
  /\ doingCd \in {"directory", "records", "mounted"} =>
       (joliet <=> \E k \in DOMAIN descriptors : k < MaxDescriptors /\ descriptors[k] = "joliet")

\* The nodes are those of the first records, which follow each other.
NodesFit ==
  /\ doingCd \notin {"records", "mounted"} => shown = <<>> /\ sized = 0
  /\ shown \in Seq(Nat) /\ Len(shown) \in 0 .. Len(records)
  /\ Len(shown) = 0 => sized = 0
  /\ Len(shown) # 0 => sized = Offset(records)[Len(shown)] + records[Len(shown)].size
  /\ \A i \in 1 .. Len(shown) : InFirstRun(i) /\ shown[Len(shown) + 1 - i] = iso9660_convertname(i)
  /\ doingCd = "mounted" =>
       Len(shown) = Len(records) \/ Offset(records)[Len(shown) + 1] # sized

\* What was read is what was asked for.
DataFits ==
  /\ doingCd # "mounted" => data_buffer = <<>>
  /\ data_buffer # <<>> =>
       data_buffer = [k \in 1 .. wanted[2] - wanted[1] + 1 |-> wanted[1] + k - 1]

\* The invariant, of a driver all whose requests succeeded: where it is, a disc of the
\* standard, and the three parts above.
CdParts ==
  /\ doingCd \in {"unmounted", "descriptors", "directory", "records", "mounted"}
  /\ descriptors \in Descriptors /\ records \in Records
  /\ JolietFits /\ NodesFit /\ DataFits

\* What holds until clouded records a failure of the drive.
CdInv == ~clouded => CdParts

\* No nodes are made before the loop of iso9660_mount.
LEMMA NoNodesYet ==
  ASSUME records' \in Records, shown' = <<>>, sized' = 0, doingCd' # "mounted"
  PROVE  NodesFit'
<1>1. shown' \in Seq(Nat) /\ Len(shown') = 0 /\ Len(records') \in Nat
  BY RecordsAre
<1> QED
  BY <1>1 DEF NodesFit

\* While the nodes and the disc stay, so does what was said of them.
LEMMA NodesStay ==
  ASSUME NodesFit, UNCHANGED <<records, joliet, shown, sized, doingCd>>
  PROVE  NodesFit'
<1>1. \A i : (InFirstRun(i)' <=> InFirstRun(i)) /\ iso9660_convertname(i)' = iso9660_convertname(i)
  BY DEF InFirstRun, iso9660_convertname
<1> QED
  BY <1>1 DEF NodesFit

\* The driver reads the first descriptor: nothing is shown and no Joliet is known.
LEMMA MountrootStep ==
  ASSUME CdInv, iso9660_mountroot, ~clouded'
  PROVE  CdParts'
<1>1. /\ ~clouded /\ doingCd = "unmounted" /\ doingCd' = "descriptors" /\ vol_num' = 1
      /\ UNCHANGED <<discVars, joliet, sized, shown, wanted, data_buffer>>
  BY DEF iso9660_mountroot, CdSteps, CdFails
<1>2. CdParts
  BY <1>1 DEF CdInv
<1>3. descriptors' = descriptors /\ records' = records
  BY <1>1 DEF discVars
<1>4. JolietFits'
  <2>1. 1 \in 1 .. MaxDescriptors - 1
    BY CdAssumption DEF CdAssumption
  <2>2. \A k \in DOMAIN descriptors : ~(k < 1)
    <3>1. \A k \in DOMAIN descriptors : k \in Nat \ {0}
      BY <1>2, CdAssumption DEF CdParts, Descriptors, CdAssumption
    <3> QED
      BY <3>1
  <2> QED
    BY <1>1, <1>2, <1>3, <2>1, <2>2 DEF CdParts, JolietFits
<1>5. NodesFit'
  <2>1. records' \in Records /\ shown' = <<>> /\ sized' = 0 /\ doingCd' # "mounted"
    BY <1>1, <1>2, <1>3 DEF CdParts, NodesFit
  <2> QED
    BY <2>1, NoNodesYet
<1>6. DataFits'
  BY <1>1, <1>2 DEF CdParts, DataFits
<1> QED
  BY <1>1, <1>2, <1>3, <1>4, <1>5, <1>6 DEF CdParts

\* A turn of the loop over the descriptors: none before vol_num was one of Joliet, and
\* the loop ends at the first one, behind the last one, or after MaxDescriptors of them.
LEMMA DescriptorStep ==
  ASSUME CdInv, ReadsDescriptor, ~clouded'
  PROVE  CdParts'
<1> DEFINE past == vol_num > Len(descriptors)
           found == ~past /\ descriptors[vol_num] = "joliet"
<1>1. /\ ~clouded /\ doingCd = "descriptors" /\ joliet' \in BOOLEAN /\ (joliet' <=> found)
      /\ vol_num' = IF found THEN vol_num ELSE vol_num + 1
      /\ doingCd' = IF found \/ past \/ vol_num' >= MaxDescriptors THEN "directory"
                    ELSE "descriptors"
      /\ UNCHANGED <<discVars, sized, shown, wanted, data_buffer>>
  BY DEF ReadsDescriptor, CdSteps, CdFails
<1>2. CdParts
  BY <1>1 DEF CdInv
<1>3. descriptors' = descriptors /\ records' = records
  BY <1>1 DEF discVars
<1>4. JolietFits'
  <2>1. MaxDescriptors \in Nat /\ vol_num \in Nat /\ vol_num >= 1 /\ vol_num < MaxDescriptors
        /\ \A k \in DOMAIN descriptors : k < vol_num => descriptors[k] # "joliet"
    BY <1>1, <1>2, CdAssumption DEF CdAssumption, CdParts, JolietFits
  <2>2. Len(descriptors) \in Nat /\ DOMAIN descriptors = 1 .. Len(descriptors)
    BY <1>2, CdAssumption DEF CdParts, Descriptors, CdAssumption
  <2>3. CASE found
    <3>1. vol_num \in DOMAIN descriptors /\ descriptors[vol_num] = "joliet"
      BY <2>1, <2>2, <2>3
    <3> QED
      BY <1>1, <1>3, <2>1, <2>3, <3>1 DEF JolietFits
  <2>4. CASE ~found
    <3>1. \A k \in DOMAIN descriptors : k < vol_num + 1 => descriptors[k] # "joliet"
      <4> SUFFICES ASSUME NEW k \in DOMAIN descriptors, k < vol_num + 1
                   PROVE  descriptors[k] # "joliet"
        OBVIOUS
      <4>1. k < vol_num \/ k = vol_num
        BY <2>1, <2>2
      <4>2. k = vol_num => ~past
        BY <2>1, <2>2
      <4> QED
        BY <2>1, <2>4, <4>1, <4>2
    <3>2. CASE past \/ vol_num + 1 >= MaxDescriptors
      <4>1. \A k \in DOMAIN descriptors : k < MaxDescriptors => k < vol_num + 1
        BY <2>1, <2>2, <3>2
      <4>2. doingCd' = "directory" /\ joliet' = FALSE
        BY <1>1, <2>4, <3>2
      <4> QED
        BY <1>3, <3>1, <4>1, <4>2 DEF JolietFits
    <3>3. CASE ~(past \/ vol_num + 1 >= MaxDescriptors)
      <4>1. vol_num + 1 \in 1 .. MaxDescriptors - 1
        BY <2>1, <3>3
      <4>2. doingCd' = "descriptors" /\ joliet' = FALSE /\ vol_num' = vol_num + 1
        BY <1>1, <2>4, <3>3
      <4> QED
        BY <1>3, <3>1, <4>1, <4>2 DEF JolietFits
    <3> QED
      BY <3>2, <3>3
  <2> QED
    BY <2>3, <2>4
<1>5. doingCd' \in {"directory", "descriptors"}
  BY <1>1
<1>6. NodesFit'
  <2>1. records' \in Records /\ shown' = <<>> /\ sized' = 0 /\ doingCd' # "mounted"
    BY <1>1, <1>2, <1>3, <1>5 DEF CdParts, NodesFit
  <2> QED
    BY <2>1, NoNodesYet
<1>7. DataFits'
  BY <1>1, <1>2, <1>5 DEF CdParts, DataFits
<1> QED
  BY <1>2, <1>3, <1>4, <1>5, <1>6, <1>7 DEF CdParts

\* Loading the root directory changes nothing but the place of the driver.
LEMMA LoaddirectoryStep ==
  ASSUME CdInv, iso9660_loaddirectory, ~clouded'
  PROVE  CdParts'
<1>1. /\ ~clouded /\ doingCd = "directory" /\ doingCd' = "records"
      /\ UNCHANGED <<discVars, vol_num, joliet, sized, shown, wanted, data_buffer>>
  BY DEF iso9660_loaddirectory, CdSteps, CdFails
<1>2. CdParts
  BY <1>1 DEF CdInv
<1>3. descriptors' = descriptors /\ records' = records
  BY <1>1 DEF discVars
<1>4. JolietFits'
  BY <1>1, <1>2, <1>3 DEF CdParts, JolietFits
<1>5. NodesFit'
  <2>1. records' \in Records /\ shown' = <<>> /\ sized' = 0 /\ doingCd' # "mounted"
    BY <1>1, <1>2, <1>3 DEF CdParts, NodesFit
  <2> QED
    BY <2>1, NoNodesYet
<1>6. DataFits'
  BY <1>1, <1>2 DEF CdParts, DataFits
<1> QED
  BY <1>1, <1>2, <1>3, <1>4, <1>5, <1>6 DEF CdParts

\* Unmounting takes every node and what was read.
LEMMA UnmountStep ==
  ASSUME CdInv, iso9660_unmount
  PROVE  CdParts'
<1>1. /\ ~clouded /\ doingCd' = "unmounted"
      /\ joliet' = FALSE /\ sized' = 0 /\ shown' = <<>> /\ data_buffer' = <<>>
      /\ UNCHANGED discVars
  BY DEF iso9660_unmount, CdSteps
<1>2. CdParts
  BY <1>1 DEF CdInv
<1>3. descriptors' = descriptors /\ records' = records
  BY <1>1 DEF discVars
<1>4. JolietFits'
  BY <1>1 DEF JolietFits
<1>5. NodesFit'
  <2>1. records' \in Records /\ shown' = <<>> /\ sized' = 0 /\ doingCd' # "mounted"
    BY <1>1, <1>2, <1>3 DEF CdParts
  <2> QED
    BY <2>1, NoNodesYet
<1>6. DataFits'
  BY <1>1 DEF DataFits
<1> QED
  BY <1>1, <1>2, <1>3, <1>4, <1>5, <1>6 DEF CdParts

\* How far the loop has come, and that the record found next is the next one.
LEMMA NextRecord ==
  ASSUME CdParts, NEW k, k = Len(shown), doingCd = "records"
  PROVE  /\ k \in Nat /\ k <= Len(records) /\ sized \in Nat
         /\ \A i \in 1 .. Len(records) : Offset(records)[i] = sized => i = k + 1
         /\ k < Len(records) => sized <= Offset(records)[k + 1]
<1>1. PICK r, at, n : r = records /\ at = Offset(records) /\ n = Len(records)
  OBVIOUS
<1>2. /\ r \in Records /\ n \in Nat \ {0} /\ \A i \in 1 .. n : r[i].size \in Nat /\ r[i].size >= 1
  BY <1>1, RecordsAre, CdAssumption DEF CdParts, CdAssumption
<1>3. at[1] = 0 /\ \A i \in 1 .. n + 1 : at[i] \in Nat
  BY <1>1, <1>2, OffsetsAre
<1>4. \A i \in 1 .. n, j \in 1 .. n + 1 : i < j => at[i] + r[i].size <= at[j]
  <2> SUFFICES ASSUME NEW i \in 1 .. n, NEW j \in 1 .. n + 1, i < j
               PROVE  at[i] + r[i].size <= at[j]
    OBVIOUS
  <2>1. j \in i + 1 .. n + 1
    BY <1>2
  <2> QED
    BY <1>1, <1>2, <2>1, OffsetsRise
<1>5. k \in 0 .. n /\ (k = 0 => sized = 0) /\ (k # 0 => sized = at[k] + r[k].size)
  BY <1>1 DEF CdParts, NodesFit
<1>6. sized \in Nat
  <2>1. k # 0 => k \in 1 .. n /\ k \in 1 .. n + 1
    BY <1>2, <1>5
  <2> QED
    BY <1>2, <1>3, <1>5, <2>1
<1>7. k < n => sized <= at[k + 1]
  <2> SUFFICES ASSUME k < n PROVE sized <= at[k + 1]
    OBVIOUS
  <2>1. CASE k = 0
    BY <1>3, <1>5, <2>1
  <2>2. CASE k # 0
    <3>1. k \in 1 .. n /\ k + 1 \in 1 .. n + 1 /\ k < k + 1
      BY <1>2, <1>5, <2>2
    <3>2. at[k] + r[k].size <= at[k + 1]
      BY <1>4, <3>1
    <3> QED
      BY <1>5, <2>2, <3>2
  <2> QED
    BY <2>1, <2>2
<1>8. ASSUME NEW i \in 1 .. n, at[i] = sized PROVE i = k + 1
  <2>1. ~(i <= k)
    <3> SUFFICES ASSUME i <= k PROVE FALSE
      OBVIOUS
    <3>1. k \in 1 .. n /\ k # 0
      BY <1>2, <1>5
    <3>2. PICK x, y, s : x = at[i] /\ y = at[k] /\ s = r[k].size
      OBVIOUS
    <3>3. x \in Nat /\ y \in Nat /\ s \in Nat /\ s >= 1 /\ x = y + s
      BY <1>2, <1>3, <1>5, <1>8, <3>1, <3>2
    <3>4. CASE i = k
      <4>1. x = y
        BY <3>2, <3>4
      <4> QED
        BY <3>3, <4>1
    <3>5. CASE i < k
      <4>1. at[i] + r[i].size <= at[k] /\ r[i].size \in Nat
        BY <1>2, <1>4, <3>1, <3>5
      <4> QED
        BY <3>2, <3>3, <4>1
    <3> QED
      BY <1>2, <1>5, <3>4, <3>5
  <2>2. ~(i > k + 1)
    <3> SUFFICES ASSUME i > k + 1 PROVE FALSE
      OBVIOUS
    <3>1. k < n /\ k + 1 \in 1 .. n /\ k + 1 < i /\ i \in 1 .. n + 1
      BY <1>2, <1>5
    <3>2. sized <= at[k + 1]
      BY <1>7, <3>1
    <3>3. at[k + 1] + r[k + 1].size <= at[i]
      BY <1>4, <3>1
    <3>4. PICK x, y, s : x = at[i] /\ y = at[k + 1] /\ s = r[k + 1].size
      OBVIOUS
    <3>5. x \in Nat /\ y \in Nat /\ s \in Nat /\ s >= 1
      BY <1>2, <1>3, <3>1, <3>4
    <3>6. x <= y /\ y + s <= x
      BY <1>8, <3>2, <3>3, <3>4
    <3> QED
      BY <3>5, <3>6
  <2> QED
    BY <1>2, <1>5, <2>1, <2>2
<1> QED
  BY <1>1, <1>2, <1>5, <1>6, <1>7, <1>8

\* A turn of the loop of iso9660_mount: the record it finds is the one behind those shown,
\* and it finds none only where they are all or the next one begins elsewhere.
LEMMA MountStep ==
  ASSUME CdInv, iso9660_mount
  PROVE  CdParts'
<1>0. PICK i, k :
        /\ i = IF sized < Extent(records) THEN RecordAt(records, sized) ELSE 0
        /\ k = Len(shown)
  OBVIOUS
<1>1. /\ ~clouded /\ doingCd = "records"
      /\ UNCHANGED <<discVars, vol_num, joliet, wanted, data_buffer>>
      /\ \/ /\ i # 0 /\ doingCd' = "records" /\ shown' = <<iso9660_convertname(i)>> \o shown
            /\ sized' = sized + records[i].size
         \/ /\ i = 0 /\ doingCd' = "mounted" /\ shown' = shown /\ sized' = sized
  BY <1>0 DEF iso9660_mount, CdSteps
<1>2. CdParts /\ records \in Records
  BY <1>1 DEF CdInv, CdParts
<1>3. descriptors' = descriptors /\ records' = records
  BY <1>1 DEF discVars
<1>4. JolietFits'
  BY <1>1, <1>2, <1>3 DEF CdParts, JolietFits
<1>5. DataFits'
  BY <1>1, <1>2 DEF CdParts, DataFits
<1>6. /\ k \in Nat /\ k <= Len(records) /\ sized \in Nat
      /\ \A j \in 1 .. Len(records) : Offset(records)[j] = sized => j = k + 1
      /\ k < Len(records) => sized <= Offset(records)[k + 1]
  BY <1>0, <1>1, <1>2, NextRecord
<1>7. \A j : (InFirstRun(j)' <=> InFirstRun(j)) /\ iso9660_convertname(j)' = iso9660_convertname(j)
  BY <1>1, <1>3 DEF InFirstRun, iso9660_convertname
<1>8. /\ shown \in Seq(Nat) /\ (k = 0 => sized = 0)
      /\ k # 0 => sized = Offset(records)[k] + records[k].size
      /\ \A j \in 1 .. k : InFirstRun(j) /\ shown[k + 1 - j] = iso9660_convertname(j)
  BY <1>0, <1>2 DEF CdParts, NodesFit
<1>9. Len(records) \in Nat \ {0}
  BY <1>2, RecordsAre
<1>10. CASE i # 0
  <2>1. i = k + 1 /\ i \in 1 .. Len(records) /\ Offset(records)[i] = sized
    <3>1. i = RecordAt(records, sized)
      BY <1>0, <1>10
    <3> QED
      BY <1>2, <1>6, <1>10, <3>1, RecordAtIs
  <2>2. iso9660_convertname(i) \in Nat
    BY <2>1, <1>9 DEF iso9660_convertname
  <2>3. PICK c, t : c = iso9660_convertname(i) /\ t = <<c>> \o shown
    OBVIOUS
  <2>4. /\ t \in Seq(Nat) /\ Len(t) = k + 1 /\ t[1] = c /\ shown' = t
        /\ \A j \in 1 .. k : t[j + 1] = shown[j]
    BY <1>0, <1>1, <1>8, <1>10, <2>2, <2>3
  <2>5. InFirstRun(i)
    <3> SUFFICES ASSUME NEW j \in 1 .. i - 1
                 PROVE  Offset(records)[j + 1] = Offset(records)[j] + records[j].size
      BY DEF InFirstRun
    <3>1. CASE j = k
      BY <1>6, <1>8, <2>1, <3>1
    <3>2. CASE j # k
      <4>1. k \in 1 .. k /\ j \in 1 .. k - 1
        BY <1>6, <2>1, <3>2
      <4> QED
        BY <1>8, <4>1 DEF InFirstRun
    <3> QED
      BY <3>1, <3>2
  <2>6. \A j \in 1 .. k + 1 : InFirstRun(j) /\ t[k + 2 - j] = iso9660_convertname(j)
    <3> SUFFICES ASSUME NEW j \in 1 .. k + 1
                 PROVE  InFirstRun(j) /\ t[k + 2 - j] = iso9660_convertname(j)
      OBVIOUS
    <3>1. CASE j = k + 1
      <4>1. k + 2 - j = 1
        BY <1>6, <3>1
      <4> QED
        BY <2>1, <2>3, <2>4, <2>5, <3>1, <4>1
    <3>2. CASE j # k + 1
      <4>1. j \in 1 .. k /\ k + 1 - j \in 1 .. k /\ (k + 1 - j) + 1 = k + 2 - j
        BY <1>6, <3>2
      <4>2. t[(k + 1 - j) + 1] = shown[k + 1 - j]
        BY <2>4, <4>1
      <4> QED
        BY <1>8, <4>1, <4>2
    <3> QED
      BY <3>1, <3>2
  <2>7. sized' = Offset(records')[Len(shown')] + records'[Len(shown')].size
    BY <1>1, <1>3, <1>10, <2>1, <2>4
  <2>8. Len(shown') = k + 1 /\ k + 1 \in 0 .. Len(records') /\ k + 1 # 0
    BY <1>3, <1>6, <1>9, <2>1, <2>4
  <2>9. \A j \in 1 .. Len(shown') :
          InFirstRun(j)' /\ shown'[Len(shown') + 1 - j] = iso9660_convertname(j)'
    <3> SUFFICES ASSUME NEW j \in 1 .. k + 1
                 PROVE  InFirstRun(j)' /\ t[(k + 1) + 1 - j] = iso9660_convertname(j)'
      BY <2>4, <2>8
    <3>1. (k + 1) + 1 - j = k + 2 - j
      BY <1>6
    <3> QED
      BY <1>7, <2>6, <3>1
  <2>10. NodesFit'
    BY <1>1, <1>10, <2>4, <2>7, <2>8, <2>9 DEF NodesFit
  <2> QED
    BY <1>1, <1>2, <1>3, <1>4, <1>5, <1>10, <2>10 DEF CdParts
<1>11. CASE i = 0
  <2>1. k = Len(records) \/ Offset(records)[k + 1] # sized
    <3>1. CASE sized < Extent(records)
      <4>1. \A j \in 1 .. Len(records) : Offset(records)[j] # sized
        BY <1>0, <1>2, <1>6, <1>11, <3>1, RecordAtIs
      <4>2. k = Len(records) \/ k + 1 \in 1 .. Len(records)
        BY <1>6, <1>9
      <4> QED
        BY <4>1, <4>2
    <3>2. CASE ~(sized < Extent(records)) /\ k # Len(records)
      <4>1. k + 1 \in 1 .. Len(records) /\ Len(records) + 1 \in k + 1 + 1 .. Len(records) + 1
            /\ k < Len(records) /\ Len(records) + 1 \in 1 .. Len(records) + 1
            /\ k + 1 \in 1 .. Len(records) + 1
        BY <1>6, <1>9, <3>2
      <4>2. PICK x, y, e, s : /\ x = Offset(records)[k + 1] /\ y = Offset(records)[Len(records) + 1]
                              /\ e = Extent(records) /\ s = records[k + 1].size
        OBVIOUS
      <4>3. x + s <= y
        BY <1>2, <4>1, <4>2, OffsetsRise
      <4>4. x \in Nat /\ y \in Nat
        BY <1>2, <4>1, <4>2, OffsetsAre
      <4>5. s \in 1 .. SectorBytes /\ SectorBytes \in Nat
        BY <1>2, <4>1, <4>2, RecordsAre, CdAssumption DEF CdAssumption
      <4>6. e \in Nat /\ y <= e
        BY <1>2, <4>2, ExtentIs
      <4>7. sized <= x /\ e <= sized
        BY <1>6, <3>2, <4>1, <4>2, <4>6
      <4> QED
        BY <1>6, <4>3, <4>4, <4>5, <4>6, <4>7
    <3> QED
      BY <3>1, <3>2
  <2>2. shown' = shown /\ sized' = sized /\ doingCd' = "mounted"
    BY <1>1, <1>11
  <2>3. NodesFit'
    <3>1. k \in 0 .. Len(records)
      BY <1>6, <1>9
    <3> QED
      BY <1>0, <1>3, <1>7, <1>8, <2>1, <2>2, <3>1 DEF NodesFit
  <2> QED
    BY <1>2, <1>3, <1>4, <1>5, <2>2, <2>3 DEF CdParts
<1> QED
  BY <1>10, <1>11

\* The positions from first to end are those adj positions into the n sectors from the
\* one numbered a.
PartIsRead(first, end, a, adj, n) ==
  SubSeq(Blocks(a, n), adj + 1, adj + end - first + 1)
  = [k \in 1 .. end - first + 1 |-> first + k - 1]

\* The part that is asked for of the sectors that it lies in.
LEMMA CopyIs ==
  ASSUME NEW first \in Nat, NEW end \in Nat, first <= end,
         NEW a, NEW adj, NEW n,
         a = first \div SectorBytes, adj = first % SectorBytes,
         n = end \div SectorBytes - a + 1
  PROVE  PartIsRead(first, end, a, adj, n)
<1>1. PICK S, p, b, q, t : /\ S = SectorBytes /\ p = a * S /\ b = end \div S /\ q = b * S
                           /\ t = end % S
  OBVIOUS
<1>2. S \in Nat \ {0}
  BY <1>1, CdAssumption DEF CdAssumption
<1>3. a \in Nat /\ p \in Nat /\ adj \in 0 .. S - 1 /\ first = p + adj
  BY <1>1, InSector
<1>4. b \in Nat /\ q \in Nat /\ t \in 0 .. S - 1 /\ end = q + t
  BY <1>1, InSector
<1>5. n * S = q - p + S
  <2>1. n = b - a + 1
    BY <1>1
  <2>2. n \in Int /\ b + 1 = a + n
    BY <1>3, <1>4, <2>1
  <2>3. (b + 1) * S = b * S + S /\ (a + n) * S = a * S + n * S
    BY <1>2, <1>3, <1>4, <2>2
  <2>4. n * S \in Int /\ q + S = p + n * S
    BY <1>1, <1>2, <2>2, <2>3
  <2>5. PICK w : w = n * S
    OBVIOUS
  <2> QED
    BY <1>2, <1>3, <1>4, <2>4, <2>5
<1>6. PICK w, lo, hi : w = n * S /\ lo = adj + 1 /\ hi = adj + end - first + 1
  OBVIOUS
<1>7. /\ w \in Int /\ lo \in Nat /\ hi \in Int /\ lo >= 1 /\ hi <= w /\ lo <= hi
      /\ hi - lo + 1 = end - first + 1
  <2>1. w = q - p + S
    BY <1>5, <1>6
  <2>2. lo = adj + 1 /\ hi = adj + end - first + 1
    BY <1>6
  <2>3. /\ S \in Int /\ p \in Int /\ q \in Int /\ t \in Int /\ adj \in Int /\ adj >= 0 /\ t <= S - 1
        /\ first = p + adj /\ end = q + t
    BY <1>2, <1>3, <1>4
  <2>4. w \in Int /\ hi \in Int /\ hi <= w
    BY <2>1, <2>2, <2>3
  <2>5. lo \in Nat /\ lo >= 1
    BY <2>2, <2>3
  <2>6. hi - lo + 1 = end - first + 1 /\ lo <= hi
    BY <2>2, <2>3
  <2> QED
    BY <2>4, <2>5, <2>6
<1>8. PICK whole : whole = Blocks(a, n)
  OBVIOUS
<1>9. whole = [k \in 1 .. w |-> p + k - 1]
  BY <1>1, <1>6, <1>8 DEF Blocks
<1>10. \A k \in lo .. hi : whole[k] = p + k - 1 /\ whole[k] \in Int
  <2> SUFFICES ASSUME NEW k \in lo .. hi PROVE whole[k] = p + k - 1 /\ whole[k] \in Int
    OBVIOUS
  <2>1. k \in 1 .. w /\ k \in Int
    BY <1>7
  <2>2. whole[k] = p + k - 1
    BY <1>9, <2>1
  <2> QED
    BY <1>3, <2>1, <2>2
<1>11. PICK part : part = SubSeq(whole, lo, hi)
  OBVIOUS
<1>12. /\ part \in Seq(Int) /\ Len(part) = hi - lo + 1
       /\ \A k \in 1 .. hi - lo + 1 : part[k] = whole[lo + k - 1]
  <2>1. lo \in Int /\ hi \in Int
    BY <1>7
  <2>2. \A k \in lo .. hi : whole[k] \in Int
    BY <1>10
  <2>3. /\ SubSeq(whole, lo, hi) \in Seq(Int)
        /\ Len(SubSeq(whole, lo, hi)) = IF lo <= hi THEN hi - lo + 1 ELSE 0
        /\ \A k \in 1 .. hi - lo + 1 : SubSeq(whole, lo, hi)[k] = whole[lo + k - 1]
    BY <2>1, <2>2, SubSeqProperties
  <2> QED
    BY <1>7, <1>11, <2>3
<1>13. \A k \in 1 .. end - first + 1 : part[k] = first + k - 1
  <2> SUFFICES ASSUME NEW k \in 1 .. end - first + 1 PROVE part[k] = first + k - 1
    OBVIOUS
  <2>1. k \in 1 .. hi - lo + 1 /\ lo + k - 1 \in lo .. hi
    BY <1>7
  <2>2. part[k] = p + (lo + k - 1) - 1
    BY <1>10, <1>12, <2>1
  <2>5. lo = adj + 1
    BY <1>6
  <2>6. k \in Int
    OBVIOUS
  <2>7. adj \in Int /\ p \in Int /\ first = p + adj
    BY <1>2, <1>3
  <2>3. k \in Int /\ lo = adj + 1 /\ adj \in Int /\ p \in Int /\ first = p + adj
    BY <2>5, <2>6, <2>7, Zenon
  <2>4. p + (lo + k - 1) - 1 = first + k - 1
    BY <2>3
  <2> QED
    BY <2>2, <2>4
<1>14. part = [k \in 1 .. end - first + 1 |-> part[k]]
  BY <1>7, <1>12
<1>15. part = [k \in 1 .. end - first + 1 |-> first + k - 1]
  BY <1>13, <1>14
<1> QED
  BY <1>6, <1>8, <1>11, <1>15 DEF PartIsRead

\* A reading copies what was asked for.
LEMMA OpenfileStep ==
  ASSUME CdInv, NEW first \in 0 .. FileBytes - 1, NEW end \in first .. FileBytes - 1,
         iso9660_openfile(first, end), ~clouded'
  PROVE  CdParts'
<1>1. /\ ~clouded /\ doingCd = "mounted" /\ doingCd' = "mounted" /\ wanted' = <<first, end>>
      /\ data_buffer' = SubSeq(Blocks(first \div SectorBytes,
                                      end \div SectorBytes - first \div SectorBytes + 1),
                               (first % SectorBytes) + 1,
                               (first % SectorBytes) + end - first + 1)
      /\ UNCHANGED <<discVars, vol_num, joliet, sized, shown>>
  BY DEF iso9660_openfile, CdSteps, CdFails
<1>2. CdParts
  BY <1>1 DEF CdInv
<1>3. descriptors' = descriptors /\ records' = records
  BY <1>1 DEF discVars
<1>4. JolietFits'
  BY <1>1, <1>2, <1>3 DEF CdParts, JolietFits
<1>5. NodesFit'
  BY <1>1, <1>2, <1>3, NodesStay DEF CdParts
<1>6. DataFits'
  <2>1. first \in Nat /\ end \in Nat /\ first <= end
    BY CdAssumption DEF CdAssumption
  <2>2. data_buffer' = [k \in 1 .. end - first + 1 |-> first + k - 1]
    <3>1. PICK a, adj, n : /\ a = first \div SectorBytes /\ adj = first % SectorBytes
                           /\ n = end \div SectorBytes - a + 1
      OBVIOUS
    <3>2. PartIsRead(first, end, a, adj, n)
      BY <2>1, <3>1, CopyIs
    <3>3. data_buffer' = SubSeq(Blocks(a, n), adj + 1, adj + end - first + 1)
      BY <1>1, <3>1
    <3> QED
      BY <3>2, <3>3, Zenon DEF PartIsRead
  <2> QED
    BY <1>1, <2>2 DEF DataFits
<1> QED
  BY <1>1, <1>2, <1>3, <1>4, <1>5, <1>6 DEF CdParts

\* The invariant holds at first, and every operation keeps it.
LEMMA CdInvHolds == CdSpec => []CdInv
<1>1. CdInit => CdInv
  <2> SUFFICES ASSUME CdInit PROVE CdParts
    BY DEF CdInv
  <2>1. Len(records) \in Nat
    BY RecordsAre DEF CdInit
  <2>2. shown \in Seq(Nat) /\ Len(shown) = 0
    BY DEF CdInit
  <2>3. NodesFit
    BY <2>1, <2>2 DEF CdInit, NodesFit
  <2>4. JolietFits /\ DataFits
    BY DEF CdInit, JolietFits, DataFits
  <2> QED
    BY <2>3, <2>4 DEF CdInit, CdParts
<1>2. CdInv /\ [CdNext]_cdVars => CdInv'
  <2> SUFFICES ASSUME CdInv, [CdNext]_cdVars, ~clouded' PROVE CdParts'
    BY DEF CdInv
  <2>1. CASE iso9660_mountroot
    BY <2>1, MountrootStep
  <2>2. CASE ReadsDescriptor
    BY <2>2, DescriptorStep
  <2>3. CASE iso9660_loaddirectory
    BY <2>3, LoaddirectoryStep
  <2>4. CASE iso9660_mount
    BY <2>4, MountStep
  <2>5. CASE iso9660_unmount
    BY <2>5, UnmountStep
  <2>6. CASE \E first \in 0 .. FileBytes - 1 : \E end \in first .. FileBytes - 1 :
               iso9660_openfile(first, end)
    BY <2>6, OpenfileStep
  <2>7. CASE UNCHANGED cdVars
    <3>1. /\ descriptors' = descriptors /\ records' = records /\ doingCd' = doingCd
          /\ vol_num' = vol_num /\ joliet' = joliet /\ sized' = sized /\ shown' = shown
          /\ wanted' = wanted /\ data_buffer' = data_buffer /\ clouded' = clouded
      BY <2>7 DEF cdVars, discVars
    <3>2. CdParts
      BY <3>1 DEF CdInv
    <3>3. NodesFit'
      BY <3>1, <3>2, NodesStay DEF CdParts
    <3>4. JolietFits' /\ DataFits'
      BY <3>1, <3>2 DEF CdParts, JolietFits, DataFits
    <3> QED
      BY <3>1, <3>2, <3>3, <3>4 DEF CdParts
  <2>8. CASE CdStops
    BY <2>7, <2>8 DEF CdStops
  <2> QED
    BY <2>1, <2>2, <2>3, <2>4, <2>5, <2>6, <2>7, <2>8 DEF CdNext
<1> QED
  BY <1>1, <1>2, PTL DEF CdSpec

\* CdShowsItsFiles, for sectors of any length, records of any lengths that fit in them,
\* directories and files of any size and any number of descriptors above one: as long as
\* the drive answers, iso9660_mount shows the records of the first run and no others, each
\* once, and iso9660_openfile gets the bytes asked for.
THEOREM ShownFiles == CdSpec => []CdShowsItsFiles
<1>1. CdInv => CdShowsItsFiles
  <2> SUFFICES ASSUME CdParts, doingCd = "mounted" PROVE CdShowsItsFiles
    BY DEF CdInv, CdShowsItsFiles
  <2>1. PICK k, n : k = Len(shown) /\ n = Len(records)
    OBVIOUS
  <2>2. records \in Records /\ n \in Nat \ {0} /\ DOMAIN records = 1 .. n
    BY <2>1, RecordsAre DEF CdParts
  <2>3. /\ k \in Nat /\ k <= n /\ shown \in Seq(Nat) /\ DOMAIN shown = 1 .. k
        /\ k # 0 => sized = Offset(records)[k] + records[k].size
        /\ k = 0 => sized = 0
        /\ \A i \in 1 .. k : InFirstRun(i) /\ shown[k + 1 - i] = iso9660_convertname(i)
        /\ k = n \/ Offset(records)[k + 1] # sized
    BY <2>1, <2>2 DEF CdParts, NodesFit
  <2>4. \A i \in 1 .. n : InFirstRun(i) <=> i <= k
    <3> SUFFICES ASSUME NEW i \in 1 .. n, InFirstRun(i), ~(i <= k) PROVE FALSE
      BY <2>3
    <3>1. k # n /\ k + 1 <= i
      BY <2>2, <2>3
    <3>2. CASE k = 0
      BY <2>2, <2>3, <3>1, <3>2, OffsetsAre
    <3>3. CASE k # 0
      <4>1. k \in 1 .. i - 1
        BY <2>2, <2>3, <3>1, <3>3
      <4> QED
        BY <2>3, <3>1, <3>3, <4>1 DEF InFirstRun
    <3> QED
      BY <3>2, <3>3
  <2>5. Len(shown) = Cardinality({i \in DOMAIN records : InFirstRun(i)})
    <3>1. {i \in DOMAIN records : InFirstRun(i)} = 1 .. k
      BY <2>2, <2>3, <2>4
    <3>2. Cardinality(1 .. k) = IF 1 > k THEN 0 ELSE k - 1 + 1
      BY <2>3, FS_Interval
    <3>3. Cardinality(1 .. k) = k
      <4> SUFFICES ASSUME NEW c, c = Cardinality(1 .. k) PROVE c = k
        OBVIOUS
      <4>1. c = IF 1 > k THEN 0 ELSE k - 1 + 1
        BY <3>2, Zenon
      <4>2. k \in Nat
        BY <2>3
      <4> QED
        BY <4>1, <4>2
    <3> QED
      BY <2>1, <3>1, <3>3, Zenon
  <2>6. Extent(records) <= SectorBytes => k = n
    <3> SUFFICES ASSUME Extent(records) <= SectorBytes, k # n PROVE FALSE
      OBVIOUS
    <3>0. Offset(records)[1] = 0
      BY <2>2, OffsetsAre
    <3>1. k # 0
      BY <2>2, <2>3, <3>0
    <3>2. k + 1 \in 2 .. n + 1 /\ k + 1 \in 1 .. n /\ k \in 1 .. n + 1 /\ k + 1 - 1 = k
          /\ n + 1 \in k + 1 + 1 .. n + 1 /\ n + 1 \in 1 .. n + 1 /\ k + 1 \in 1 .. n + 1
      BY <2>2, <2>3, <3>1
    <3>3. PICK x, y, e, s : /\ x = Offset(records)[k + 1] /\ y = Offset(records)[n + 1]
                            /\ e = Extent(records) /\ s = records[k + 1].size
      OBVIOUS
    <3>4. x \in Nat /\ y \in Nat /\ Offset(records)[k] \in Nat
          /\ x = OffsetAfter(records, k + 1, Offset(records)[k])
      BY <2>1, <2>2, <3>2, <3>3, OffsetsAre
    <3>5. x >= SectorBytes
      <4>1. \/ x = Offset(records)[k] + records[(k + 1) - 1].size
            \/ x >= SectorBytes
        BY <2>1, <2>2, <3>2, <3>4, OffsetAfterIs
      <4>2. x # Offset(records)[k] + records[k].size
        BY <2>3, <3>1, <3>3
      <4> QED
        BY <3>2, <4>1, <4>2
    <3>6. x + s <= y
      BY <2>1, <2>2, <3>2, <3>3, OffsetsRise
    <3>7. s \in 1 .. SectorBytes /\ SectorBytes \in Nat
      BY <2>1, <2>2, <3>2, <3>3, RecordsAre, CdAssumption DEF CdAssumption
    <3>8. e \in Nat /\ y <= e
      BY <2>1, <2>2, <3>3, ExtentIs
    <3> QED
      BY <3>3, <3>4, <3>5, <3>6, <3>7, <3>8
  <2>7. ASSUME NEW i \in 1 .. n
        PROVE  /\ IsShown(i) => InFirstRun(i)
               /\ InFirstRun(i) \/ Extent(records) <= SectorBytes =>
                    IsShown(i) \/ (records[i].isDir /\ ~joliet)
    <3>1. ASSUME IsShown(i) PROVE i <= k
      <4>1. PICK j \in 1 .. k : shown[j] = i
        BY <2>3, <3>1 DEF IsShown
      <4>2. k + 1 - j \in 1 .. k /\ k + 1 - (k + 1 - j) = j
        BY <2>3
      <4>3. shown[j] = iso9660_convertname(k + 1 - j)
        BY <2>3, <4>2
      <4>4. i = k + 1 - j
        BY <2>2, <4>1, <4>2, <4>3 DEF iso9660_convertname
      <4> QED
        BY <2>3, <4>2, <4>4
    <3>2. ASSUME i <= k PROVE IsShown(i) \/ (records[i].isDir /\ ~joliet)
      <4>1. k + 1 - i \in 1 .. k /\ i \in 1 .. k
        BY <2>2, <2>3, <3>2
      <4>2. shown[k + 1 - i] = iso9660_convertname(i)
        BY <2>3, <4>1
      <4> QED
        BY <2>3, <4>1, <4>2 DEF IsShown, iso9660_convertname
    <3>3. InFirstRun(i) \/ Extent(records) <= SectorBytes => i <= k
      BY <2>2, <2>4, <2>6
    <3> QED
      BY <2>4, <3>1, <3>2, <3>3
  <2>8. joliet <=> \E j \in DOMAIN descriptors : j < MaxDescriptors /\ descriptors[j] = "joliet"
    BY DEF CdParts, JolietFits
  <2>9. data_buffer # <<>> =>
          data_buffer = [j \in 1 .. wanted[2] - wanted[1] + 1 |-> wanted[1] + j - 1]
    BY DEF CdParts, DataFits
  <2> QED
    BY <2>2, <2>5, <2>7, <2>8, <2>9 DEF CdShowsItsFiles
<1> QED
  BY <1>1, CdInvHolds, PTL

------------------------------------------------------------------------------
\* The greatest number of a set.
LEMMA HasMost ==
  ASSUME NEW n \in Nat, NEW T \in SUBSET (0 .. n), T # {}
  PROVE  \E m \in T : \A k \in T : k <= m
<1> DEFINE U == {n - k : k \in T}
<1>1. U \in SUBSET Nat /\ U # {}
  <2>1. \A k \in T : n - k \in Nat
    OBVIOUS
  <2>2. U # {}
    OBVIOUS
  <2> QED
    BY <2>1, <2>2
<1>2. PICK u \in U : \A k \in U : u <= k
  <2> HIDE DEF U
  <2> QED
    BY <1>1, HasLeast
<1>3. PICK m \in T : u = n - m
  BY <1>2
<1>4. \A k \in T : n - k \in U
  OBVIOUS
<1> HIDE DEF U
<1>5. ASSUME NEW k \in T PROVE k <= m
  <2>1. n - m <= n - k
    BY <1>2, <1>3, <1>4
  <2>2. k \in Int /\ m \in Int
    OBVIOUS
  <2> QED
    BY <2>1, <2>2
<1> QED
  BY <1>5

\* What comes behind a cluster; behind what is none, the same again.
Beyond(t, c) == IF c \in Clusters THEN t[c] ELSE c

\* The first n steps along a chain.
Stepped(s, t, first, n) ==
  s = [k \in 0 .. n |-> IF k = 0 THEN first ELSE Beyond(t, s[k - 1])]

\* There are such: the first n without them would follow one that has them.
LEMMA StepsExist ==
  ASSUME NEW t, NEW first, NEW n \in Nat
  PROVE  \E s : Stepped(s, t, first, n)
<1> DEFINE T == {k \in Nat : ~\E s : Stepped(s, t, first, k)}
<1> SUFFICES ASSUME T # {} PROVE FALSE
  OBVIOUS
<1>1. PICK m \in T : \A k \in T : m <= k
  <2>1. T \in SUBSET Nat
    OBVIOUS
  <2> HIDE DEF T
  <2> QED
    BY <2>1, HasLeast
<1>2. m \in Nat /\ ~\E s : Stepped(s, t, first, m)
  BY <1>1
<1>3. CASE m = 0
  <2> DEFINE s == [k \in 0 .. 0 |-> first]
             rule(k) == IF k = 0 THEN first ELSE Beyond(t, s[k - 1])
  <2>1. s = [k \in 0 .. 0 |-> s[k]]
    OBVIOUS
  <2>2. ASSUME NEW k \in 0 .. 0 PROVE s[k] = rule(k)
    BY k = 0
  <2>3. s = [k \in 0 .. 0 |-> rule(k)]
    <3> HIDE DEF s, rule
    <3> QED
      BY <2>1, <2>2
  <2>4. Stepped(s, t, first, 0)
    BY <2>3 DEF Stepped
  <2> QED
    BY <1>2, <1>3, <2>4
<1>4. CASE m # 0
  <2>1. m - 1 \in Nat /\ m - 1 \notin T
    BY <1>1, <1>2, <1>4
  <2>2. PICK s : Stepped(s, t, first, m - 1)
    BY <2>1
  <2> DEFINE to == [k \in 0 .. m |-> IF k = m THEN Beyond(t, s[m - 1]) ELSE s[k]]
             rule(k) == IF k = 0 THEN first ELSE Beyond(t, to[k - 1])
  <2>3. \A k \in 0 .. m - 1 : s[k] = IF k = 0 THEN first ELSE Beyond(t, s[k - 1])
    BY <2>2 DEF Stepped
  <2>4. ASSUME NEW k \in 0 .. m PROVE to[k] = rule(k)
    <3>1. k = 0 \/ (k - 1 \in 0 .. m - 1 /\ to[k - 1] = s[k - 1])
      BY <1>2
    <3>2. CASE k = m
      <4>1. to[k] = Beyond(t, s[k - 1])
        BY <3>2
      <4> HIDE DEF to
      <4> QED
        BY <1>4, <3>1, <3>2, <4>1
    <3>3. CASE k # m
      <4>1. to[k] = s[k] /\ k \in 0 .. m - 1
        BY <1>2, <3>3
      <4> HIDE DEF to
      <4> QED
        BY <2>3, <3>1, <4>1
    <3> QED
      BY <3>2, <3>3
  <2>5. to = [k \in 0 .. m |-> rule(k)]
    <3>1. to = [k \in 0 .. m |-> to[k]]
      OBVIOUS
    <3> HIDE DEF to, rule
    <3> QED
      BY <2>4, <3>1
  <2>6. Stepped(to, t, first, m)
    BY <2>5 DEF Stepped
  <2> QED
    BY <1>2, <2>6
<1> QED
  BY <1>3, <1>4

\* The steps along a chain.
LEMMA TrailIs ==
  ASSUME NEW t, NEW first
  PROVE  /\ Trail(t, first)[0] = first
         /\ \A k \in 1 .. LastEntry : Trail(t, first)[k] = Beyond(t, Trail(t, first)[k - 1])
         /\ Trail(t, first) = [k \in 0 .. LastEntry |-> Trail(t, first)[k]]
<1>1. LastEntry \in Nat
  BY FatAssumption DEF FatAssumption
<1>2. \E s : Stepped(s, t, first, LastEntry)
  BY <1>1, StepsExist
<1>3. Trail(t, first) = CHOOSE s : Stepped(s, t, first, LastEntry)
  BY Zenon DEF Trail, Stepped, Beyond
<1>4. Stepped(Trail(t, first), t, first, LastEntry)
  BY <1>2, <1>3, Zenon
<1>5. PICK s : s = Trail(t, first)
  OBVIOUS
<1>6. s = [k \in 0 .. LastEntry |-> IF k = 0 THEN first ELSE Beyond(t, s[k - 1])]
  BY <1>4, <1>5 DEF Stepped
<1>7. \A k \in 0 .. LastEntry : s[k] = IF k = 0 THEN first ELSE Beyond(t, s[k - 1])
  BY <1>6
<1>8. s[0] = first /\ \A k \in 1 .. LastEntry : s[k] = Beyond(t, s[k - 1])
  BY <1>1, <1>7
<1>9. s = [k \in 0 .. LastEntry |-> s[k]]
  BY <1>6
<1> QED
  BY <1>5, <1>8, <1>9

\* There are fewer clusters than steps along a chain, and no other entry is a cluster.
LEMMA ClustersAre ==
  /\ LastEntry \in Nat /\ LastEntry >= 2 /\ LastCluster \in 2 .. LastEntry
  /\ EndCluster \in Nat /\ EndCluster \notin Clusters /\ FreeCluster \notin Clusters
  /\ NoEntry \notin Clusters /\ EndCluster # FreeCluster
  /\ Clusters \subseteq 0 .. LastEntry /\ IsFiniteSet(Clusters) /\ Cardinality(Clusters) < LastEntry
<1>1. LastEntry \in Nat /\ LastEntry >= 2 /\ LastCluster \in 2 .. LastEntry
  BY FatAssumption DEF FatAssumption
<1>2. IsFiniteSet(2 .. LastEntry)
  BY <1>1, FS_Interval
<1>3. Cardinality(2 .. LastEntry) = IF 2 > LastEntry THEN 0 ELSE LastEntry - 2 + 1
  BY <1>1, FS_Interval
<1>4. PICK n : n = Cardinality(2 .. LastEntry)
  OBVIOUS
<1>5. n < LastEntry
  BY <1>1, <1>3, <1>4
<1>6. IsFiniteSet(Clusters) /\ Cardinality(Clusters) < LastEntry
  BY <1>2, <1>4, <1>5 DEF Clusters
<1>7. Clusters \subseteq 0 .. LastEntry
  BY <1>1 DEF Clusters
<1> QED
  BY <1>1, <1>6, <1>7 DEF Clusters, EndCluster, FreeCluster, NoEntry

\* A chain has the clusters that the steps come to, and nothing else.
LEMMA ChainIs ==
  ASSUME NEW t, NEW first
  PROVE  /\ Chain(t, first) \subseteq Clusters
         /\ \A c \in Chain(t, first) : \E k \in 0 .. LastEntry : c = Trail(t, first)[k]
         /\ \A k \in 0 .. LastEntry :
              Trail(t, first)[k] \in Clusters => Trail(t, first)[k] \in Chain(t, first)
         /\ first \in Clusters => first \in Chain(t, first)
<1>1. 0 \in 0 .. LastEntry
  BY ClustersAre
<1>2. Trail(t, first)[0] = first
  BY TrailIs
<1> QED
  BY <1>1, <1>2 DEF Chain

\* A set that is closed under the table and has the first cluster has the chain.
LEMMA ChainLeast ==
  ASSUME NEW t, NEW first, NEW D, first \in Clusters => first \in D,
         \A c \in D \cap Clusters : t[c] \in Clusters => t[c] \in D
  PROVE  Chain(t, first) \subseteq D
<1>1. PICK s : s = Trail(t, first)
  OBVIOUS
<1>2. s[0] = first /\ \A k \in 1 .. LastEntry : s[k] = Beyond(t, s[k - 1])
  BY <1>1, TrailIs
<1> DEFINE T == {k \in 0 .. LastEntry : s[k] \in Clusters /\ s[k] \notin D}
<1>3. ASSUME T # {} PROVE FALSE
  <2>1. PICK m \in T : \A k \in T : m <= k
    <3>1. T \in SUBSET Nat
      OBVIOUS
    <3> HIDE DEF T
    <3> QED
      BY <1>3, <3>1, HasLeast
  <2>2. m \in 1 .. LastEntry /\ s[m] \in Clusters /\ s[m] \notin D
    BY <1>2, <2>1
  <2>3. m - 1 \in 0 .. LastEntry /\ m - 1 \notin T
    <3>1. m - 1 \in 0 .. LastEntry /\ ~(m <= m - 1)
      BY <2>2, ClustersAre
    <3> HIDE DEF T
    <3> QED
      BY <2>1, <3>1
  <2>4. s[m] = Beyond(t, s[m - 1])
    BY <1>2, <2>2
  <2>5. CASE s[m - 1] \in Clusters
    BY <2>2, <2>3, <2>4, <2>5 DEF Beyond
  <2>6. CASE s[m - 1] \notin Clusters
    BY <2>2, <2>4, <2>6 DEF Beyond
  <2> QED
    BY <2>5, <2>6
<1>4. \A k \in 0 .. LastEntry : s[k] \in Clusters => s[k] \in D
  BY <1>3
<1> HIDE DEF T
<1> QED
  BY <1>1, <1>4, ChainIs

\* An entry that is no cluster has no chain.
LEMMA NoChain ==
  ASSUME NEW t, NEW first, first \notin Clusters
  PROVE  Chain(t, first) = {} /\ SoundChain(t, first)
<1>1. Chain(t, first) \subseteq {}
  <2>1. PICK D : D = {}
    OBVIOUS
  <2>2. \A c \in D \cap Clusters : t[c] \in Clusters => t[c] \in D
    BY <2>1
  <2>3. Chain(t, first) \subseteq D
    BY <2>2, ChainLeast
  <2> QED
    BY <2>1, <2>3
<1> QED
  BY <1>1 DEF SoundChain

\* A sound chain goes from cluster to cluster and to its end ...
LEMMA SoundStays ==
  ASSUME NEW t \in Tables, NEW first, SoundChain(t, first), NEW c \in Chain(t, first)
  PROVE  t[c] \in Chain(t, first) \cup {EndCluster}
<1>1. PICK s, n : s = Trail(t, first) /\ n = LastEntry
  OBVIOUS
<1>2. n \in Nat /\ s[0] = first /\ \A k \in 1 .. n : s[k] = Beyond(t, s[k - 1])
  BY <1>1, TrailIs, ClustersAre
<1>3. s[n] = EndCluster
  <2>1. first \in Clusters
    BY NoChain
  <2> QED
    BY <1>1, <2>1 DEF SoundChain
<1>4. c \in Clusters
  BY ChainIs
<1>5. PICK k \in 0 .. n : c = s[k]
  BY <1>1, ChainIs
<1>6. k + 1 \in 1 .. n /\ k + 1 - 1 = k
  BY <1>2, <1>3, <1>4, <1>5, ClustersAre
<1>7. s[k + 1] = t[c]
  BY <1>2, <1>4, <1>5, <1>6 DEF Beyond
<1>8. t[c] \in {FreeCluster, EndCluster} \cup Clusters
  BY <1>4 DEF Tables
<1>9. t[c] # FreeCluster
  <2> DEFINE T == {j \in 0 .. n : s[j] = FreeCluster}
  <2> SUFFICES ASSUME t[c] = FreeCluster PROVE FALSE
    OBVIOUS
  <2>1. k + 1 \in T
    BY <1>6, <1>7
  <2>2. PICK m \in T : \A j \in T : j <= m
    <3>1. T \in SUBSET (0 .. n) /\ T # {}
      BY <2>1
    <3> HIDE DEF T
    <3> QED
      BY <1>2, <3>1, HasMost
  <2>3. m \in 0 .. n /\ s[m] = FreeCluster /\ m # n
    BY <1>3, <2>2, ClustersAre
  <2>4. m + 1 \in 1 .. n /\ m + 1 - 1 = m /\ ~(m + 1 <= m)
    BY <1>2, <2>3
  <2>5. s[m + 1] = FreeCluster
    BY <1>2, <2>3, <2>4, ClustersAre DEF Beyond
  <2>6. m + 1 \in T
    BY <2>4, <2>5
  <2> HIDE DEF T
  <2> QED
    BY <2>2, <2>4, <2>6
<1> QED
  BY <1>1, <1>6, <1>7, <1>8, <1>9, ChainIs

\* ... and never in a circle: some cluster of each part of it leads out of the part.
LEMMA SoundEnds ==
  ASSUME NEW t \in Tables, NEW first, SoundChain(t, first),
         NEW S \in SUBSET Chain(t, first), S # {}
  PROVE  \E c \in S : t[c] \notin S
<1>1. PICK s, n : s = Trail(t, first) /\ n = LastEntry
  OBVIOUS
<1>2. n \in Nat /\ \A k \in 1 .. n : s[k] = Beyond(t, s[k - 1])
  BY <1>1, TrailIs, ClustersAre
<1>3. s[n] = EndCluster
  <2>1. first \in Clusters
    BY NoChain
  <2> QED
    BY <1>1, <2>1 DEF SoundChain
<1>4. S \subseteq Clusters /\ EndCluster \notin S
  BY ChainIs, ClustersAre
<1> DEFINE T == {k \in 0 .. n : s[k] \in S}
<1>5. PICK m \in T : \A k \in T : k <= m
  <2>1. PICK c \in S : TRUE
    OBVIOUS
  <2>2. \E k \in 0 .. n : c = s[k]
    BY <1>1, <2>1, ChainIs
  <2>3. T \in SUBSET (0 .. n) /\ T # {}
    BY <2>1, <2>2
  <2> HIDE DEF T
  <2> QED
    BY <1>2, <2>3, HasMost
<1>6. m \in 0 .. n /\ s[m] \in S /\ m # n
  BY <1>3, <1>4, <1>5
<1>7. m + 1 \in 1 .. n /\ m + 1 \in 0 .. n /\ m + 1 - 1 = m /\ ~(m + 1 <= m)
  BY <1>2, <1>6
<1>8. s[m + 1] = t[s[m]]
  BY <1>2, <1>4, <1>6, <1>7 DEF Beyond
<1>9. s[m + 1] \notin S
  <2>1. m + 1 \notin T
    <3> HIDE DEF T
    <3> QED
      BY <1>5, <1>7
  <2> QED
    BY <1>7, <2>1
<1> QED
  BY <1>6, <1>8, <1>9

\* What makes a chain sound: clusters behind which are only such or the end, and of which
\* no part is a circle.  With more steps than clusters one would come twice.
LEMMA SoundIf ==
  ASSUME NEW t \in Tables, NEW first \in Clusters, NEW D \in SUBSET Clusters, first \in D,
         \A c \in D : t[c] \in D \cup {EndCluster},
         \A S \in SUBSET D : S # {} => \E c \in S : t[c] \notin S
  PROVE  SoundChain(t, first)
<1>1. PICK s, n : s = Trail(t, first) /\ n = LastEntry
  OBVIOUS
<1>2. /\ n \in Nat /\ s[0] = first /\ \A k \in 1 .. n : s[k] = Beyond(t, s[k - 1])
      /\ s = [k \in 0 .. n |-> s[k]] /\ Cardinality(Clusters) < n
  BY <1>1, TrailIs, ClustersAre
<1> SUFFICES ASSUME s[n] # EndCluster PROVE FALSE
  BY <1>1 DEF SoundChain
<1>3. \A k \in 0 .. n : s[k] # EndCluster
  <2> DEFINE T == {k \in 0 .. n : s[k] = EndCluster}
  <2> SUFFICES ASSUME T # {} PROVE FALSE
    OBVIOUS
  <2>1. PICK m \in T : \A k \in T : k <= m
    <3>1. T \in SUBSET (0 .. n)
      OBVIOUS
    <3> HIDE DEF T
    <3> QED
      BY <1>2, <3>1, HasMost
  <2>2. m \in 0 .. n /\ s[m] = EndCluster /\ m # n
    BY <2>1
  <2>3. m + 1 \in 1 .. n /\ m + 1 \in 0 .. n /\ m + 1 - 1 = m /\ ~(m + 1 <= m)
    BY <1>2, <2>2
  <2>4. s[m + 1] = EndCluster
    <3>3. \A k \in 1 .. n : s[k] = Beyond(t, s[k - 1])
      BY <1>2
    <3>4. m + 1 \in 1 .. n /\ m + 1 - 1 = m
      BY <2>3
    <3>1. s[m + 1] = Beyond(t, s[m])
      BY <3>3, <3>4
    <3>2. EndCluster \notin Clusters
      BY ClustersAre
    <3> QED
      BY <2>2, <3>1, <3>2 DEF Beyond
  <2>5. m + 1 \in T
    BY <2>3, <2>4
  <2> HIDE DEF T
  <2> QED
    BY <2>1, <2>3, <2>5
<1>4. \A k \in 0 .. n : s[k] \in D
  <2> DEFINE T == {k \in 0 .. n : s[k] \notin D}
  <2> SUFFICES ASSUME T # {} PROVE FALSE
    OBVIOUS
  <2>1. PICK m \in T : \A k \in T : m <= k
    <3>1. T \in SUBSET Nat
      OBVIOUS
    <3> HIDE DEF T
    <3> QED
      BY <3>1, HasLeast
  <2>2. m \in 1 .. n /\ s[m] \notin D
    BY <1>2, <2>1
  <2>3. m - 1 \in 0 .. n /\ ~(m <= m - 1)
    BY <1>2, <2>2
  <2>4. s[m - 1] \in D
    <3>1. m - 1 \notin T
      <4> HIDE DEF T
      <4> QED
        BY <2>1, <2>3
    <3> QED
      BY <2>3, <3>1
  <2>5. s[m] = t[s[m - 1]]
    BY <1>2, <2>2, <2>4 DEF Beyond
  <2> QED
    BY <1>3, <2>2, <2>4, <2>5
<1>5. \A k \in 1 .. n : s[k] = t[s[k - 1]]
  <2> SUFFICES ASSUME NEW k \in 1 .. n PROVE s[k] = t[s[k - 1]]
    OBVIOUS
  <2>1. k - 1 \in 0 .. n
    BY <1>2
  <2> QED
    BY <1>2, <1>4, <2>1 DEF Beyond
<1>6. PICK i \in 0 .. n, j \in 0 .. n : i < j /\ s[i] = s[j]
  <2>1. PICK I, C : I = 0 .. n /\ C = Clusters
    OBVIOUS
  <2>2. IsFiniteSet(I) /\ IsFiniteSet(C) /\ Cardinality(C) < Cardinality(I)
    <3>0. 0 \in Int /\ n \in Int
      BY <1>2
    <3>1. IsFiniteSet(0 .. n)
      BY <3>0, FS_Interval, Zenon
    <3>2. Cardinality(0 .. n) = IF 0 > n THEN 0 ELSE n - 0 + 1
      BY <3>0, FS_Interval, Zenon
    <3>3. PICK x, y : x = Cardinality(0 .. n) /\ y = Cardinality(C)
      OBVIOUS
    <3>4. x = n + 1 /\ y < n /\ y \in Nat
      <4>1. y \in Nat /\ y < n
        BY <1>2, <2>1, <3>3, ClustersAre, FS_CardinalityType
      <4>2. x = IF 0 > n THEN 0 ELSE n - 0 + 1
        BY <3>2, <3>3, Zenon
      <4> QED
        BY <1>2, <4>1, <4>2
    <3>5. y < x
      BY <1>2, <3>4
    <3> QED
      BY <2>1, <3>1, <3>3, <3>5, ClustersAre, Zenon
  <2>3. s \in [I -> C]
    BY <1>2, <1>4, <2>1
  <2>4. \E x, y \in I : x # y /\ s[x] = s[y]
    BY <2>2, <2>3, FS_PigeonHole
  <2>5. PICK x \in I, y \in I : x # y /\ s[x] = s[y]
    BY <2>4
  <2> QED
    BY <1>2, <2>1, <2>5
<1> DEFINE S == {s[k] : k \in i .. j - 1}
<1>7. S \in SUBSET D /\ S # {}
  <2>1. i \in i .. j - 1 /\ i .. j - 1 \subseteq 0 .. n
    BY <1>2, <1>6
  <2> QED
    BY <1>4, <2>1
<1>8. ASSUME NEW k \in i .. j - 1 PROVE t[s[k]] \in S
  <2>1. k + 1 \in 1 .. n /\ k + 1 - 1 = k
    BY <1>2, <1>6
  <2>2. t[s[k]] = s[k + 1]
    BY <1>5, <2>1
  <2>3. CASE k + 1 = j
    <3>1. i \in i .. j - 1
      BY <1>6
    <3> QED
      BY <1>6, <2>2, <2>3, <3>1
  <2>4. CASE k + 1 # j
    <3>1. k + 1 \in i .. j - 1
      BY <1>6, <2>4
    <3> QED
      BY <2>2, <3>1
  <2> QED
    BY <2>3, <2>4
<1>9. PICK c \in S : t[c] \notin S
  <2> HIDE DEF S
  <2> QED
    BY <1>7
<1> QED
  BY <1>8, <1>9

\* Tables that agree on a chain have the same one.
LEMMA SameChain ==
  ASSUME NEW t, NEW u, NEW first, \A c \in Chain(t, first) : u[c] = t[c]
  PROVE  Trail(u, first) = Trail(t, first) /\ Chain(u, first) = Chain(t, first)
         /\ (SoundChain(t, first) => SoundChain(u, first))
<1>1. PICK r, s, n : r = Trail(u, first) /\ s = Trail(t, first) /\ n = LastEntry
  OBVIOUS
<1>2. /\ n \in Nat /\ s[0] = first /\ \A k \in 1 .. n : s[k] = Beyond(t, s[k - 1])
      /\ s = [k \in 0 .. n |-> s[k]]
  BY <1>1, TrailIs, ClustersAre
<1>3. /\ r[0] = first /\ \A k \in 1 .. n : r[k] = Beyond(u, r[k - 1])
      /\ r = [k \in 0 .. n |-> r[k]]
  BY <1>1, TrailIs
<1>4. \A k \in 0 .. n : s[k] \in Clusters => s[k] \in Chain(t, first)
  BY <1>1, ChainIs
<1>5. \A k \in 0 .. n : r[k] = s[k]
  <2> DEFINE T == {k \in 0 .. n : r[k] # s[k]}
  <2> SUFFICES ASSUME T # {} PROVE FALSE
    OBVIOUS
  <2>1. PICK m \in T : \A k \in T : m <= k
    <3>1. T \in SUBSET Nat
      OBVIOUS
    <3> HIDE DEF T
    <3> QED
      BY <3>1, HasLeast
  <2>2. m \in 1 .. n /\ r[m] # s[m]
    BY <1>2, <1>3, <2>1
  <2>3. m - 1 \in 0 .. n /\ ~(m <= m - 1)
    BY <1>2, <2>2
  <2>4. r[m - 1] = s[m - 1]
    <3>1. m - 1 \notin T
      <4> HIDE DEF T
      <4> QED
        BY <2>1, <2>3
    <3> QED
      BY <2>3, <3>1
  <2>5. Beyond(u, s[m - 1]) = Beyond(t, s[m - 1])
    BY <1>4, <2>3 DEF Beyond
  <2> QED
    BY <1>2, <1>3, <2>2, <2>4, <2>5
<1>6. r = s
  BY <1>2, <1>3, <1>5
<1> QED
  BY <1>1, <1>6 DEF Chain, SoundChain

\* Least, of clusters.
LEMMA LeastIs ==
  ASSUME NEW S \in SUBSET Clusters, S # {}
  PROVE  Least(S) \in S /\ \A d \in S : Least(S) <= d
<1>1. S \in SUBSET Nat
  BY ClustersAre
<1>2. \E c \in S : \A d \in S : c <= d
  BY <1>1, HasLeast
<1> QED
  BY <1>2 DEF Least

\* get_sector_fromcluster finds the end of a sound chain.
LEMMA LastOfIs ==
  ASSUME NEW t \in Tables, NEW first \in Clusters, SoundChain(t, first)
  PROVE  LastOf(t, first) \in Chain(t, first) /\ t[LastOf(t, first)] = EndCluster
<1>1. PICK S : S = Chain(t, first)
  OBVIOUS
<1>2. S \in SUBSET Chain(t, first) /\ S # {}
  BY <1>1, ChainIs
<1>3. PICK c \in S : t[c] \notin S
  BY <1>2, SoundEnds
<1>4. c \in Chain(t, first) /\ t[c] = EndCluster
  BY <1>1, <1>3, SoundStays
<1> QED
  BY <1>4 DEF LastOf

\* The clusters that obtainfreecluster finds.
LEMMA LowestIs ==
  ASSUME NEW t \in Tables, NEW n \in 1 .. MaxSectors, n <= Cardinality(FreeOf(t))
  PROVE  Lowest(t, n) \subseteq FreeOf(t) /\ FreeOf(t) \subseteq Clusters /\ Lowest(t, n) # {}
<1>1. PICK F : F = FreeOf(t)
  OBVIOUS
<1>2. F \subseteq Clusters
  BY <1>1 DEF FreeOf
<1>3. F # {}
  <2> SUFFICES ASSUME F = {} PROVE FALSE
    OBVIOUS
  <2>1. Cardinality(F) = 0
    BY FS_EmptySet, Zenon
  <2> QED
    BY <1>1, <2>1
<1>4. Least(F) \in F /\ \A d \in F : Least(F) <= d
  BY <1>2, <1>3, LeastIs
<1>5. {d \in F : d < Least(F)} = {}
  <2>1. \A d \in F : d \in Int
    BY <1>2, ClustersAre
  <2> QED
    BY <1>4, <2>1
<1>6. Cardinality({d \in F : d < Least(F)}) = 0
  BY <1>5, FS_EmptySet, Zenon
<1>7. Cardinality({d \in F : d < Least(F)}) < n
  BY <1>6
<1>8. Least(F) \in Lowest(t, n)
  BY <1>1, <1>4, <1>7, Zenon DEF Lowest
<1>9. Lowest(t, n) \subseteq F
  BY <1>1 DEF Lowest
<1> QED
  BY <1>1, <1>2, <1>8, <1>9

\* The table with new clusters in it: what it has behind them and behind the others.
LEMMA LinkedIs ==
  ASSUME NEW t \in Tables, NEW first, NEW new \in SUBSET Clusters, new # {}
  PROVE  /\ Linked(t, first, new) \in Tables
         /\ \A c \in new : \/ /\ Linked(t, first, new)[c] \in new /\ Linked(t, first, new)[c] > c
                              /\ \A d \in new : d > c => Linked(t, first, new)[c] <= d
                           \/ /\ Linked(t, first, new)[c] = EndCluster
                              /\ \A d \in new : ~(d > c)
         /\ \A c \in Clusters \ new :
              Linked(t, first, new)[c] = IF first # FreeCluster /\ c = LastOf(t, first)
                                         THEN Least(new) ELSE t[c]
<1>1. PICK u : u = Linked(t, first, new)
  OBVIOUS
<1>2. u = [c \in Clusters |->
     IF c \in new
     THEN IF \E d \in new : d > c THEN Least({d \in new : d > c}) ELSE EndCluster
     ELSE IF first # FreeCluster /\ c = LastOf(t, first) THEN Least(new) ELSE t[c]]
  BY <1>1 DEF Linked
<1>3. ASSUME NEW c \in new
      PROVE  \/ u[c] \in new /\ u[c] > c /\ \A d \in new : d > c => u[c] <= d
             \/ u[c] = EndCluster /\ \A d \in new : ~(d > c)
  <2>1. CASE \E d \in new : d > c
    <3>1. PICK S : S = {d \in new : d > c}
      OBVIOUS
    <3>2. S \in SUBSET Clusters /\ S # {}
      BY <2>1, <3>1
    <3>3. Least(S) \in S /\ \A d \in S : Least(S) <= d
      BY <3>2, LeastIs
    <3>4. u[c] = Least(S)
      BY <1>2, <2>1, <3>1
    <3> QED
      BY <3>1, <3>3, <3>4
  <2>2. CASE ~\E d \in new : d > c
    BY <1>2, <2>2
  <2> QED
    BY <2>1, <2>2
<1>4. \A c \in Clusters \ new :
        u[c] = IF first # FreeCluster /\ c = LastOf(t, first) THEN Least(new) ELSE t[c]
  BY <1>2
<1>5. u \in Tables
  <2>1. u = [c \in Clusters |-> u[c]]
    BY <1>2
  <2>2. ASSUME NEW c \in Clusters PROVE u[c] \in {FreeCluster, EndCluster} \cup Clusters
    <3>1. CASE c \in new
      BY <1>3, <3>1
    <3>2. CASE c \notin new
      <4>1. Least(new) \in Clusters
        BY LeastIs
      <4>2. t[c] \in {FreeCluster, EndCluster} \cup Clusters
        BY DEF Tables
      <4> QED
        BY <1>4, <3>2, <4>1, <4>2
    <3> QED
      BY <3>1, <3>2
  <2> QED
    BY <2>1, <2>2 DEF Tables
<1> QED
  BY <1>1, <1>3, <1>4, <1>5

\* The clusters of a sound chain are marked.
LEMMA ChainMarked ==
  ASSUME NEW t \in Tables, NEW first, SoundChain(t, first), NEW c \in Chain(t, first)
  PROVE  c \in Clusters /\ t[c] # FreeCluster
<1>1. t[c] \in Chain(t, first) \cup {EndCluster}
  BY SoundStays
<1>2. Chain(t, first) \subseteq Clusters
  BY ChainIs
<1> QED
  BY <1>1, <1>2, ClustersAre

\* The new clusters are no circle, nor is anything that has one of them, ...
LEMMA NewEnds ==
  ASSUME NEW t \in Tables, NEW first, NEW new \in SUBSET Clusters, new # {},
         NEW S \in SUBSET Clusters, S \cap new # {}
  PROVE  \E c \in S \cap new : Linked(t, first, new)[c] \notin S
<1>1. PICK u : u = Linked(t, first, new)
  OBVIOUS
<1>2. \A c \in new : \/ u[c] \in new /\ u[c] > c
                     \/ u[c] = EndCluster
  BY <1>1, LinkedIs
<1>3. PICK m \in S \cap new : \A k \in S \cap new : k <= m
  <2>1. S \cap new \in SUBSET (0 .. LastEntry)
    BY ClustersAre
  <2>2. LastEntry \in Nat
    BY ClustersAre
  <2> QED
    BY <2>1, <2>2, HasMost
<1>4. m \in Int /\ EndCluster \notin S
  BY ClustersAre
<1>5. u[m] \notin S
  <2> SUFFICES ASSUME u[m] \in S PROVE FALSE
    OBVIOUS
  <2>1. u[m] \in S \cap new /\ u[m] > m
    BY <1>2, <1>4
  <2>2. u[m] <= m
    BY <1>3, <2>1
  <2>3. u[m] \in Int
    <3>1. u[m] \in Clusters
      BY <2>1
    <3>2. PICK x : x = u[m]
      OBVIOUS
    <3>3. x \in 2 .. LastEntry
      BY <3>1, <3>2 DEF Clusters
    <3>4. LastEntry \in Nat
      BY ClustersAre
    <3> QED
      BY <3>2, <3>3, <3>4
  <2> QED
    BY <1>4, <2>1, <2>2, <2>3
<1> QED
  BY <1>1, <1>5

\* ... and who follows the table from the least of them gets to all.
LEMMA NewReached ==
  ASSUME NEW t \in Tables, NEW first, NEW new \in SUBSET Clusters, new # {},
         NEW D, Least(new) \in D,
         \A c \in D \cap new : Linked(t, first, new)[c] \in new => Linked(t, first, new)[c] \in D
  PROVE  new \subseteq D
<1> SUFFICES ASSUME new \ D # {} PROVE FALSE
  OBVIOUS
<1>1. PICK u : u = Linked(t, first, new)
  OBVIOUS
<1>2. \A c \in new : \/ u[c] \in new /\ u[c] > c /\ \A d \in new : d > c => u[c] <= d
                     \/ u[c] = EndCluster /\ \A d \in new : ~(d > c)
  BY <1>1, LinkedIs
<1>3. PICK m \in new \ D : \A k \in new \ D : m <= k
  <2>1. new \ D \in SUBSET Nat
    <3>1. new \subseteq 0 .. LastEntry
      BY ClustersAre
    <3>2. new \subseteq Nat
      BY <3>1
    <3> QED
      BY <3>2
  <2> QED
    BY <2>1, HasLeast
<1>4. Least(new) \in new /\ \A d \in new : Least(new) <= d
  BY LeastIs
<1>5. \A d \in new : d \in Int
  BY ClustersAre
<1> DEFINE T == {d \in new : d < m}
<1>6. Least(new) \in T
  BY <1>3, <1>4, <1>5
<1>7. PICK e \in T : \A k \in T : k <= e
  <2>1. T \in SUBSET (0 .. LastEntry) /\ LastEntry \in Nat /\ T # {}
    BY <1>6, ClustersAre
  <2> HIDE DEF T
  <2> QED
    BY <2>1, HasMost
<1>8. e \in new /\ e < m /\ e \in D
  <2>1. e \in new /\ e < m
    BY <1>7
  <2>2. ~(m <= e)
    BY <1>3, <1>5, <2>1
  <2> QED
    BY <1>3, <2>1, <2>2
<1>9. u[e] \in new /\ u[e] > e /\ u[e] <= m
  BY <1>2, <1>3, <1>5, <1>8
<1>10. u[e] \in D
  BY <1>1, <1>8, <1>9
<1>11. u[e] = m
  <2>1. u[e] \notin T
    <3> HIDE DEF T
    <3>1. e \in Int /\ u[e] \in Int /\ ~(u[e] <= e)
      BY <1>5, <1>8, <1>9
    <3> QED
      BY <1>7, <3>1
  <2>2. ~(u[e] < m)
    BY <1>9, <2>1
  <2> QED
    BY <1>3, <1>5, <1>9, <2>2
<1> QED
  BY <1>3, <1>10, <1>11

\* A file without clusters gets the new ones, ...
LEMMA LinkedNew ==
  ASSUME NEW t \in Tables, NEW new \in SUBSET FreeOf(t), new # {}
  PROVE  /\ SoundChain(Linked(t, FreeCluster, new), Least(new))
         /\ Chain(Linked(t, FreeCluster, new), Least(new)) = new
<1>1. PICK u : u = Linked(t, FreeCluster, new)
  OBVIOUS
<1>2. new \in SUBSET Clusters
  BY DEF FreeOf
<1>3. /\ u \in Tables
      /\ \A c \in new : u[c] \in new \/ u[c] = EndCluster
  BY <1>1, <1>2, LinkedIs
<1>4. Least(new) \in new
  BY <1>2, LeastIs
<1>5. \A S \in SUBSET new : S # {} => \E c \in S : u[c] \notin S
  <2> SUFFICES ASSUME NEW S \in SUBSET new, S # {} PROVE \E c \in S : u[c] \notin S
    OBVIOUS
  <2>1. S \in SUBSET Clusters /\ S \cap new = S
    BY <1>2
  <2>2. \E c \in S \cap new : Linked(t, FreeCluster, new)[c] \notin S
    BY <1>2, <2>1, NewEnds
  <2> QED
    BY <1>1, <2>1, <2>2
<1>6. SoundChain(u, Least(new))
  <2>1. \A c \in new : u[c] \in new \cup {EndCluster}
    BY <1>3
  <2>2. Least(new) \in Clusters
    BY <1>2, <1>4
  <2> QED
    BY <1>2, <1>3, <1>4, <1>5, <2>1, <2>2, SoundIf
<1>7. Chain(u, Least(new)) \subseteq new
  <2>1. \A c \in new \cap Clusters : u[c] \in Clusters => u[c] \in new
    BY <1>3, ClustersAre
  <2> QED
    BY <1>4, <2>1, ChainLeast
<1>8. new \subseteq Chain(u, Least(new))
  <2>1. PICK D : D = Chain(u, Least(new))
    OBVIOUS
  <2>2. Least(new) \in D
    BY <1>2, <1>4, <2>1, ChainIs
  <2>3. \A c \in D : u[c] \in D \cup {EndCluster}
    BY <1>3, <1>6, <2>1, SoundStays
  <2>4. \A c \in D \cap new : u[c] \in new => u[c] \in D
    BY <1>2, <2>3, ClustersAre
  <2>5. new \subseteq D
    BY <1>1, <1>2, <2>2, <2>4, NewReached
  <2> QED
    BY <2>1, <2>5
<1> QED
  BY <1>1, <1>6, <1>7, <1>8

\* ... and another one has them behind its own.
LEMMA LinkedSound ==
  ASSUME NEW t \in Tables, NEW first \in Clusters, SoundChain(t, first),
         NEW new \in SUBSET FreeOf(t), new # {}
  PROVE  /\ SoundChain(Linked(t, first, new), first)
         /\ Chain(Linked(t, first, new), first) = Chain(t, first) \cup new
<1>1. PICK u, C, e : u = Linked(t, first, new) /\ C = Chain(t, first) /\ e = LastOf(t, first)
  OBVIOUS
<1>2. new \in SUBSET Clusters /\ \A c \in new : t[c] = FreeCluster
  BY DEF FreeOf
<1>3. /\ u \in Tables
      /\ \A c \in new : u[c] \in new \/ u[c] = EndCluster
      /\ \A c \in Clusters \ new : u[c] = IF c = e THEN Least(new) ELSE t[c]
  BY <1>1, <1>2, LinkedIs, ClustersAre
<1>4. C \subseteq Clusters /\ C \cap new = {} /\ first \in C
  BY <1>1, <1>2, ChainIs, ChainMarked
<1>5. \A c \in C : t[c] \in C \cup {EndCluster}
  BY <1>1, SoundStays
<1>6. e \in C /\ t[e] = EndCluster
  BY <1>1, LastOfIs
<1>7. Least(new) \in new
  BY <1>2, LeastIs
<1>8. \A c \in C : u[c] = IF c = e THEN Least(new) ELSE t[c]
  BY <1>3, <1>4
<1>9. \A S \in SUBSET (C \cup new) : S # {} => \E c \in S : u[c] \notin S
  <2> SUFFICES ASSUME NEW S \in SUBSET (C \cup new), S # {} PROVE \E c \in S : u[c] \notin S
    OBVIOUS
  <2>1. CASE S \cap new # {}
    <3>1. S \in SUBSET Clusters
      BY <1>2, <1>4
    <3>2. \E c \in S \cap new : Linked(t, first, new)[c] \notin S
      BY <1>2, <2>1, <3>1, NewEnds
    <3> QED
      BY <1>1, <3>2
  <2>2. CASE S \cap new = {}
    <3>1. S \in SUBSET C
      BY <2>2
    <3>2. PICK c \in S : t[c] \notin S
      BY <1>1, <3>1, SoundEnds
    <3> QED
      BY <1>7, <1>8, <2>2, <3>1, <3>2
  <2> QED
    BY <2>1, <2>2
<1>10. \A c \in C \cup new : u[c] \in (C \cup new) \cup {EndCluster}
  BY <1>3, <1>5, <1>7, <1>8
<1>11. SoundChain(u, first)
  <2>1. PICK D : D = C \cup new
    OBVIOUS
  <2>2. D \in SUBSET Clusters /\ first \in D /\ \A c \in D : u[c] \in D \cup {EndCluster}
    BY <1>2, <1>4, <1>10, <2>1
  <2>3. \A S \in SUBSET D : S # {} => \E c \in S : u[c] \notin S
    BY <1>9, <2>1
  <2> QED
    BY <1>3, <2>2, <2>3, SoundIf
<1>12. Chain(u, first) \subseteq C \cup new
  <2>1. PICK D : D = C \cup new
    OBVIOUS
  <2>2. first \in D /\ \A c \in D \cap Clusters : u[c] \in Clusters => u[c] \in D
    BY <1>4, <1>10, <2>1, ClustersAre
  <2>3. Chain(u, first) \subseteq D
    BY <2>2, ChainLeast
  <2> QED
    BY <2>1, <2>3
<1>13. PICK D : D = Chain(u, first)
  OBVIOUS
<1>14. first \in D /\ \A c \in D : u[c] \in D \cup {EndCluster}
  BY <1>3, <1>11, <1>13, ChainIs, SoundStays
<1>15. C \subseteq D
  <2>1. PICK B : B = C \cap D
    OBVIOUS
  <2>2. first \in B
    BY <1>4, <1>14, <2>1
  <2>3. ASSUME NEW c \in B, t[c] \in Clusters PROVE t[c] \in B
    <3>1. c \in C /\ c \in D /\ t[c] \in C /\ c # e
      BY <1>5, <1>6, <2>1, <2>3, ClustersAre
    <3>2. u[c] = t[c]
      BY <1>8, <3>1
    <3> QED
      BY <1>14, <2>1, <2>3, <3>1, <3>2, ClustersAre
  <2>4. \A c \in B \cap Clusters : t[c] \in Clusters => t[c] \in B
    BY <2>3
  <2>5. Chain(t, first) \subseteq B
    BY <2>2, <2>4, ChainLeast
  <2> QED
    BY <1>1, <2>1, <2>5
<1>16. new \subseteq D
  <2>1. Least(new) \in D
    <3>1. u[e] = Least(new)
      BY <1>6, <1>8
    <3>2. Least(new) # EndCluster
      BY <1>2, <1>7, ClustersAre
    <3> QED
      BY <1>6, <1>14, <1>15, <3>1, <3>2
  <2>2. \A c \in D \cap new : u[c] \in new => u[c] \in D
    BY <1>2, <1>14, ClustersAre
  <2> QED
    BY <1>1, <1>2, <2>1, <2>2, NewReached
<1> QED
  BY <1>1, <1>11, <1>12, <1>13, <1>15, <1>16

\* A table that marks no cluster behind the device.
OnlyDevice(t) == \A c \in Clusters : t[c] \in {FreeCluster, EndCluster} \cup 2 .. LastCluster

\* A table without the chain of a file.
LEMMA CutIs ==
  ASSUME NEW t \in Tables, NEW first
  PROVE  /\ Cut(t, first) \in Tables
         /\ \A c \in Clusters : Cut(t, first)[c] = IF c \in Chain(t, first) THEN FreeCluster ELSE t[c]
  BY DEF Cut, Tables

\* Neither change marks more than the clusters it is given.
LEMMA DeviceKept ==
  ASSUME NEW t \in Tables, OnlyDevice(t)
  PROVE  /\ \A first : OnlyDevice(Cut(t, first))
         /\ \A first, new : new \in SUBSET Clusters /\ new # {} /\ (\A c \in new : c <= LastCluster) =>
              OnlyDevice(Linked(t, first, new)) /\ Least(new) <= LastCluster
<1>1. \A c \in Clusters : t[c] \in {FreeCluster, EndCluster} \cup 2 .. LastCluster
  BY DEF OnlyDevice
<1>2. ASSUME NEW first PROVE OnlyDevice(Cut(t, first))
  BY <1>1, CutIs DEF OnlyDevice
<1>3. ASSUME NEW first, NEW new \in SUBSET Clusters, new # {}, \A c \in new : c <= LastCluster
      PROVE  OnlyDevice(Linked(t, first, new)) /\ Least(new) <= LastCluster
  <2>1. PICK u : u = Linked(t, first, new)
    OBVIOUS
  <2>2. /\ \A c \in new : u[c] \in new \/ u[c] = EndCluster
        /\ \A c \in Clusters \ new : u[c] = t[c] \/ u[c] = Least(new)
    BY <1>3, <2>1, LinkedIs
  <2>3. Least(new) \in new
    BY <1>3, LeastIs
  <2>4. \A c \in new : c \in 2 .. LastCluster
    <3>1. \A c \in new : c \in 2 .. LastEntry
      BY DEF Clusters
    <3>2. LastCluster \in Int /\ LastEntry \in Int
      BY ClustersAre
    <3> QED
      BY <1>3, <3>1, <3>2
  <2>5. \A c \in Clusters : u[c] \in {FreeCluster, EndCluster} \cup 2 .. LastCluster
    BY <1>1, <2>2, <2>3, <2>4
  <2> QED
    BY <1>3, <2>1, <2>3, <2>5 DEF OnlyDevice
<1> QED
  BY <1>2, <1>3

\* A table of the device's clusters has chains of them only.
LEMMA DeviceChains ==
  ASSUME NEW t \in Tables, OnlyDevice(t), NEW first \in Entries, first <= LastCluster,
         NEW c \in Chain(t, first)
  PROVE  c <= LastCluster
<1>1. PICK D : D = 2 .. LastCluster
  OBVIOUS
<1>2. first \in Clusters => first \in D
  BY <1>1, ClustersAre DEF Clusters
<1>3. \A b \in D \cap Clusters : t[b] \in Clusters => t[b] \in D
  BY <1>1, ClustersAre DEF OnlyDevice
<1>4. Chain(t, first) \subseteq D
  BY <1>2, <1>3, ChainLeast
<1> QED
  BY <1>1, <1>4, ClustersAre

\* A table of p's that is still to be written, and whether it gives a slot back.
Cuts(p) == doing[p] \in {"cut dir", "cut fat1"}
Changes(p) == Cuts(p) \/ doing[p] \in {"dir", "new dir", "fat1", "new fat1"}

\* The file of p as it will be, and the chain that a slot has until its table is written:
\* what others have written of a slot that is being erased counts for nothing.
First(p) == IF Cuts(p) THEN NoEntry ELSE dir[target[p]]
Kept == [f \in Files |-> IF Erasing(f) THEN dir[f] ELSE dirdisk[f]]

\* A process has a slot just while its step needs one, and an entry in it as long as it
\* holds it, alone.
TargetsFit ==
  \A p \in Writers :
    /\ target[p] = NoFile <=> doing[p] \in Unslotted
    /\ \A f \in Files : Holds(p, f) => /\ dir[f] # NoEntry
                                      /\ \A q \in Writers \ {p} : ~Holds(q, f)

\* The directories only differ where one is to be written: the entry of a file that grows
\* from nothing, or one that was created or given back.
DirsFit ==
  /\ \A f \in Files :
       \/ dir[f] = Kept[f]
       \/ \E p \in Writers : target[p] = f /\ doing[p] \in {"dir", "new dir"}
       \/ dir[f] = NoEntry /\ \E p \in Writers : target[p] = f /\ doing[p] = "cut dir"
  /\ \A p \in Writers :
       /\ doing[p] = "dir" => dir[target[p]] \in {Kept[target[p]], FreeCluster}
       /\ doing[p] = "new dir" => Kept[target[p]] \in {dir[target[p]], FreeCluster}
  /\ \A f \in Files : dirdisk[f] \in {Kept[f], NoEntry}

\* No table and no entry has a cluster behind the device.
DeviceFits ==
  /\ OnlyDevice(fat1) /\ \A p \in Writers : OnlyDevice(copy[p])
  /\ \A f \in Files : dir[f] <= LastCluster /\ dirdisk[f] <= LastCluster

\* ChainsAreSound of the chains that are kept.
KeptSound ==
  \A f \in Files :
    ~InFlight(f) =>
      /\ SoundChain(fat1, Kept[f])
      /\ \A g \in Files \ {f} :
           ~InFlight(g) => Chain(fat1, Kept[f]) \cap Chain(fat1, Kept[g]) = {}

\* What the table of p does to the chain of another file.
Spares(p, g) ==
  /\ \A c \in Chain(fat1, Kept[g]) : copy[p][c] = fat1[c]
  /\ Chain(copy[p], First(p)) \cap Chain(fat1, Kept[g]) = {}

\* A slot that was given back is free, or a new file has it whose table was not written yet.
Retaken(p) ==
  \/ dir[target[p]] = NoEntry
  \/ /\ dir[target[p]] = FreeCluster
     /\ \E q \in Writers : target[q] = target[p] /\ doing[q] \in {"dir", "fat1"}

\* The table of a process that is not older than the one on the disk: the same, or what it
\* will be with the changes of p, which make a sound chain and spare the others.
CopyFits(p) ==
  /\ doing[p] \in {"loaded", "creating", "cutting", "fat2", "cut fat2"} => copy[p] = fat1
  /\ Changes(p) =>
       /\ SoundChain(copy[p], First(p))
       /\ Chain(fat1, First(p)) \subseteq Chain(copy[p], First(p))
       /\ \A g \in Files \ {target[p]} : ~InFlight(g) => Spares(p, g)
  /\ Cuts(p) => Retaken(p)
  /\ doing[p] = "cut fat1" => Kept[target[p]] \notin Clusters

\* A change that is to be written, to a table that has changed since: it cannot end well.
Early == Unslotted \cup {"loaded", "erased", "cutting"}
Doomed == \E p \in behind : doing[p] \notin Early

\* A cluster has a file, or was one of a file whose clusters are being given back.
Claimed(c) ==
  \/ \E f \in Files : c \in Chain(fat1, Kept[f])
  \/ \E p \in Writers : (Cuts(p) \/ doing[p] \in {"dir", "fat1"}) /\ copy[p][c] = FreeCluster

\* Until the machine stops: every marked cluster is claimed, also after what is to be
\* written; clusters that are given back are free; and the tables on the disk only differ
\* between two writes.
LeaksFit ==
  /\ \A c \in Clusters : fat1[c] # FreeCluster => Claimed(c)
  /\ \A p \in Writers :
       Changes(p) =>
         \A c \in Clusters : copy[p][c] # FreeCluster =>
           c \in Chain(copy[p], First(p)) \/ fat1[c] # FreeCluster
  /\ \A f \in Files : \A c \in Chain(fat1, Kept[f]) :
       \/ dir[f] = Kept[f]
       \/ \E p \in Writers : target[p] = f /\ doing[p] \in {"dir", "cut dir"}
                             /\ copy[p][c] = FreeCluster
  /\ fat1 = fat2 \/ \E p \in Writers : doing[p] \in {"fat2", "cut fat2"}

\* What holds until one of the reasons in damage.
FatParts ==
  /\ FatTypeOK /\ TargetsFit /\ DirsFit /\ DeviceFits /\ KeptSound
  /\ \A p \in Writers \ behind : CopyFits(p)
  /\ crashes = 0 /\ ~Doomed => LeaksFit

\* The invariant.
FatInv == damage = {} => FatParts

\* What a step of a process can be, and that no slot is NoFile.
LEMMA StepsAre ==
  ASSUME FatParts
  PROVE  /\ doing \in [Writers -> Steps] /\ copy \in [Writers -> Tables]
         /\ target \in [Writers -> Files \cup {NoFile}] /\ NoFile \notin Files
         /\ dir \in [Files -> Entries] /\ dirdisk \in [Files -> Entries]
  BY FatAssumption DEF FatParts, FatTypeOK, FatAssumption

\* A process at work has a slot; if it has not given it back, the slot has an entry and is
\* no other's.
LEMMA OwnFile ==
  ASSUME FatParts, NEW p \in Writers, doing[p] \notin Unslotted
  PROVE  /\ target[p] \in Files
         /\ doing[p] \notin {"cut dir", "cut fat1", "cut fat2"} =>
              /\ Holds(p, target[p]) /\ dir[target[p]] # NoEntry
              /\ \A q \in Writers \ {p} : ~Holds(q, target[p])
<1>1. target[p] # NoFile /\ target[p] \in Files
  BY StepsAre DEF FatParts, TargetsFit
<1>2. doing[p] \notin {"cut dir", "cut fat1", "cut fat2"} => Holds(p, target[p])
  BY DEF Holds
<1>3. Holds(p, target[p]) => /\ dir[target[p]] # NoEntry
                            /\ \A q \in Writers \ {p} : ~Holds(q, target[p])
  BY <1>1 DEF FatParts, TargetsFit
<1> QED
  BY <1>1, <1>2, <1>3

\* Both directories say the same of an entry whose holder, if there is one, changes nothing.
LEMMA AtRest ==
  ASSUME FatParts, NEW f \in Files, dir[f] # NoEntry,
         \A q \in Writers : Holds(q, f) => doing[q] \notin {"dir", "new dir", "new fat1"}
  PROVE  dir[f] = Kept[f] /\ ~InFlight(f)
<1>1. ~\E q \in Writers : target[q] = f /\ doing[q] \in {"dir", "new dir", "new fat1"}
  BY DEF Holds, Unslotted
<1>2. ~InFlight(f)
  BY <1>1 DEF InFlight
<1> QED
  BY <1>1, <1>2 DEF FatParts, DirsFit

\* Nobody erases a slot that another process holds, or that nobody does.
LEMMA NotErased ==
  ASSUME NEW f \in Files, \A q \in Writers : Holds(q, f) => doing[q] \notin {"erased", "cutting"}
  PROVE  ~Erasing(f) /\ Kept[f] = dirdisk[f]
<1>1. ~Erasing(f)
  BY DEF Erasing, Holds, Unslotted
<1> QED
  BY <1>1 DEF Kept

\* A step with which p, that has loaded the table, makes it u and the entry in f d.
ChangesTo(p, f, x, u, d) ==
  /\ \/ doing[p] \in {"loaded", "cutting"} /\ target[p] = f
     \/ doing[p] = "creating" /\ dir[f] = NoEntry /\ ~Erasing(f)
  /\ doing' = [doing EXCEPT ![p] = x] /\ target' = [target EXCEPT ![p] = f]
  /\ copy' = [copy EXCEPT ![p] = u] /\ dir' = [dir EXCEPT ![f] = d]
  /\ UNCHANGED <<diskVars, behind, crashes>>

\* What has to be said of such a change: of any, ...
GoodType(p, f, x, u, d) ==
  /\ u \in Tables /\ OnlyDevice(u) /\ d \in Entries /\ d <= LastCluster
  /\ \/ x = "dir" /\ doing[p] # "cutting" /\ d \in {dir[f], FreeCluster} /\ d # NoEntry
     \/ x = "new dir" /\ doing[p] = "loaded" /\ dir[f] = FreeCluster /\ d # NoEntry
     \/ x = "cut dir" /\ doing[p] = "cutting" /\ d = NoEntry
  /\ doing[p] = "creating" => d = FreeCluster

\* ... and of one to the table that is on the disk.
GoodChain(f, u, d) ==
  /\ SoundChain(u, d) /\ Chain(fat1, d) \subseteq Chain(u, d)
  /\ \A g \in Files \ {f} :
       ~InFlight(g) => /\ \A c \in Chain(fat1, Kept[g]) : u[c] = fat1[c]
                       /\ Chain(u, d) \cap Chain(fat1, Kept[g]) = {}

\* ... and of the clusters it marks and frees.
GoodLeft(f, x, u, d) ==
  /\ \A c \in Clusters : u[c] # FreeCluster => c \in Chain(u, d) \/ fat1[c] # FreeCluster
  /\ x # "new dir" /\ d # dir[f] => \A c \in Chain(fat1, dir[f]) : u[c] = FreeCluster

\* Such a change keeps the invariant.
LEMMA ChangeStep ==
  ASSUME FatParts, NEW p \in Writers, NEW f \in Files, NEW x, NEW u, NEW d,
         ChangesTo(p, f, x, u, d), GoodType(p, f, x, u, d),
         p \notin behind => GoodChain(f, u, d) /\ GoodLeft(f, x, u, d)
  PROVE  FatParts'
<1>1. /\ fat1' = fat1 /\ fat2' = fat2 /\ dirdisk' = dirdisk
      /\ behind' = behind /\ crashes' = crashes
  BY DEF ChangesTo, diskVars
<1>2. /\ doing[p] \in {"loaded", "cutting", "creating"} /\ x \in {"dir", "new dir", "cut dir"}
      /\ x = "cut dir" <=> doing[p] = "cutting"
      /\ x \in Steps /\ x \notin Unslotted
  BY DEF ChangesTo, GoodType, Steps, Unslotted
<1>3. /\ \A q \in Writers : doing'[q] = IF q = p THEN x ELSE doing[q]
      /\ \A q \in Writers : copy'[q] = IF q = p THEN u ELSE copy[q]
      /\ \A q \in Writers : target'[q] = IF q = p THEN f ELSE target[q]
      /\ \A g \in Files : dir'[g] = IF g = f THEN d ELSE dir[g]
  BY StepsAre DEF ChangesTo
<1>4. \A q \in Writers \ {p} : ~Holds(q, f)
  <2>1. CASE doing[p] = "creating"
    BY <2>1 DEF ChangesTo, FatParts, TargetsFit
  <2>2. CASE doing[p] # "creating"
    <3>1. target[p] = f /\ doing[p] \notin Unslotted \cup {"cut dir", "cut fat1", "cut fat2"}
      BY <1>2, <2>2 DEF ChangesTo, Unslotted
    <3> QED
      BY <3>1, OwnFile
  <2> QED
    BY <2>1, <2>2
<1>5. doing[p] # "creating" => dir[f] # NoEntry /\ dir[f] = Kept[f] /\ ~InFlight(f)
  <2> SUFFICES ASSUME doing[p] # "creating" PROVE dir[f] # NoEntry /\ dir[f] = Kept[f] /\ ~InFlight(f)
    OBVIOUS
  <2>1. target[p] = f /\ doing[p] \in {"loaded", "cutting"}
    BY <1>2 DEF ChangesTo
  <2>2. dir[f] # NoEntry
    BY <2>1, OwnFile DEF Unslotted
  <2>3. \A q \in Writers : Holds(q, f) => doing[q] \notin {"dir", "new dir", "new fat1"}
    BY <1>4, <2>1
  <2> QED
    BY <2>2, <2>3, AtRest
<1>6. ~InFlight(f)
  <2>1. ASSUME NEW q \in Writers, target[q] = f, doing[q] \in {"new dir", "new fat1"} PROVE FALSE
    <3>1. q # p
      BY <1>2, <2>1
    <3> QED
      BY <1>4, <2>1, <3>1 DEF Holds, Unslotted
  <2> QED
    BY <2>1 DEF InFlight
<1>7. \A q \in Writers \ {p} : \A g \in Files : Holds(q, g)' <=> Holds(q, g)
  BY <1>3 DEF Holds
<1>8. \A g \in Files \ {f} : ~Holds(p, g)'
  BY <1>3 DEF Holds
<1>9. /\ \A g \in Files \ {f} : Kept'[g] = Kept[g]
      /\ Kept'[f] \in {Kept[f], NoEntry} /\ (doing[p] # "cutting" => Kept'[f] = Kept[f])
  <2>1. ASSUME NEW g \in Files \ {f} PROVE Erasing(g)' <=> Erasing(g)
    <3>1. ASSUME NEW q \in Writers
          PROVE  (target'[q] = g /\ doing'[q] \in {"erased", "cutting"})
                 <=> (target[q] = g /\ doing[q] \in {"erased", "cutting"})
      <4>1. CASE q = p
        BY <1>2, <1>3, <4>1 DEF ChangesTo
      <4>2. CASE q # p
        BY <1>3, <4>2
      <4> QED
        BY <4>1, <4>2
    <3> QED
      BY <3>1 DEF Erasing
  <2>2. \A g \in Files \ {f} : Kept'[g] = Kept[g]
    BY <1>1, <1>3, <2>1 DEF Kept
  <2>3. ~Erasing(f)'
    <3>1. ASSUME NEW q \in Writers, target'[q] = f, doing'[q] \in {"erased", "cutting"} PROVE FALSE
      <4>1. q # p
        BY <1>2, <1>3, <3>1
      <4>2. target[q] = f /\ doing[q] \in {"erased", "cutting"}
        BY <1>3, <3>1, <4>1
      <4> QED
        BY <1>4, <4>1, <4>2 DEF Holds, Unslotted
    <3> QED
      BY <3>1 DEF Erasing
  <2>4. Kept'[f] = dirdisk[f]
    BY <1>1, <2>3 DEF Kept
  <2>5. dirdisk[f] \in {Kept[f], NoEntry}
    BY DEF FatParts, DirsFit
  <2>6. ASSUME doing[p] # "cutting" PROVE ~Erasing(f)
    <3>1. ASSUME NEW q \in Writers, target[q] = f, doing[q] \in {"erased", "cutting"} PROVE FALSE
      <4>1. q # p
        BY <1>2, <2>6, <3>1
      <4> QED
        BY <1>4, <3>1, <4>1 DEF Holds, Unslotted
    <3> QED
      BY <3>1 DEF Erasing
  <2> QED
    BY <2>2, <2>4, <2>5, <2>6 DEF Kept
<1>10. FatTypeOK'
  <2>1. /\ doing' \in [Writers -> Steps] /\ copy' \in [Writers -> Tables]
        /\ dir' \in [Files -> Entries] /\ target' \in [Writers -> Files \cup {NoFile}]
    BY <1>2, StepsAre DEF ChangesTo, GoodType
  <2> QED
    BY <1>1, <2>1 DEF FatParts, FatTypeOK
<1>11. TargetsFit'
  <2>1. ASSUME NEW q \in Writers PROVE target'[q] = NoFile <=> doing'[q] \in Unslotted
    <3>1. CASE q = p
      BY <1>2, <1>3, <3>1, StepsAre
    <3>2. CASE q # p
      BY <1>3, <3>2 DEF FatParts, TargetsFit
    <3> QED
      BY <3>1, <3>2
  <2>2. ASSUME NEW q \in Writers, NEW g \in Files, Holds(q, g)'
        PROVE  dir'[g] # NoEntry /\ \A r \in Writers \ {q} : ~Holds(r, g)'
    <3>1. CASE q = p
      <4>1. g = f /\ x # "cut dir"
        BY <1>3, <1>8, <2>2, <3>1 DEF Holds
      <4>2. d # NoEntry
        BY <4>1 DEF GoodType
      <4> QED
        BY <1>3, <1>4, <1>7, <3>1, <4>1, <4>2
    <3>2. CASE q # p
      <4>1. Holds(q, g) /\ g # f
        BY <1>4, <1>7, <2>2, <3>2
      <4>2. dir[g] # NoEntry /\ \A r \in Writers \ {q} : ~Holds(r, g)
        BY <4>1 DEF FatParts, TargetsFit
      <4> QED
        BY <1>3, <1>7, <1>8, <4>1, <4>2
    <3> QED
      BY <3>1, <3>2
  <2> QED
    BY <2>1, <2>2 DEF TargetsFit, Holds, Unslotted
<1>12. DirsFit'
  <2>1. ASSUME NEW g \in Files
        PROVE  \/ dir'[g] = Kept'[g]
               \/ \E q \in Writers : target'[q] = g /\ doing'[q] \in {"dir", "new dir"}
               \/ dir'[g] = NoEntry /\ \E q \in Writers : target'[q] = g /\ doing'[q] = "cut dir"
    <3>1. CASE g = f
      <4>1. target'[p] = f /\ doing'[p] = x /\ dir'[f] = d
        BY <1>3
      <4>2. x \in {"dir", "new dir"} \/ (x = "cut dir" /\ d = NoEntry)
        BY DEF GoodType
      <4> QED
        BY <3>1, <4>1, <4>2
    <3>2. CASE g # f
      <4>1. \/ dir[g] = Kept[g]
            \/ \E q \in Writers : target[q] = g /\ doing[q] \in {"dir", "new dir"}
            \/ dir[g] = NoEntry /\ \E q \in Writers : target[q] = g /\ doing[q] = "cut dir"
        BY DEF FatParts, DirsFit
      <4>2. dir'[g] = dir[g] /\ Kept'[g] = Kept[g]
        BY <1>3, <1>9, <3>2
      <4>3. \A q \in Writers : doing[q] \in {"dir", "new dir", "cut dir"} =>
              target'[q] = target[q] /\ doing'[q] = doing[q]
        BY <1>2, <1>3
      <4> QED
        BY <4>1, <4>2, <4>3
    <3> QED
      BY <3>1, <3>2
  <2>2. ASSUME NEW q \in Writers
        PROVE  /\ doing'[q] = "dir" => dir'[target'[q]] \in {Kept'[target'[q]], FreeCluster}
               /\ doing'[q] = "new dir" => Kept'[target'[q]] \in {dir'[target'[q]], FreeCluster}
    <3>1. CASE q = p
      <4>1. dir'[f] = d /\ target'[q] = f /\ doing'[q] = x
        BY <1>3, <3>1
      <4>2. doing[p] # "cutting" => Kept'[f] = Kept[f]
        BY <1>9
      <4>3. PICK k, y : k = Kept'[f] /\ y = target[q]'
        OBVIOUS
      <4>4. y = f
        BY <4>1, <4>3
      <4>5. /\ x = "dir" => d \in {k, FreeCluster}
            /\ x = "new dir" => k \in {d, FreeCluster}
        BY <1>2, <1>5, <4>2, <4>3 DEF GoodType
      <4> QED
        BY <4>1, <4>3, <4>5
    <3>2. CASE q # p
      <4>1. SUFFICES ASSUME doing[q] \in {"dir", "new dir"}
                     PROVE  /\ doing[q] = "dir" => dir'[target'[q]] \in {Kept'[target'[q]], FreeCluster}
                            /\ doing[q] = "new dir" => Kept'[target'[q]] \in {dir'[target'[q]], FreeCluster}
        BY <1>3, <3>2
      <4>2. target[q] \in Files /\ target[q] # f
        BY <1>4, <3>2, <4>1, OwnFile DEF Holds, Unslotted
      <4>3. target'[q] = target[q]
        BY <1>3, <3>2
      <4>4. Kept'[target'[q]] = Kept[target[q]] /\ dir'[target[q]] = dir[target[q]]
        BY <1>3, <1>9, <4>2, <4>3
      <4>5. /\ doing[q] = "dir" => dir[target[q]] \in {Kept[target[q]], FreeCluster}
            /\ doing[q] = "new dir" => Kept[target[q]] \in {dir[target[q]], FreeCluster}
        BY DEF FatParts, DirsFit
      <4> QED
        BY <4>3, <4>4, <4>5
    <3> QED
      BY <3>1, <3>2
  <2>3. ASSUME NEW g \in Files PROVE dirdisk'[g] \in {Kept'[g], NoEntry}
    <3>1. dirdisk[g] \in {Kept[g], NoEntry}
      BY DEF FatParts, DirsFit
    <3>2. Kept'[g] = Kept[g] \/ (g = f /\ doing[p] = "cutting")
      BY <1>9
    <3>3. g = f /\ doing[p] = "cutting" => Kept'[g] = dirdisk[g]
      <4> SUFFICES ASSUME doing[p] = "cutting" PROVE ~Erasing(f)'
        BY <1>1 DEF Kept
      <4>1. ASSUME NEW q \in Writers, target'[q] = f, doing'[q] \in {"erased", "cutting"} PROVE FALSE
        BY <1>2, <1>3, <1>4, <4>1 DEF Holds, Unslotted
      <4> QED
        BY <4>1 DEF Erasing
    <3> QED
      BY <1>1, <3>1, <3>2, <3>3
  <2> QED
    BY <2>1, <2>2, <2>3 DEF DirsFit
<1>13. DeviceFits'
  <2>1. OnlyDevice(fat1') /\ \A q \in Writers : OnlyDevice(copy'[q])
    BY <1>1, <1>3 DEF FatParts, DeviceFits, GoodType
  <2>2. \A g \in Files : dir'[g] <= LastCluster /\ dirdisk'[g] <= LastCluster
    BY <1>1, <1>3 DEF FatParts, DeviceFits, GoodType
  <2> QED
    BY <2>1, <2>2 DEF DeviceFits, OnlyDevice
<1>14. \A g \in Files : InFlight(g) => InFlight(g)'
  <2>1. \A q \in Writers : doing[q] \in {"new dir", "new fat1"} =>
          target'[q] = target[q] /\ doing'[q] = doing[q]
    BY <1>2, <1>3
  <2> QED
    BY <2>1 DEF InFlight
<1>15. \A g \in Files : \/ Kept'[g] = Kept[g]
                        \/ Chain(fat1, Kept'[g]) = {} /\ SoundChain(fat1, Kept'[g])
  <2>1. Chain(fat1, NoEntry) = {} /\ SoundChain(fat1, NoEntry)
    BY NoChain, ClustersAre
  <2> QED
    BY <1>9, <2>1
<1>16. KeptSound'
  <2>1. ASSUME NEW g \in Files, ~InFlight(g)' PROVE SoundChain(fat1, Kept'[g])
    BY <1>14, <1>15, <2>1 DEF FatParts, KeptSound
  <2>2. ASSUME NEW g \in Files, NEW h \in Files \ {g}, ~InFlight(g)', ~InFlight(h)'
        PROVE  Chain(fat1, Kept'[g]) \cap Chain(fat1, Kept'[h]) = {}
    <3>1. Chain(fat1, Kept[g]) \cap Chain(fat1, Kept[h]) = {}
      BY <1>14, <2>2 DEF FatParts, KeptSound
    <3> QED
      BY <1>15, <3>1
  <2> QED
    BY <1>1, <2>1, <2>2 DEF KeptSound
<1>17. ASSUME NEW q \in Writers \ behind PROVE CopyFits(q)'
  <2>1. CASE q = p
    <3>1. dir'[f] = d /\ target'[q] = f /\ doing'[q] = x /\ copy'[q] = u
      BY <1>3, <2>1
    <3>2. GoodChain(f, u, d)
      BY <2>1
    <3>3. First(q)' = d
      BY <3>1 DEF First, Cuts, GoodType
    <3>4. /\ SoundChain(copy'[q], First(q)')
          /\ Chain(fat1', First(q)') \subseteq Chain(copy'[q], First(q)')
      BY <1>1, <3>1, <3>2, <3>3 DEF GoodChain
    <3>5. ASSUME NEW g \in Files \ {f}, ~InFlight(g)' PROVE Spares(q, g)'
      <4>1. Kept'[g] = Kept[g] /\ ~InFlight(g)
        BY <1>9, <1>14, <3>5
      <4>2. /\ \A c \in Chain(fat1, Kept[g]) : u[c] = fat1[c]
            /\ Chain(u, d) \cap Chain(fat1, Kept[g]) = {}
        BY <3>2, <4>1 DEF GoodChain
      <4> QED
        BY <1>1, <3>1, <3>3, <4>1, <4>2 DEF Spares
    <3>6. Cuts(q)' => Retaken(q)'
      BY <3>1 DEF Cuts, Retaken, GoodType
    <3>7. doing'[q] \notin {"loaded", "creating", "cutting", "fat2", "cut fat2", "cut fat1"}
      BY <1>2, <3>1
    <3> QED
      BY <3>1, <3>4, <3>5, <3>6, <3>7 DEF CopyFits
  <2>2. CASE q # p
    <3>1. CopyFits(q)
      BY DEF FatParts
    <3>2. doing'[q] = doing[q] /\ copy'[q] = copy[q] /\ target'[q] = target[q]
      BY <1>3, <2>2
    <3>3. (Changes(q)' <=> Changes(q)) /\ (Cuts(q)' <=> Cuts(q))
      BY <3>2 DEF Changes, Cuts
    <3>4. Changes(q) => target[q] \in Files /\ First(q)' = First(q)
      <4> SUFFICES ASSUME Changes(q) PROVE target[q] \in Files /\ First(q)' = First(q)
        OBVIOUS
      <4>1. target[q] \in Files
        BY OwnFile DEF Changes, Cuts, Unslotted
      <4>2. CASE Cuts(q)
        BY <3>3, <4>1, <4>2 DEF First
      <4>3. CASE ~Cuts(q)
        <5>1. Holds(q, target[q])
          BY <4>3 DEF Changes, Cuts, Holds, Unslotted
        <5>2. target[q] # f
          BY <1>4, <2>2, <5>1
        <5> QED
          BY <1>3, <3>2, <3>3, <4>1, <4>3, <5>2 DEF First
      <4> QED
        BY <4>1, <4>2, <4>3
    <3>5. ASSUME Changes(q), NEW g \in Files \ {target[q]}, ~InFlight(g)' PROVE Spares(q, g)'
      <4>1. Spares(q, g) /\ First(q)' = First(q)
        BY <1>14, <3>1, <3>4, <3>5 DEF CopyFits
      <4> QED
        BY <1>1, <1>15, <3>2, <4>1 DEF Spares
    <3>6. ASSUME Cuts(q) PROVE Retaken(q)'
      <4>1. Retaken(q) /\ target[q] \in Files
        BY <3>1, <3>4, <3>6 DEF CopyFits, Changes
      <4>2. CASE target[q] = f
        <5>1. CASE dir[f] = NoEntry
          <6>1. doing[p] = "creating"
            BY <1>5, <5>1
          <6>2. d = FreeCluster /\ x = "dir"
            BY <6>1 DEF GoodType
          <6> QED
            BY <1>3, <3>2, <4>2, <6>2 DEF Retaken
        <5>2. CASE dir[f] # NoEntry
          <6>1. PICK r \in Writers : target[r] = f /\ doing[r] \in {"dir", "fat1"}
            BY <4>1, <4>2, <5>2 DEF Retaken
          <6>2. Holds(r, f) /\ r # p
            BY <1>2, <6>1 DEF Holds, Unslotted
          <6> QED
            BY <1>4, <6>2
        <5> QED
          BY <5>1, <5>2
      <4>3. CASE target[q] # f
        <5>1. dir'[target'[q]] = dir[target[q]]
          BY <1>3, <3>2, <4>1, <4>3
        <5>2. \A r \in Writers : doing[r] \in {"dir", "fat1"} => target'[r] = target[r] /\ doing'[r] = doing[r]
          BY <1>2, <1>3
        <5> QED
          BY <3>2, <4>1, <5>1, <5>2 DEF Retaken
      <4> QED
        BY <4>2, <4>3
    <3>7. doing'[q] = "cut fat1" => Kept'[target'[q]] \notin Clusters
      <4> SUFFICES ASSUME doing[q] = "cut fat1" PROVE Kept'[target[q]] \notin Clusters
        BY <3>2
      <4>1. Kept[target[q]] \notin Clusters /\ target[q] \in Files
        BY <3>1, <3>4 DEF CopyFits, Changes, Cuts
      <4> QED
        BY <1>9, <4>1, ClustersAre
    <3>8. Changes(q)' => /\ SoundChain(copy'[q], First(q)')
                         /\ Chain(fat1', First(q)') \subseteq Chain(copy'[q], First(q)')
      BY <1>1, <3>1, <3>2, <3>3, <3>4 DEF CopyFits
    <3>9. \A g \in Files \ {target'[q]} : Changes(q)' /\ ~InFlight(g)' => Spares(q, g)'
      BY <3>2, <3>3, <3>5
    <3>10. Cuts(q)' => Retaken(q)'
      BY <3>3, <3>6
    <3>11. doing'[q] \in {"loaded", "creating", "cutting", "fat2", "cut fat2"} => copy'[q] = fat1'
      BY <1>1, <3>1, <3>2 DEF CopyFits
    <3> QED
      BY <3>7, <3>8, <3>9, <3>10, <3>11 DEF CopyFits
  <2> QED
    BY <2>1, <2>2
<1>18. ASSUME crashes' = 0, ~Doomed' PROVE LeaksFit'
  <2>1. p \notin behind /\ ~Doomed
    <3>1. x \notin Early /\ doing[p] \in Early
      BY <1>2 DEF Early, Unslotted
    <3> QED
      BY <1>1, <1>3, <1>18, <3>1 DEF Doomed, FatParts, FatTypeOK
  <2>2. LeaksFit /\ GoodLeft(f, x, u, d)
    BY <1>1, <1>18, <2>1 DEF FatParts
  <2>3. ASSUME NEW c \in Clusters, fat1'[c] # FreeCluster PROVE Claimed(c)'
    <3>1. Claimed(c)
      BY <1>1, <2>2, <2>3 DEF LeaksFit
    <3>2. CASE \E q \in Writers : (Cuts(q) \/ doing[q] \in {"dir", "fat1"}) /\ copy[q][c] = FreeCluster
      <4>1. \A q \in Writers : Cuts(q) \/ doing[q] \in {"dir", "fat1"} => doing'[q] = doing[q] /\ copy'[q] = copy[q]
        BY <1>2, <1>3 DEF Cuts
      <4> QED
        BY <3>2, <4>1 DEF Claimed, Cuts
    <3>3. CASE \E g \in Files : c \in Chain(fat1, Kept[g])
      <4>1. PICK g \in Files : c \in Chain(fat1, Kept[g])
        BY <3>3
      <4>2. CASE Kept'[g] = Kept[g]
        BY <1>1, <4>1, <4>2 DEF Claimed
      <4>3. CASE Kept'[g] # Kept[g]
        <5>1. g = f /\ doing[p] = "cutting"
          BY <1>9, <4>3
        <5>2. x = "cut dir" /\ d = NoEntry /\ dir[f] = Kept[f] /\ dir[f] # NoEntry
          BY <1>5, <5>1 DEF GoodType
        <5>3. u[c] = FreeCluster
          BY <2>2, <4>1, <5>1, <5>2 DEF GoodLeft
        <5>4. doing'[p] = "cut dir" /\ copy'[p] = u
          BY <1>3, <5>2
        <5> QED
          BY <5>3, <5>4 DEF Claimed, Cuts
      <4> QED
        BY <4>2, <4>3
    <3> QED
      BY <3>1, <3>2, <3>3 DEF Claimed
  <2>4. ASSUME NEW q \in Writers, Changes(q)'
        PROVE  \A c \in Clusters : copy'[q][c] # FreeCluster =>
                 c \in Chain(copy'[q], First(q)') \/ fat1'[c] # FreeCluster
    <3>1. CASE q = p
      <4>1. dir'[f] = d /\ target'[q] = f /\ doing'[q] = x /\ copy'[q] = u
        BY <1>3, <3>1
      <4>2. First(q)' = d
        BY <4>1 DEF First, Cuts, GoodType
      <4> QED
        BY <1>1, <2>2, <4>1, <4>2 DEF GoodLeft
    <3>2. CASE q # p
      <4>1. doing'[q] = doing[q] /\ copy'[q] = copy[q] /\ target'[q] = target[q]
        BY <1>3, <3>2
      <4>2. Changes(q) /\ (Cuts(q)' <=> Cuts(q))
        BY <2>4, <4>1 DEF Changes, Cuts
      <4>3. First(q)' = First(q)
        <5>1. target[q] \in Files
          BY <4>2, OwnFile DEF Changes, Cuts, Unslotted
        <5>2. CASE Cuts(q)
          BY <4>2, <5>2 DEF First
        <5>3. CASE ~Cuts(q)
          <6>1. Holds(q, target[q])
            BY <4>2, <5>3 DEF Changes, Cuts, Holds, Unslotted
          <6>2. target[q] # f
            BY <1>4, <3>2, <6>1
          <6> QED
            BY <1>3, <4>1, <4>2, <5>1, <5>3, <6>2 DEF First
        <5> QED
          BY <5>2, <5>3
      <4>4. \A c \in Clusters : copy[q][c] # FreeCluster =>
              c \in Chain(copy[q], First(q)) \/ fat1[c] # FreeCluster
        BY <2>2, <4>2 DEF LeaksFit
      <4> QED
        BY <1>1, <4>1, <4>3, <4>4
    <3> QED
      BY <3>1, <3>2
  <2>5. ASSUME NEW g \in Files, NEW c \in Chain(fat1, Kept'[g]), dir'[g] # Kept'[g]
        PROVE  \E q \in Writers : target'[q] = g /\ doing'[q] \in {"dir", "cut dir"}
                                  /\ copy'[q][c] = FreeCluster
    <3>1. Kept'[g] = Kept[g]
      BY <1>15, <2>5
    <3>2. ASSUME NEW q \in Writers, target[q] = g, doing[q] \in {"dir", "cut dir"}, copy[q][c] = FreeCluster
          PROVE  target'[q] = g /\ doing'[q] = doing[q] /\ copy'[q][c] = FreeCluster
      BY <1>2, <1>3, <3>2
    <3>3. dir[g] = Kept[g] \/ \E q \in Writers : target[q] = g /\ doing[q] \in {"dir", "cut dir"}
                                                 /\ copy[q][c] = FreeCluster
      <4>1. c \in Chain(fat1, Kept[g])
        BY <2>5, <3>1
      <4> QED
        BY <2>2, <4>1 DEF LeaksFit
    <3>4. CASE dir[g] # Kept[g]
      BY <3>2, <3>3, <3>4
    <3>5. CASE dir[g] = Kept[g]
      <4>1. g = f /\ d # dir[f]
        BY <1>3, <2>5, <3>1, <3>5
      <4>2. x # "new dir"
        <5> SUFFICES ASSUME x = "new dir" PROVE FALSE
          OBVIOUS
        <5>1. dir[f] = FreeCluster
          BY DEF GoodType
        <5> QED
          BY <3>1, <3>5, <4>1, <5>1, NoChain, ClustersAre
      <4>3. u[c] = FreeCluster
        BY <2>2, <3>1, <3>5, <4>1, <4>2 DEF GoodLeft
      <4>4. target'[p] = f /\ doing'[p] \in {"dir", "cut dir"} /\ copy'[p] = u
        BY <1>2, <1>3, <4>2
      <4> QED
        BY <4>1, <4>3, <4>4
    <3> QED
      BY <3>4, <3>5
  <2>6. fat1' = fat2' \/ \E q \in Writers : doing'[q] \in {"fat2", "cut fat2"}
    <3>1. \A q \in Writers : doing[q] \in {"fat2", "cut fat2"} => doing'[q] = doing[q]
      BY <1>2, <1>3
    <3> QED
      BY <1>1, <2>2, <3>1 DEF LeaksFit
  <2>7. \A g \in Files : \A c \in Chain(fat1', Kept'[g]) :
          \/ dir'[g] = Kept'[g]
          \/ \E q \in Writers : target'[q] = g /\ doing'[q] \in {"dir", "cut dir"}
                                /\ copy'[q][c] = FreeCluster
    BY <1>1, <2>5
  <2> QED
    BY <2>3, <2>4, <2>6, <2>7 DEF LeaksFit
<1> QED
  BY <1>1, <1>10, <1>11, <1>12, <1>13, <1>16, <1>17, <1>18 DEF FatParts

\* A process begins, or reads the table: t is its slot, u its table.
Arrives(p, x, t, u) ==
  /\ doing' = [doing EXCEPT ![p] = x] /\ target' = [target EXCEPT ![p] = t]
  /\ copy' = [copy EXCEPT ![p] = u]
  /\ UNCHANGED <<diskVars, dir, behind, crashes>>
  /\ \/ /\ doing[p] = "idle" /\ x \in {"loaded", "erased"}
        /\ t \in Files /\ dir[t] # NoEntry /\ \A q \in Writers : ~Holds(q, t)
     \/ doing[p] = "idle" /\ x = "creating" /\ t = NoFile
     \/ doing[p] = "erased" /\ x = "cutting" /\ t = target[p]
  /\ u = fat1 \/ (x = "erased" /\ u = copy[p])

\* That changes no slot but t, whose entries are the same and to which no process comes back.
LEMMA ArrivesAlone ==
  ASSUME FatParts, NEW p \in Writers, NEW x, NEW t, NEW u, Arrives(p, x, t, u)
  PROVE  /\ \A q \in Writers : doing'[q] = IF q = p THEN x ELSE doing[q]
         /\ \A q \in Writers : copy'[q] = IF q = p THEN u ELSE copy[q]
         /\ \A q \in Writers : target'[q] = IF q = p THEN t ELSE target[q]
         /\ x \in {"loaded", "erased", "creating", "cutting"} /\ doing[p] \in {"idle", "erased"}
         /\ x # "creating" => t \in Files /\ dir[t] # NoEntry /\ \A q \in Writers \ {p} : ~Holds(q, t)
         /\ Kept' = Kept
<1>1. /\ \A q \in Writers : doing'[q] = IF q = p THEN x ELSE doing[q]
      /\ \A q \in Writers : copy'[q] = IF q = p THEN u ELSE copy[q]
      /\ \A q \in Writers : target'[q] = IF q = p THEN t ELSE target[q]
      /\ x \in {"loaded", "erased", "creating", "cutting"} /\ doing[p] \in {"idle", "erased"}
      /\ dir' = dir /\ dirdisk' = dirdisk
  BY StepsAre DEF Arrives, diskVars
<1>2. x # "creating" => t \in Files /\ dir[t] # NoEntry /\ \A q \in Writers \ {p} : ~Holds(q, t)
  <2>1. CASE doing[p] = "idle"
    BY <2>1 DEF Arrives
  <2>2. CASE doing[p] = "erased"
    <3>1. /\ target[p] \in Files /\ dir[target[p]] # NoEntry
          /\ \A q \in Writers \ {p} : ~Holds(q, target[p])
      BY <2>2, OwnFile DEF Unslotted
    <3> QED
      BY <2>2, <3>1 DEF Arrives
  <2> QED
    BY <1>1, <2>1, <2>2
<1>3. ASSUME NEW g \in Files PROVE Kept'[g] = Kept[g]
  <2>1. CASE x = "erased" /\ g = t
    <3>1. \A q \in Writers : ~Holds(q, g)
      BY <2>1 DEF Arrives
    <3>2. dir[g] = Kept[g]
      BY <1>2, <2>1, <3>1, AtRest
    <3>3. dirdisk[g] = Kept[g]
      BY <3>1, NotErased
    <3> QED
      BY <1>1, <3>2, <3>3 DEF Kept
  <2>2. CASE ~(x = "erased" /\ g = t)
    <3>1. ASSUME NEW q \in Writers
          PROVE  (target'[q] = g /\ doing'[q] \in {"erased", "cutting"})
                 <=> (target[q] = g /\ doing[q] \in {"erased", "cutting"})
      <4>1. CASE q = p
        BY <1>1, <2>2, <4>1 DEF Arrives
      <4>2. CASE q # p
        BY <1>1, <4>2
      <4> QED
        BY <4>1, <4>2
    <3>2. Erasing(g)' <=> Erasing(g)
      BY <3>1 DEF Erasing
    <3> QED
      BY <1>1, <3>2 DEF Kept
  <2> QED
    BY <2>1, <2>2
<1>4. Kept' = Kept
  BY <1>3 DEF Kept
<1> QED
  BY <1>1, <1>2, <1>4

\* So the invariant is kept.
LEMMA ArriveStep ==
  ASSUME FatParts, NEW p \in Writers, NEW x, NEW t, NEW u, Arrives(p, x, t, u)
  PROVE  FatParts'
<1>1. /\ fat1' = fat1 /\ fat2' = fat2 /\ dirdisk' = dirdisk /\ dir' = dir
      /\ behind' = behind /\ crashes' = crashes
      /\ u = fat1 \/ (x = "erased" /\ u = copy[p])
  BY DEF Arrives, diskVars
<1>2. /\ \A q \in Writers : doing'[q] = IF q = p THEN x ELSE doing[q]
      /\ \A q \in Writers : copy'[q] = IF q = p THEN u ELSE copy[q]
      /\ \A q \in Writers : target'[q] = IF q = p THEN t ELSE target[q]
      /\ x \in {"loaded", "erased", "creating", "cutting"} /\ doing[p] \in {"idle", "erased"}
      /\ x # "creating" => t \in Files /\ dir[t] # NoEntry /\ \A q \in Writers \ {p} : ~Holds(q, t)
  BY ArrivesAlone
<1>3. Kept' = Kept
  BY ArrivesAlone
<1>4. x = "creating" <=> t = NoFile
  BY <1>2, StepsAre DEF Arrives
<1>5. u \in Tables /\ OnlyDevice(u) /\ fat1 \in Tables
  BY <1>1, StepsAre DEF FatParts, DeviceFits, FatTypeOK
<1>6. FatTypeOK'
  <2>1. x \in Steps /\ t \in Files \cup {NoFile}
    BY <1>2, <1>4 DEF Steps, Unslotted
  <2>2. /\ doing' \in [Writers -> Steps] /\ copy' \in [Writers -> Tables]
        /\ target' \in [Writers -> Files \cup {NoFile}]
    BY <1>5, <2>1, StepsAre DEF Arrives
  <2> QED
    BY <1>1, <2>2 DEF FatParts, FatTypeOK
<1>7. \A q \in Writers \ {p} : \A g \in Files : Holds(q, g)' <=> Holds(q, g)
  BY <1>2 DEF Holds
<1>8. TargetsFit'
  <2>1. ASSUME NEW q \in Writers PROVE target'[q] = NoFile <=> doing'[q] \in Unslotted
    <3>1. CASE q = p
      BY <1>2, <1>4, <3>1 DEF Unslotted
    <3>2. CASE q # p
      BY <1>2, <3>2 DEF FatParts, TargetsFit
    <3> QED
      BY <3>1, <3>2
  <2>2. ASSUME NEW q \in Writers, NEW g \in Files, Holds(q, g)'
        PROVE  dir'[g] # NoEntry /\ \A r \in Writers \ {q} : ~Holds(r, g)'
    <3>1. CASE q = p
      <4>1. g = t /\ x # "creating"
        BY <1>2, <2>2, <3>1 DEF Holds, Unslotted
      <4> QED
        BY <1>1, <1>2, <1>7, <3>1, <4>1
    <3>2. CASE q # p
      <4>1. Holds(q, g)
        BY <1>7, <2>2, <3>2
      <4>2. dir[g] # NoEntry /\ \A r \in Writers \ {q} : ~Holds(r, g)
        BY <4>1 DEF FatParts, TargetsFit
      <4>3. ~Holds(p, g)'
        <5>1. SUFFICES ASSUME Holds(p, g)' PROVE FALSE
          OBVIOUS
        <5>2. g = t /\ x # "creating"
          BY <1>2, <5>1 DEF Holds, Unslotted
        <5> QED
          BY <1>2, <3>2, <4>1, <5>2
      <4> QED
        BY <1>1, <1>7, <4>2, <4>3
    <3> QED
      BY <3>1, <3>2
  <2> QED
    BY <2>1, <2>2 DEF TargetsFit, Holds, Unslotted
<1>9. \A q \in Writers : doing[q] \notin {"idle", "erased"} \/ doing'[q] \notin {"idle", "loaded", "erased", "creating", "cutting"} =>
        doing'[q] = doing[q] /\ target'[q] = target[q] /\ copy'[q] = copy[q]
  BY <1>2
<1>10. DirsFit'
  <2>1. ASSUME NEW g \in Files
        PROVE  \/ dir'[g] = Kept'[g]
               \/ \E q \in Writers : target'[q] = g /\ doing'[q] \in {"dir", "new dir"}
               \/ dir'[g] = NoEntry /\ \E q \in Writers : target'[q] = g /\ doing'[q] = "cut dir"
    <3>1. \/ dir[g] = Kept[g]
          \/ \E q \in Writers : target[q] = g /\ doing[q] \in {"dir", "new dir"}
          \/ dir[g] = NoEntry /\ \E q \in Writers : target[q] = g /\ doing[q] = "cut dir"
      BY DEF FatParts, DirsFit
    <3> QED
      BY <1>1, <1>3, <1>9, <3>1
  <2>2. ASSUME NEW q \in Writers
        PROVE  /\ doing'[q] = "dir" => dir'[target'[q]] \in {Kept'[target'[q]], FreeCluster}
               /\ doing'[q] = "new dir" => Kept'[target'[q]] \in {dir'[target'[q]], FreeCluster}
    BY <1>1, <1>3, <1>9 DEF FatParts, DirsFit
  <2>3. \A g \in Files : dirdisk'[g] \in {Kept'[g], NoEntry}
    BY <1>1, <1>3 DEF FatParts, DirsFit
  <2> QED
    BY <2>1, <2>2, <2>3 DEF DirsFit
<1>11. DeviceFits'
  <2>1. OnlyDevice(fat1') /\ \A q \in Writers : OnlyDevice(copy'[q])
    BY <1>1, <1>2, <1>5 DEF FatParts, DeviceFits
  <2>2. \A g \in Files : dir'[g] <= LastCluster /\ dirdisk'[g] <= LastCluster
    BY <1>1 DEF FatParts, DeviceFits
  <2> QED
    BY <2>1, <2>2 DEF DeviceFits, OnlyDevice
<1>12. \A g \in Files : InFlight(g)' <=> InFlight(g)
  BY <1>9 DEF InFlight
<1>13. KeptSound'
  BY <1>1, <1>3, <1>12 DEF FatParts, KeptSound
<1>14. ASSUME NEW q \in Writers \ behind PROVE CopyFits(q)'
  <2>1. CASE q = p
    <3>1. doing'[q] = x /\ copy'[q] = u
      BY <1>2, <2>1
    <3>2. ~Changes(q)' /\ ~Cuts(q)'
      BY <1>2, <3>1 DEF Changes, Cuts
    <3> QED
      BY <1>1, <1>2, <3>1, <3>2 DEF CopyFits
  <2>2. CASE q # p
    <3>1. CopyFits(q)
      BY DEF FatParts
    <3>2. doing'[q] = doing[q] /\ copy'[q] = copy[q] /\ target'[q] = target[q]
      BY <1>2, <2>2
    <3>3. (Changes(q)' <=> Changes(q)) /\ (Cuts(q)' <=> Cuts(q)) /\ First(q)' = First(q)
      BY <1>1, <3>2 DEF Changes, Cuts, First
    <3>4. \A g \in Files : Spares(q, g)' <=> Spares(q, g)
      BY <1>1, <1>3, <3>2, <3>3 DEF Spares
    <3>5. Retaken(q) => Retaken(q)'
      BY <1>1, <1>9, <3>2 DEF Retaken
    <3> QED
      BY <1>1, <1>3, <1>12, <3>1, <3>2, <3>3, <3>4, <3>5 DEF CopyFits
  <2> QED
    BY <2>1, <2>2
<1>15. ASSUME crashes' = 0, ~Doomed' PROVE LeaksFit'
  <2>1. LeaksFit
    <3>1. x \in Early /\ doing[p] \in Early
      BY <1>2 DEF Early, Unslotted
    <3> QED
      BY <1>1, <1>2, <1>15, <3>1 DEF Doomed, FatParts, FatTypeOK
  <2>2. ASSUME NEW c \in Clusters, fat1'[c] # FreeCluster PROVE Claimed(c)'
    <3>1. Claimed(c)
      BY <1>1, <2>1, <2>2 DEF LeaksFit
    <3> QED
      BY <1>1, <1>3, <1>9, <3>1 DEF Claimed, Cuts
  <2>3. ASSUME NEW q \in Writers, Changes(q)'
        PROVE  \A c \in Clusters : copy'[q][c] # FreeCluster =>
                 c \in Chain(copy'[q], First(q)') \/ fat1'[c] # FreeCluster
    <3>1. doing'[q] = doing[q] /\ copy'[q] = copy[q] /\ target'[q] = target[q]
      BY <1>9, <2>3 DEF Changes, Cuts
    <3>2. Changes(q) /\ First(q)' = First(q)
      BY <1>1, <2>3, <3>1 DEF Changes, Cuts, First
    <3>3. \A c \in Clusters : copy[q][c] # FreeCluster =>
            c \in Chain(copy[q], First(q)) \/ fat1[c] # FreeCluster
      BY <2>1, <3>2 DEF LeaksFit
    <3> QED
      BY <1>1, <3>1, <3>2, <3>3
  <2>4. \A g \in Files : \A c \in Chain(fat1, Kept[g]) :
          \/ dir[g] = Kept[g]
          \/ \E q \in Writers : target'[q] = g /\ doing'[q] \in {"dir", "cut dir"}
                                /\ copy'[q][c] = FreeCluster
    <3>1. \A q \in Writers : doing[q] \in {"dir", "cut dir"} =>
            doing'[q] = doing[q] /\ target'[q] = target[q] /\ copy'[q] = copy[q]
      BY <1>9
    <3>2. ASSUME NEW g \in Files, NEW c \in Chain(fat1, Kept[g]), dir[g] # Kept[g]
          PROVE  \E q \in Writers : target'[q] = g /\ doing'[q] \in {"dir", "cut dir"}
                                    /\ copy'[q][c] = FreeCluster
      <4>1. PICK q \in Writers : /\ target[q] = g /\ doing[q] \in {"dir", "cut dir"}
                                 /\ copy[q][c] = FreeCluster
        BY <2>1, <3>2 DEF LeaksFit
      <4> QED
        BY <3>1, <4>1
    <3> QED
      BY <3>2
  <2>5. fat1' = fat2' \/ \E q \in Writers : doing'[q] \in {"fat2", "cut fat2"}
    BY <1>1, <1>9, <2>1 DEF LeaksFit
  <2> QED
    BY <1>1, <1>3, <2>2, <2>3, <2>4, <2>5 DEF LeaksFit
<1> QED
  BY <1>1, <1>6, <1>8, <1>10, <1>11, <1>13, <1>14, <1>15 DEF FatParts

\* A process is done: it has written both tables, or it gave up.
EndsWith(p, t) ==
  /\ doing' = [doing EXCEPT ![p] = "idle"]
  /\ target' = [target EXCEPT ![p] = NoFile] /\ copy' = [copy EXCEPT ![p] = EmptyTable]
  /\ behind' = behind \ {p} /\ fat2' = t
  /\ UNCHANGED <<fat1, dirdisk, dir, crashes>>
  /\ \/ doing[p] \in {"loaded", "creating"} /\ t = fat2
     \/ doing[p] \in {"fat2", "cut fat2"} /\ p \notin behind /\ t = copy[p]

\* That keeps it too: what is left behind is nobody's, and the tables are the same again.
LEMMA EndStep ==
  ASSUME FatParts, NEW p \in Writers, NEW t, EndsWith(p, t)
  PROVE  FatParts'
<1>1. /\ doing[p] \in {"loaded", "creating", "fat2", "cut fat2"}
      /\ fat1' = fat1 /\ fat2' = t /\ dirdisk' = dirdisk /\ dir' = dir
      /\ behind' = behind \ {p} /\ crashes' = crashes
  BY DEF EndsWith
<1>2. /\ \A q \in Writers : doing'[q] = IF q = p THEN "idle" ELSE doing[q]
      /\ \A q \in Writers : copy'[q] = IF q = p THEN EmptyTable ELSE copy[q]
      /\ \A q \in Writers : target'[q] = IF q = p THEN NoFile ELSE target[q]
  BY StepsAre DEF EndsWith
<1>3. EmptyTable \in Tables /\ OnlyDevice(EmptyTable)
  BY DEF EmptyTable, Tables, OnlyDevice
<1>4. FatTypeOK'
  <2>1. t \in Tables /\ behind \subseteq Writers
    <3>1. fat2 \in Tables /\ behind \subseteq Writers /\ copy[p] \in Tables
      BY StepsAre DEF FatParts, FatTypeOK
    <3> QED
      BY <3>1 DEF EndsWith
  <2>2. /\ doing' \in [Writers -> Steps] /\ copy' \in [Writers -> Tables]
        /\ target' \in [Writers -> Files \cup {NoFile}]
    BY <1>3, StepsAre DEF EndsWith, Steps, Unslotted
  <2> QED
    BY <1>1, <2>1, <2>2 DEF FatParts, FatTypeOK
<1>5. \A q \in Writers : \A g \in Files : Holds(q, g)' => Holds(q, g)
  <2> SUFFICES ASSUME NEW q \in Writers, NEW g \in Files, Holds(q, g)' PROVE Holds(q, g)
    OBVIOUS
  <2>1. q # p
    BY <1>2 DEF Holds, Unslotted
  <2> QED
    BY <1>2, <2>1 DEF Holds
<1>6. TargetsFit'
  <2>1. \A q \in Writers : target'[q] = NoFile <=> doing'[q] \in Unslotted
    BY <1>2 DEF FatParts, TargetsFit, Unslotted
  <2>2. ASSUME NEW q \in Writers, NEW g \in Files, Holds(q, g)'
        PROVE  dir'[g] # NoEntry /\ \A r \in Writers \ {q} : ~Holds(r, g)'
    <3>1. Holds(q, g)
      BY <1>5, <2>2
    <3>2. dir[g] # NoEntry /\ \A r \in Writers \ {q} : ~Holds(r, g)
      BY <3>1 DEF FatParts, TargetsFit
    <3> QED
      BY <1>1, <1>5, <3>2
  <2> QED
    BY <2>1, <2>2 DEF TargetsFit, Holds, Unslotted
<1>7. \A q \in Writers : doing[q] \notin {"loaded", "creating", "fat2", "cut fat2"} \/ doing'[q] # "idle" =>
        doing'[q] = doing[q] /\ target'[q] = target[q] /\ copy'[q] = copy[q]
  BY <1>1, <1>2
<1>8. Kept' = Kept
  <2>1. ASSUME NEW g \in Files PROVE Erasing(g)' <=> Erasing(g)
    BY <1>7 DEF Erasing
  <2> QED
    BY <1>1, <2>1 DEF Kept
<1>9. DirsFit'
  <2>1. ASSUME NEW g \in Files
        PROVE  \/ dir'[g] = Kept'[g]
               \/ \E q \in Writers : target'[q] = g /\ doing'[q] \in {"dir", "new dir"}
               \/ dir'[g] = NoEntry /\ \E q \in Writers : target'[q] = g /\ doing'[q] = "cut dir"
    <3>1. \/ dir[g] = Kept[g]
          \/ \E q \in Writers : target[q] = g /\ doing[q] \in {"dir", "new dir"}
          \/ dir[g] = NoEntry /\ \E q \in Writers : target[q] = g /\ doing[q] = "cut dir"
      BY DEF FatParts, DirsFit
    <3> QED
      BY <1>1, <1>7, <1>8, <3>1
  <2>2. ASSUME NEW q \in Writers
        PROVE  /\ doing'[q] = "dir" => dir'[target'[q]] \in {Kept'[target'[q]], FreeCluster}
               /\ doing'[q] = "new dir" => Kept'[target'[q]] \in {dir'[target'[q]], FreeCluster}
    BY <1>1, <1>7, <1>8 DEF FatParts, DirsFit
  <2>3. \A g \in Files : dirdisk'[g] \in {Kept'[g], NoEntry}
    BY <1>1, <1>8 DEF FatParts, DirsFit
  <2> QED
    BY <2>1, <2>2, <2>3 DEF DirsFit
<1>10. DeviceFits'
  <2>1. OnlyDevice(fat1') /\ \A q \in Writers : OnlyDevice(copy'[q])
    BY <1>1, <1>2, <1>3 DEF FatParts, DeviceFits
  <2>2. \A g \in Files : dir'[g] <= LastCluster /\ dirdisk'[g] <= LastCluster
    BY <1>1 DEF FatParts, DeviceFits
  <2> QED
    BY <2>1, <2>2 DEF DeviceFits, OnlyDevice
<1>11. \A g \in Files : InFlight(g)' <=> InFlight(g)
  BY <1>7 DEF InFlight
<1>12. KeptSound'
  BY <1>1, <1>8, <1>11 DEF FatParts, KeptSound
<1>13. ASSUME NEW q \in Writers \ behind' PROVE CopyFits(q)'
  <2>1. CASE q = p
    BY <1>2, <2>1 DEF CopyFits, Changes, Cuts
  <2>2. CASE q # p
    <3>1. CopyFits(q)
      BY <1>1, <2>2 DEF FatParts
    <3>2. doing'[q] = doing[q] /\ copy'[q] = copy[q] /\ target'[q] = target[q]
      BY <1>2, <2>2
    <3>3. (Changes(q)' <=> Changes(q)) /\ (Cuts(q)' <=> Cuts(q)) /\ First(q)' = First(q)
      BY <1>1, <3>2 DEF Changes, Cuts, First
    <3>4. \A g \in Files : Spares(q, g)' <=> Spares(q, g)
      BY <1>1, <1>8, <3>2, <3>3 DEF Spares
    <3>5. Retaken(q) => Retaken(q)'
      BY <1>1, <1>7, <3>2 DEF Retaken
    <3> QED
      BY <1>1, <1>8, <1>11, <3>1, <3>2, <3>3, <3>4, <3>5 DEF CopyFits
  <2> QED
    BY <2>1, <2>2
<1>14. ASSUME crashes' = 0, ~Doomed' PROVE LeaksFit'
  <2>1. ~Doomed
    <3> SUFFICES ASSUME NEW q \in behind, doing[q] \notin Early PROVE FALSE
      BY DEF Doomed
    <3>1. q # p
      BY DEF EndsWith, Early, Unslotted
    <3>2. q \in Writers
      BY DEF FatParts, FatTypeOK
    <3> QED
      BY <1>1, <1>2, <1>14, <3>1, <3>2 DEF Doomed
  <2>2. LeaksFit
    BY <1>1, <1>14, <2>1 DEF FatParts
  <2>3. ASSUME NEW c \in Clusters, fat1'[c] # FreeCluster PROVE Claimed(c)'
    <3>1. Claimed(c)
      BY <1>1, <2>2, <2>3 DEF LeaksFit
    <3> QED
      BY <1>1, <1>7, <1>8, <3>1 DEF Claimed, Cuts
  <2>4. ASSUME NEW q \in Writers, Changes(q)'
        PROVE  \A c \in Clusters : copy'[q][c] # FreeCluster =>
                 c \in Chain(copy'[q], First(q)') \/ fat1'[c] # FreeCluster
    <3>1. doing'[q] = doing[q] /\ copy'[q] = copy[q] /\ target'[q] = target[q]
      BY <1>7, <2>4 DEF Changes, Cuts
    <3>2. Changes(q) /\ First(q)' = First(q)
      BY <1>1, <2>4, <3>1 DEF Changes, Cuts, First
    <3>3. \A c \in Clusters : copy[q][c] # FreeCluster =>
            c \in Chain(copy[q], First(q)) \/ fat1[c] # FreeCluster
      BY <2>2, <3>2 DEF LeaksFit
    <3> QED
      BY <1>1, <3>1, <3>2, <3>3
  <2>5. \A g \in Files : \A c \in Chain(fat1, Kept[g]) :
          \/ dir[g] = Kept[g]
          \/ \E q \in Writers : target'[q] = g /\ doing'[q] \in {"dir", "cut dir"}
                                /\ copy'[q][c] = FreeCluster
    <3>1. \A q \in Writers : doing[q] \in {"dir", "cut dir"} =>
            doing'[q] = doing[q] /\ target'[q] = target[q] /\ copy'[q] = copy[q]
      BY <1>7
    <3>2. ASSUME NEW g \in Files, NEW c \in Chain(fat1, Kept[g]), dir[g] # Kept[g]
          PROVE  \E q \in Writers : target'[q] = g /\ doing'[q] \in {"dir", "cut dir"}
                                    /\ copy'[q][c] = FreeCluster
      <4>1. PICK q \in Writers : /\ target[q] = g /\ doing[q] \in {"dir", "cut dir"}
                                 /\ copy[q][c] = FreeCluster
        BY <2>2, <3>2 DEF LeaksFit
      <4> QED
        BY <3>1, <4>1
    <3> QED
      BY <3>2
  <2>6. fat1' = fat2' \/ \E q \in Writers : doing'[q] \in {"fat2", "cut fat2"}
    <3>1. CASE doing[p] \in {"fat2", "cut fat2"}
      <4>1. copy[p] = fat1 /\ fat2' = copy[p]
        BY <1>1, <3>1 DEF EndsWith, FatParts, CopyFits
      <4> QED
        BY <1>1, <4>1
    <3>2. CASE doing[p] \in {"loaded", "creating"}
      <4>1. fat2' = fat2
        BY <1>1, <3>2 DEF EndsWith
      <4>2. \A q \in Writers : doing[q] \in {"fat2", "cut fat2"} => doing'[q] = doing[q]
        BY <1>2, <3>2
      <4> QED
        BY <1>1, <2>2, <4>1, <4>2 DEF LeaksFit
    <3> QED
      BY <1>1, <3>1, <3>2
  <2> QED
    BY <1>1, <1>8, <2>3, <2>4, <2>5, <2>6 DEF LeaksFit
<1> QED
  BY <1>1, <1>4, <1>6, <1>9, <1>10, <1>12, <1>13, <1>14 DEF FatParts

\* The machine stops; entries without their tables are what damage records.
LEMMA CrashStep ==
  ASSUME FatParts, Crash, damage' = {}
  PROVE  FatParts'
<1>1. /\ crashes < MaxCrashes /\ crashes' = crashes + 1 /\ dir' = dirdisk /\ behind' = {}
      /\ doing' = [p \in Writers |-> "idle"] /\ target' = [p \in Writers |-> NoFile]
      /\ copy' = [p \in Writers |-> EmptyTable]
      /\ fat1' = fat1 /\ fat2' = fat2 /\ dirdisk' = dirdisk
      /\ \A f \in Files : InFlight(f) => dirdisk[f] \notin Clusters
  BY DEF Crash, diskVars
<1>2. EmptyTable \in Tables /\ OnlyDevice(EmptyTable)
  BY DEF EmptyTable, Tables, OnlyDevice
<1>3. \A p \in Writers : doing'[p] = "idle" /\ target'[p] = NoFile /\ copy'[p] = EmptyTable
  BY <1>1
<1>4. FatTypeOK'
  <2>1. crashes \in 0 .. MaxCrashes /\ MaxCrashes \in Nat
    BY FatAssumption DEF FatAssumption, FatParts, FatTypeOK
  <2>2. crashes' \in 0 .. MaxCrashes
    BY <1>1, <2>1
  <2> QED
    BY <1>1, <1>2, <2>2 DEF FatParts, FatTypeOK, Steps, Unslotted
<1>5. TargetsFit'
  BY <1>3 DEF TargetsFit, Holds, Unslotted
<1>6. \A f \in Files : Kept'[f] = dirdisk[f]
  BY <1>1, <1>3 DEF Kept, Erasing
<1>7. DirsFit'
  BY <1>1, <1>3, <1>6 DEF DirsFit
<1>8. DeviceFits'
  <2>1. OnlyDevice(fat1') /\ \A q \in Writers : OnlyDevice(copy'[q])
    BY <1>1, <1>2, <1>3 DEF FatParts, DeviceFits
  <2>2. \A g \in Files : dir'[g] <= LastCluster /\ dirdisk'[g] <= LastCluster
    BY <1>1 DEF FatParts, DeviceFits
  <2> QED
    BY <2>1, <2>2 DEF DeviceFits, OnlyDevice
<1>9. KeptSound'
  <2>1. ASSUME NEW f \in Files
        PROVE  \/ Chain(fat1, dirdisk[f]) = {} /\ SoundChain(fat1, dirdisk[f])
               \/ dirdisk[f] = Kept[f] /\ ~InFlight(f)
    <3>1. CASE InFlight(f) \/ dirdisk[f] = NoEntry
      BY <1>1, <3>1, NoChain, ClustersAre
    <3> QED
      BY <3>1 DEF FatParts, DirsFit
  <2>2. \A f \in Files : SoundChain(fat1, dirdisk[f])
    BY <2>1 DEF FatParts, KeptSound
  <2>3. ASSUME NEW f \in Files, NEW g \in Files \ {f}
        PROVE  Chain(fat1, dirdisk[f]) \cap Chain(fat1, dirdisk[g]) = {}
    BY <2>1 DEF FatParts, KeptSound
  <2> QED
    BY <1>1, <1>6, <2>2, <2>3 DEF KeptSound
<1>10. \A p \in Writers : CopyFits(p)'
  BY <1>3 DEF CopyFits, Changes, Cuts
<1>11. crashes' # 0
  <2>1. crashes \in 0 .. MaxCrashes
    BY DEF FatParts, FatTypeOK
  <2> QED
    BY <1>1, <2>1
<1> QED
  BY <1>4, <1>5, <1>7, <1>8, <1>9, <1>10, <1>11 DEF FatParts

\* The directory is written, with whatever the others have changed in it.
LEMMA DirStep ==
  ASSUME FatParts, NEW p \in Writers, WriteDir(p)
  PROVE  FatParts'
<1>1. PICK x : /\ doing' = [doing EXCEPT ![p] = x]
               /\ \/ doing[p] = "dir" /\ x = "fat1"
                  \/ doing[p] = "new dir" /\ x = "new fat1"
                  \/ doing[p] = "cut dir" /\ x = "cut fat1"
  BY DEF WriteDir, UpdateDirs, Does
<1>2. /\ dirdisk' = Directory /\ fat1' = fat1 /\ fat2' = fat2 /\ dir' = dir /\ target' = target
      /\ copy' = copy /\ behind' = behind /\ crashes' = crashes
  BY DEF WriteDir
<1>3. \A q \in Writers : doing'[q] = IF q = p THEN x ELSE doing[q]
  BY <1>1, StepsAre
<1>4. /\ \A q \in Writers : doing'[q] \in {"erased", "cutting"} <=> doing[q] \in {"erased", "cutting"}
      /\ \A q \in Writers : doing'[q] \in Unslotted <=> doing[q] \in Unslotted
      /\ \A q \in Writers : doing'[q] \in Early <=> doing[q] \in Early
      /\ \A q \in Writers : doing'[q] \in {"new dir", "new fat1"} <=> doing[q] \in {"new dir", "new fat1"}
      /\ \A q \in Writers : doing'[q] \in {"dir", "fat1"} <=> doing[q] \in {"dir", "fat1"}
      /\ \A q \in Writers : doing'[q] \in {"dir", "new dir", "cut dir"} => doing[q] = doing'[q]
      /\ \A q \in Writers : doing'[q] \in {"cut dir", "cut fat1", "cut fat2"}
                            <=> doing[q] \in {"cut dir", "cut fat1", "cut fat2"}
  BY <1>1, <1>3 DEF Unslotted, Early
<1>5. \A q \in Writers : \A g \in Files : Holds(q, g)' <=> Holds(q, g)
  BY <1>2, <1>4 DEF Holds
<1>6. \A q \in Writers : (Cuts(q)' <=> Cuts(q)) /\ (Changes(q)' <=> Changes(q)) /\ First(q)' = First(q)
  <2>1. ASSUME NEW q \in Writers PROVE (Cuts(q)' <=> Cuts(q)) /\ (Changes(q)' <=> Changes(q))
    BY <1>1, <1>3 DEF Cuts, Changes
  <2> QED
    BY <1>2, <2>1 DEF First
<1>7. \A g \in Files : Erasing(g)' <=> Erasing(g)
  BY <1>2, <1>4 DEF Erasing
<1>8. \A g \in Files : Kept'[g] = dir[g] /\ dirdisk'[g] \in {dir[g], NoEntry}
  BY <1>2, <1>7 DEF Kept, Directory
<1>9. FatTypeOK'
  <2>1. doing' \in [Writers -> Steps] /\ dirdisk' \in [Files -> Entries]
    BY <1>1, <1>2, StepsAre DEF Steps, Directory, Entries
  <2> QED
    BY <1>2, <2>1 DEF FatParts, FatTypeOK
<1>10. TargetsFit'
  BY <1>2, <1>4, <1>5 DEF FatParts, TargetsFit
<1>11. DirsFit'
  <2>1. \A q \in Writers : doing'[q] \in {"dir", "new dir"} => target[q] \in Files
    BY <1>4, OwnFile DEF Unslotted
  <2> QED
    BY <1>2, <1>8, <2>1 DEF DirsFit
<1>12. DeviceFits'
  <2>1. NoEntry <= LastCluster
    BY ClustersAre DEF NoEntry
  <2> QED
    BY <1>2, <1>8, <2>1 DEF FatParts, DeviceFits, OnlyDevice
<1>13. \A g \in Files : InFlight(g)' <=> InFlight(g)
  BY <1>2, <1>4 DEF InFlight
<1>14. ASSUME NEW g \in Files, ~InFlight(g)
       PROVE  /\ SoundChain(fat1, dir[g])
              /\ Chain(fat1, dir[g]) = Chain(fat1, Kept[g]) \/ Chain(fat1, dir[g]) = {}
  <2>1. dir[g] = Kept[g] \/ dir[g] \in {FreeCluster, NoEntry}
    <3>1. CASE \E q \in Writers : target[q] = g /\ doing[q] \in {"dir", "new dir"}
      <4>1. PICK q \in Writers : target[q] = g /\ doing[q] \in {"dir", "new dir"}
        BY <3>1
      <4>2. doing[q] = "dir"
        BY <1>14, <4>1 DEF InFlight
      <4> QED
        BY <4>1, <4>2 DEF FatParts, DirsFit
    <3>2. CASE ~\E q \in Writers : target[q] = g /\ doing[q] \in {"dir", "new dir"}
      BY <3>2 DEF FatParts, DirsFit
    <3> QED
      BY <3>1, <3>2
  <2>2. CASE dir[g] = Kept[g]
    BY <1>14, <2>2 DEF FatParts, KeptSound
  <2>3. CASE dir[g] \in {FreeCluster, NoEntry}
    BY <2>3, NoChain, ClustersAre
  <2> QED
    BY <2>1, <2>2, <2>3
<1>15. KeptSound'
  <2>1. ASSUME NEW f \in Files, NEW g \in Files \ {f}, ~InFlight(f), ~InFlight(g)
        PROVE  Chain(fat1, dir[f]) \cap Chain(fat1, dir[g]) = {}
    <3>1. Chain(fat1, Kept[f]) \cap Chain(fat1, Kept[g]) = {}
      BY <2>1 DEF FatParts, KeptSound
    <3> QED
      BY <1>14, <2>1, <3>1
  <2> QED
    BY <1>2, <1>8, <1>13, <1>14, <2>1 DEF KeptSound
<1>16. ASSUME NEW q \in Writers \ behind PROVE CopyFits(q)'
  <2>1. CopyFits(q)
    BY DEF FatParts
  <2>2. ASSUME NEW g \in Files, ~InFlight(g), Spares(q, g) PROVE Spares(q, g)'
    <3>1. Chain(fat1, dir[g]) = Chain(fat1, Kept[g]) \/ Chain(fat1, dir[g]) = {}
      BY <1>14, <2>2
    <3>2. /\ \A c \in Chain(fat1, dir[g]) : copy[q][c] = fat1[c]
          /\ Chain(copy[q], First(q)) \cap Chain(fat1, dir[g]) = {}
      BY <2>2, <3>1 DEF Spares
    <3> QED
      BY <1>2, <1>6, <1>8, <3>2 DEF Spares
  <2>3. doing'[q] \in {"loaded", "creating", "cutting", "fat2", "cut fat2"} =>
          doing[q] \in {"loaded", "creating", "cutting", "fat2", "cut fat2"}
    BY <1>1, <1>3
  <2>4. Retaken(q)' <=> Retaken(q)
    BY <1>2, <1>4 DEF Retaken
  <2>5. doing'[q] = "cut fat1" => Kept'[target'[q]] \notin Clusters
    <3> SUFFICES ASSUME doing'[q] = "cut fat1" PROVE Kept'[target[q]] \notin Clusters
      BY <1>2
    <3>1. Cuts(q) /\ target[q] \in Files
      BY <1>1, <1>3, OwnFile DEF Cuts, Unslotted
    <3>2. dir[target[q]] \in {NoEntry, FreeCluster}
      BY <2>1, <3>1 DEF CopyFits, Retaken
    <3> QED
      BY <1>8, <3>1, <3>2, ClustersAre
  <2>6. Changes(q)' => /\ SoundChain(copy'[q], First(q)')
                       /\ Chain(fat1', First(q)') \subseteq Chain(copy'[q], First(q)')
    BY <1>2, <1>6, <2>1 DEF CopyFits
  <2>7. ASSUME Changes(q)', NEW g \in Files \ {target'[q]}, ~InFlight(g)' PROVE Spares(q, g)'
    BY <1>2, <1>6, <1>13, <2>1, <2>2, <2>7 DEF CopyFits
  <2>8. Cuts(q)' => Retaken(q)'
    BY <1>6, <2>1, <2>4 DEF CopyFits
  <2>9. doing'[q] \in {"loaded", "creating", "cutting", "fat2", "cut fat2"} => copy'[q] = fat1'
    BY <1>2, <2>1, <2>3 DEF CopyFits
  <2> QED
    BY <2>5, <2>6, <2>7, <2>8, <2>9 DEF CopyFits
<1>17. ASSUME crashes' = 0, ~Doomed' PROVE LeaksFit'
  <2>1. LeaksFit
    <3>1. ~Doomed
      BY <1>2, <1>4, <1>17 DEF Doomed, FatParts, FatTypeOK
    <3> QED
      BY <1>2, <1>17, <3>1 DEF FatParts
  <2>2. ASSUME NEW c \in Clusters, fat1'[c] # FreeCluster PROVE Claimed(c)'
    <3>1. CASE \E q \in Writers : (Cuts(q) \/ doing[q] \in {"dir", "fat1"}) /\ copy[q][c] = FreeCluster
      BY <1>2, <1>4, <1>6, <3>1 DEF Claimed
    <3>2. CASE \E f \in Files : c \in Chain(fat1, Kept[f])
      <4>1. PICK f \in Files : c \in Chain(fat1, Kept[f])
        BY <3>2
      <4>2. CASE dir[f] = Kept[f]
        BY <1>2, <1>8, <4>1, <4>2 DEF Claimed
      <4>3. CASE dir[f] # Kept[f]
        <5>1. \/ dir[f] = Kept[f]
              \/ \E q \in Writers : target[q] = f /\ doing[q] \in {"dir", "cut dir"}
                                   /\ copy[q][c] = FreeCluster
          BY <2>1, <4>1 DEF LeaksFit
        <5>2. PICK q \in Writers : target[q] = f /\ doing[q] \in {"dir", "cut dir"}
                                  /\ copy[q][c] = FreeCluster
          BY <4>3, <5>1
        <5> QED
          BY <3>1, <5>2 DEF Cuts
      <4> QED
        BY <4>2, <4>3
    <3>3. Claimed(c)
      BY <1>2, <2>1, <2>2 DEF LeaksFit
    <3> QED
      BY <3>1, <3>2, <3>3 DEF Claimed
  <2>3. ASSUME NEW q \in Writers, Changes(q)'
        PROVE  \A c \in Clusters : copy'[q][c] # FreeCluster =>
                 c \in Chain(copy'[q], First(q)') \/ fat1'[c] # FreeCluster
    BY <1>2, <1>6, <2>1, <2>3 DEF LeaksFit
  <2>4. fat1' = fat2' \/ \E q \in Writers : doing'[q] \in {"fat2", "cut fat2"}
    <3>1. \A q \in Writers : doing[q] \in {"fat2", "cut fat2"} => doing'[q] = doing[q]
      BY <1>1, <1>3
    <3> QED
      BY <1>2, <2>1, <3>1 DEF LeaksFit
  <2> QED
    BY <1>2, <1>8, <2>2, <2>3, <2>4 DEF LeaksFit
<1> QED
  BY <1>2, <1>9, <1>10, <1>11, <1>12, <1>15, <1>16, <1>17 DEF FatParts

\* The first table is written by a process whose copy of it was up to date.
LEMMA TableStep ==
  ASSUME FatParts, NEW p \in Writers, WriteFat1(p), damage' = {}
  PROVE  FatParts'
<1>1. PICK f, x : /\ f = target[p] /\ doing' = [doing EXCEPT ![p] = x]
                  /\ \/ doing[p] \in {"fat1", "new fat1"} /\ x = "fat2"
                     \/ doing[p] = "cut fat1" /\ x = "cut fat2"
  BY DEF WriteFat1, UpdateFat1, Does
<1>2. /\ fat1' = copy[p] /\ p \notin behind
      /\ behind' = {q \in Writers : doing[q] \notin {"idle", "erased"}} \ {p}
      /\ fat2' = fat2 /\ dirdisk' = dirdisk /\ dir' = dir /\ target' = target
      /\ copy' = copy /\ crashes' = crashes
  BY DEF WriteFat1
<1>3. \A q \in Writers : doing'[q] = IF q = p THEN x ELSE doing[q]
  BY <1>1, StepsAre
<1>4. /\ \A q \in Writers : doing'[q] \in {"erased", "cutting"} <=> doing[q] \in {"erased", "cutting"}
      /\ \A q \in Writers : doing'[q] \in Unslotted <=> doing[q] \in Unslotted
      /\ \A q \in Writers : doing'[q] \in {"dir", "new dir", "cut dir"}
                            \/ doing[q] \in {"dir", "new dir", "cut dir"} => doing[q] = doing'[q]
      /\ \A q \in Writers : doing'[q] \in {"cut dir", "cut fat1", "cut fat2"}
                            <=> doing[q] \in {"cut dir", "cut fat1", "cut fat2"}
  BY <1>1, <1>3 DEF Unslotted
<1>5. f \in Files /\ \A q \in Writers \ {p} : doing[q] \in {"new dir", "new fat1"} /\ ~Cuts(p) => target[q] # f
  <2>1. f \in Files
    BY <1>1, OwnFile DEF Unslotted
  <2>2. ~Cuts(p) => \A q \in Writers \ {p} : ~Holds(q, f)
    BY <1>1, OwnFile DEF Unslotted, Cuts
  <2> QED
    BY <2>1, <2>2 DEF Holds, Unslotted
<1>6. Kept' = Kept
  <2>1. ASSUME NEW g \in Files PROVE Erasing(g)' <=> Erasing(g)
    BY <1>2, <1>4 DEF Erasing
  <2> QED
    BY <1>2, <2>1 DEF Kept
<1>7. /\ SoundChain(copy[p], First(p)) /\ Chain(fat1, First(p)) \subseteq Chain(copy[p], First(p))
      /\ \A g \in Files \ {f} : ~InFlight(g) => Spares(p, g)
      /\ Cuts(p) => Kept[f] \notin Clusters
  BY <1>1, <1>2 DEF FatParts, CopyFits, Changes, Cuts
<1>8. ~Cuts(p) => First(p) = Kept[f]
  <2> SUFFICES ASSUME ~Cuts(p) PROVE dir[f] = Kept[f]
    BY <1>1 DEF First
  <2>1. doing[p] \in {"fat1", "new fat1"}
    BY <1>1 DEF Cuts
  <2>2. dir[f] # NoEntry /\ Holds(p, f) /\ \A q \in Writers \ {p} : ~Holds(q, f)
    BY <1>1, <2>1, OwnFile DEF Unslotted
  <2>3. ~\E q \in Writers : target[q] = f /\ doing[q] \in {"dir", "new dir"}
    BY <2>1, <2>2 DEF Holds, Unslotted
  <2> QED
    BY <1>5, <2>2, <2>3 DEF FatParts, DirsFit
<1>9. SoundChain(copy[p], Kept[f]) /\ Chain(copy[p], Kept[f]) \subseteq Chain(copy[p], First(p))
      /\ Chain(fat1, Kept[f]) \subseteq Chain(copy[p], Kept[f])
  <2>1. CASE Cuts(p)
    BY <1>7, <2>1, NoChain
  <2>2. CASE ~Cuts(p)
    BY <1>7, <1>8, <2>2
  <2> QED
    BY <2>1, <2>2
<1>10. FatTypeOK'
  <2>1. doing' \in [Writers -> Steps] /\ fat1' \in Tables /\ behind' \subseteq Writers
    BY <1>1, <1>2, StepsAre DEF Steps
  <2> QED
    BY <1>2, <2>1 DEF FatParts, FatTypeOK
<1>11. TargetsFit'
  <2>1. \A q \in Writers : \A g \in Files : Holds(q, g)' <=> Holds(q, g)
    BY <1>2, <1>4 DEF Holds
  <2> QED
    BY <1>2, <1>4, <2>1 DEF FatParts, TargetsFit
<1>12. DirsFit'
  <2>1. DirsFit
    BY DEF FatParts
  <2>2. \A q \in Writers : \A y \in {"dir", "new dir", "cut dir"} :
          doing'[q] = y <=> doing[q] = y
    BY <1>4
  <2>3. ASSUME NEW g \in Files
        PROVE  \/ dir[g] = Kept[g]
               \/ \E q \in Writers : target[q] = g /\ doing'[q] \in {"dir", "new dir"}
               \/ dir[g] = NoEntry /\ \E q \in Writers : target[q] = g /\ doing'[q] = "cut dir"
    <3>1. \/ dir[g] = Kept[g]
          \/ \E q \in Writers : target[q] = g /\ doing[q] \in {"dir", "new dir"}
          \/ dir[g] = NoEntry /\ \E q \in Writers : target[q] = g /\ doing[q] = "cut dir"
      BY <2>1 DEF DirsFit
    <3> QED
      BY <2>2, <3>1
  <2>4. ASSUME NEW q \in Writers
        PROVE  /\ doing'[q] = "dir" => dir[target[q]] \in {Kept[target[q]], FreeCluster}
               /\ doing'[q] = "new dir" => Kept[target[q]] \in {dir[target[q]], FreeCluster}
    BY <2>1, <2>2 DEF DirsFit
  <2>5. \A g \in Files : dirdisk[g] \in {Kept[g], NoEntry}
    BY <2>1 DEF DirsFit
  <2> QED
    BY <1>2, <1>6, <2>3, <2>4, <2>5 DEF DirsFit
<1>13. DeviceFits'
  BY <1>2 DEF FatParts, DeviceFits, OnlyDevice
<1>14. \A g \in Files \ {f} : InFlight(g)' <=> InFlight(g)
  <2>1. \A q \in Writers : q # p => doing'[q] = doing[q]
    BY <1>3
  <2> QED
    BY <1>1, <1>2, <2>1 DEF InFlight
<1>15. ASSUME NEW g \in Files \ {f}, ~InFlight(g)
       PROVE  /\ Chain(copy[p], Kept[g]) = Chain(fat1, Kept[g])
              /\ SoundChain(copy[p], Kept[g])
              /\ Chain(copy[p], Kept[f]) \cap Chain(copy[p], Kept[g]) = {}
  <2>1. /\ \A c \in Chain(fat1, Kept[g]) : copy[p][c] = fat1[c]
        /\ Chain(copy[p], First(p)) \cap Chain(fat1, Kept[g]) = {}
    BY <1>7, <1>15 DEF Spares
  <2>2. /\ Chain(copy[p], Kept[g]) = Chain(fat1, Kept[g])
        /\ SoundChain(fat1, Kept[g]) => SoundChain(copy[p], Kept[g])
    BY <2>1, SameChain
  <2>3. SoundChain(fat1, Kept[g])
    BY <1>15 DEF FatParts, KeptSound
  <2> QED
    BY <1>9, <2>1, <2>2, <2>3
<1>16. KeptSound'
  <2>1. ASSUME NEW g \in Files, ~InFlight(g)' PROVE SoundChain(copy[p], Kept[g])
    BY <1>9, <1>14, <1>15, <2>1
  <2>2. ASSUME NEW g \in Files, NEW h \in Files \ {g}, ~InFlight(g)', ~InFlight(h)'
        PROVE  Chain(copy[p], Kept[g]) \cap Chain(copy[p], Kept[h]) = {}
    <3>1. CASE g = f
      BY <1>14, <1>15, <2>2, <3>1
    <3>2. CASE h = f
      BY <1>14, <1>15, <2>2, <3>2
    <3>3. CASE g # f /\ h # f
      <4>1. ~InFlight(g) /\ ~InFlight(h)
        BY <1>14, <2>2, <3>3
      <4>2. Chain(fat1, Kept[g]) \cap Chain(fat1, Kept[h]) = {}
        BY <2>2, <4>1 DEF FatParts, KeptSound
      <4> QED
        BY <1>15, <3>3, <4>1, <4>2
    <3> QED
      BY <3>1, <3>2, <3>3
  <2> QED
    BY <1>2, <1>6, <2>1, <2>2 DEF KeptSound
<1>17. ASSUME NEW q \in Writers \ behind' PROVE CopyFits(q)'
  <2>1. CASE q = p
    <3>1. doing'[q] \in {"fat2", "cut fat2"} /\ copy'[q] = fat1'
      BY <1>1, <1>2, <1>3, <2>1
    <3> QED
      BY <3>1 DEF CopyFits, Changes, Cuts
  <2>2. CASE q # p
    <3>1. doing'[q] \in {"idle", "erased"}
      BY <1>2, <1>3, <1>17, <2>2
    <3> QED
      BY <3>1 DEF CopyFits, Changes, Cuts
  <2> QED
    BY <2>1, <2>2
<1>18. ASSUME crashes' = 0, ~Doomed' PROVE LeaksFit'
  <2>1. \A q \in Writers \ {p} : doing[q] \in Early
    <3> SUFFICES ASSUME NEW q \in Writers \ {p}, doing[q] \notin Early PROVE FALSE
      OBVIOUS
    <3>1. q \in behind' /\ doing'[q] \notin Early
      BY <1>2, <1>3 DEF Early, Unslotted
    <3> QED
      BY <1>18, <3>1 DEF Doomed
  <2>2. ~Doomed
    BY <1>2, <2>1 DEF Doomed, FatParts, FatTypeOK
  <2>3. LeaksFit
    BY <1>2, <1>18, <2>2 DEF FatParts
  <2>4. ASSUME NEW c \in Clusters, copy[p][c] # FreeCluster
        PROVE  \E g \in Files : c \in Chain(copy[p], Kept[g])
    <3>1. CASE c \in Chain(copy[p], Kept[f])
      BY <1>5, <3>1
    <3>2. CASE c \notin Chain(copy[p], Kept[f])
      <4>1. c \notin Chain(copy[p], First(p))
        <5>1. CASE Cuts(p)
          BY <5>1, NoChain, ClustersAre DEF First
        <5>2. CASE ~Cuts(p)
          BY <1>8, <3>2, <5>2
        <5> QED
          BY <5>1, <5>2
      <4>2. fat1[c] # FreeCluster
        BY <1>1, <2>3, <2>4, <4>1 DEF LeaksFit, Changes, Cuts
      <4>3. Claimed(c)
        BY <2>3, <4>2 DEF LeaksFit
      <4>4. ~\E q \in Writers : (Cuts(q) \/ doing[q] \in {"dir", "fat1"}) /\ copy[q][c] = FreeCluster
        <5> SUFFICES ASSUME NEW q \in Writers, Cuts(q) \/ doing[q] \in {"dir", "fat1"}, copy[q][c] = FreeCluster
                     PROVE  FALSE
          OBVIOUS
        <5>1. doing[q] \notin Early
          BY DEF Cuts, Early, Unslotted
        <5> QED
          BY <2>1, <2>4, <5>1
      <4>5. PICK g \in Files : c \in Chain(fat1, Kept[g])
        BY <4>3, <4>4 DEF Claimed
      <4>6. g # f
        BY <1>9, <3>2, <4>5
      <4>7. ~InFlight(g)
        BY <1>1, <2>1, <4>6 DEF InFlight, Early, Unslotted
      <4> QED
        BY <1>15, <4>5, <4>6, <4>7
    <3> QED
      BY <3>1, <3>2
  <2>5. \A c \in Clusters : fat1'[c] # FreeCluster => Claimed(c)'
    BY <1>2, <1>6, <2>4 DEF Claimed
  <2>6. \A q \in Writers : ~Changes(q)' /\ doing'[q] \notin {"dir", "new dir", "cut dir"}
    BY <1>1, <1>3, <2>1 DEF Changes, Cuts, Early, Unslotted
  <2>7. \A g \in Files : dir'[g] = Kept'[g]
    BY <1>12, <2>6 DEF DirsFit
  <2>8. doing'[p] \in {"fat2", "cut fat2"}
    BY <1>1, <1>3
  <2> QED
    BY <2>5, <2>6, <2>7, <2>8 DEF LeaksFit
<1> QED
  BY <1>10, <1>11, <1>12, <1>13, <1>16, <1>17, <1>18 DEF FatParts

\* A new file has an entry without clusters.
LEMMA CreateEntryStep ==
  ASSUME FatParts, NEW p \in Writers, NEW f \in Files, CreateEntry(p, f), damage' = {}
  PROVE  FatParts'
<1>1. PICK u : u = copy[p]
  OBVIOUS
<1>2. doing[p] = "creating" /\ dir[f] = NoEntry /\ ~Erasing(f)
  BY DEF CreateEntry, Does, Directory
<1>3. ChangesTo(p, f, "dir", u, FreeCluster)
  <2>1. copy' = [copy EXCEPT ![p] = u]
    BY <1>1, StepsAre DEF CreateEntry
  <2> QED
    BY <1>2, <2>1 DEF CreateEntry, Does, ChangesTo
<1>4. u \in Tables /\ OnlyDevice(u)
  BY <1>1 DEF FatParts, FatTypeOK, DeviceFits
<1>5. FreeCluster <= LastCluster /\ FreeCluster # NoEntry
  BY ClustersAre DEF FreeCluster, NoEntry
<1>6. GoodType(p, f, "dir", u, FreeCluster)
  BY <1>2, <1>4, <1>5 DEF GoodType, Entries
<1>7. ASSUME p \notin behind PROVE GoodChain(f, u, FreeCluster) /\ GoodLeft(f, "dir", u, FreeCluster)
  <2>1. u = fat1
    BY <1>1, <1>2, <1>7 DEF FatParts, CopyFits
  <2>2. Chain(u, FreeCluster) = {} /\ SoundChain(u, FreeCluster) /\ Chain(fat1, NoEntry) = {}
    BY NoChain, ClustersAre
  <2> QED
    BY <1>2, <2>1, <2>2 DEF GoodChain, GoodLeft
<1> QED
  BY <1>3, <1>6, <1>7, ChangeStep

\* What a process finds of its file when it has loaded the table.
LEMMA LoadedFile ==
  ASSUME FatParts, NEW p \in Writers, doing[p] \in {"loaded", "cutting"}
  PROVE  /\ target[p] \in Files /\ dir[target[p]] # NoEntry
         /\ Kept[target[p]] = dir[target[p]] /\ ~InFlight(target[p])
<1>1. /\ target[p] \in Files /\ dir[target[p]] # NoEntry
      /\ \A q \in Writers \ {p} : ~Holds(q, target[p])
  BY OwnFile DEF Unslotted
<1> QED
  BY <1>1, AtRest

\* The clusters of a file are given back, by fat_rewritefile and by fat_deletefile.
LEMMA GiveBackStep ==
  ASSUME FatParts, NEW p \in Writers, Rewrite(p) \/ GiveBack(p)
  PROVE  FatParts'
<1>1. PICK f, first, u : f = target[p] /\ first = dir[f] /\ u = Cut(copy[p], first)
  OBVIOUS
<1>2. PICK x, left : /\ ChangesTo(p, f, x, u, left)
                     /\ \/ doing[p] = "loaded" /\ x = "dir" /\ left = FreeCluster
                        \/ doing[p] = "cutting" /\ x = "cut dir" /\ left = NoEntry
  <2>1. target' = [target EXCEPT ![p] = f]
    BY <1>1, StepsAre DEF Rewrite, GiveBack
  <2>2. CASE Rewrite(p)
    BY <1>1, <2>1, <2>2 DEF Rewrite, Does, ChangesTo
  <2>3. CASE GiveBack(p)
    BY <1>1, <2>1, <2>3 DEF GiveBack, Does, ChangesTo
  <2> QED
    BY <2>2, <2>3
<1>3. f \in Files /\ first # NoEntry /\ Kept[f] = first /\ ~InFlight(f)
  BY <1>1, <1>2, LoadedFile
<1>4. copy[p] \in Tables /\ OnlyDevice(copy[p])
  BY DEF FatParts, FatTypeOK, DeviceFits
<1>5. u \in Tables /\ OnlyDevice(u)
  BY <1>1, <1>4, CutIs, DeviceKept
<1>6. left <= LastCluster /\ left \notin Clusters /\ FreeCluster # NoEntry
  <2>1. left = FreeCluster \/ left = NoEntry
    BY <1>2
  <2>2. LastCluster \in 2 .. LastEntry /\ LastEntry \in Nat
    BY ClustersAre
  <2>3. FreeCluster <= LastCluster /\ NoEntry <= LastCluster /\ FreeCluster # NoEntry
    BY <2>2 DEF FreeCluster, NoEntry
  <2>4. FreeCluster \notin Clusters /\ NoEntry \notin Clusters
    BY ClustersAre
  <2> QED
    BY <2>1, <2>3, <2>4
<1>7. GoodType(p, f, x, u, left)
  BY <1>2, <1>5, <1>6 DEF GoodType, Entries
<1>8. ASSUME p \notin behind PROVE GoodChain(f, u, left) /\ GoodLeft(f, x, u, left)
  <2>1. copy[p] = fat1
    BY <1>2, <1>8 DEF FatParts, CopyFits
  <2>2. \A c \in Clusters : u[c] = IF c \in Chain(fat1, first) THEN FreeCluster ELSE fat1[c]
    BY <1>1, <1>4, <2>1, CutIs
  <2>3. Chain(u, left) = {} /\ SoundChain(u, left) /\ Chain(fat1, left) = {}
    BY <1>6, NoChain
  <2>4. ASSUME NEW g \in Files \ {f}, ~InFlight(g), NEW c \in Chain(fat1, Kept[g])
        PROVE  u[c] = fat1[c]
    <3>1. Chain(fat1, Kept[f]) \cap Chain(fat1, Kept[g]) = {}
      BY <1>3, <2>4 DEF FatParts, KeptSound
    <3>2. c \in Clusters
      BY <2>4, ChainIs
    <3> QED
      BY <1>3, <2>2, <2>4, <3>1, <3>2
  <2>5. GoodChain(f, u, left)
    BY <2>3, <2>4 DEF GoodChain
  <2>6. \A c \in Chain(fat1, first) : u[c] = FreeCluster
    BY <2>2, ChainIs
  <2>7. GoodLeft(f, x, u, left)
    BY <1>1, <2>2, <2>6 DEF GoodLeft
  <2> QED
    BY <2>5, <2>7
<1> QED
  BY <1>2, <1>3, <1>7, <1>8, ChangeStep

\* A file gets clusters.
LEMMA AddSectorsStep ==
  ASSUME FatParts, NEW p \in Writers, NEW n \in 1 .. MaxSectors, AddSectors(p, n), damage' = {}
  PROVE  FatParts'
<1>1. PICK f, first, t, new, u : /\ f = target[p] /\ first = dir[f] /\ t = copy[p]
                                 /\ new = Lowest(t, n) /\ u = Linked(t, first, new)
  OBVIOUS
<1>2. PICK x, d : /\ x = IF first = FreeCluster THEN "new dir" ELSE "dir"
                  /\ d = IF first = FreeCluster THEN Least(new) ELSE first
  OBVIOUS
<1>3. /\ doing[p] = "loaded" /\ n <= Cardinality(FreeOf(t))
      /\ ~\E c \in new : c > LastCluster
  BY <1>1 DEF AddSectors, Does
<1>4. f \in Files /\ first # NoEntry
  BY <1>1, <1>3, LoadedFile
<1>5. Kept[f] = first /\ ~InFlight(f)
  BY <1>1, <1>3, LoadedFile
<1>6. ChangesTo(p, f, x, u, d)
  <2>1. dir' = [dir EXCEPT ![f] = d]
    <3>1. CASE first = FreeCluster
      BY <1>1, <1>2, <3>1 DEF AddSectors
    <3>2. CASE first # FreeCluster
      BY <1>1, <1>2, <1>4, <3>2 DEF AddSectors, FatParts, FatTypeOK
    <3> QED
      BY <3>1, <3>2
  <2>2. target' = [target EXCEPT ![p] = f]
    BY <1>1, StepsAre DEF AddSectors
  <2> QED
    BY <1>1, <1>2, <1>3, <2>1, <2>2 DEF AddSectors, Does, ChangesTo
<1>7. t \in Tables /\ OnlyDevice(t) /\ first \in Entries /\ first <= LastCluster
  BY <1>1, <1>4 DEF FatParts, FatTypeOK, DeviceFits
<1>8. new \in SUBSET FreeOf(t) /\ new \in SUBSET Clusters /\ new # {}
  <2>1. Lowest(t, n) \subseteq FreeOf(t) /\ FreeOf(t) \subseteq Clusters /\ Lowest(t, n) # {}
    BY <1>3, <1>7, LowestIs
  <2> QED
    BY <1>1, <2>1
<1>9. \A c \in new : c <= LastCluster
  <2>1. \A c \in new : c \in 0 .. LastEntry
    BY <1>8, ClustersAre
  <2>2. LastCluster \in Int
    BY ClustersAre
  <2> QED
    BY <1>3, <2>1, <2>2
<1>10. u \in Tables /\ OnlyDevice(u) /\ Least(new) <= LastCluster /\ Least(new) \in new
  <2>1. u \in Tables
    BY <1>1, <1>7, <1>8, LinkedIs
  <2>2. OnlyDevice(u) /\ Least(new) <= LastCluster
    BY <1>1, <1>7, <1>8, <1>9, DeviceKept
  <2> QED
    BY <1>8, <2>1, <2>2, LeastIs
<1>11. GoodType(p, f, x, u, d)
  <2>1. Least(new) \in Entries /\ Least(new) # NoEntry
    BY <1>8, <1>10, ClustersAre DEF Entries
  <2>2. CASE first = FreeCluster
    BY <1>1, <1>2, <1>3, <1>10, <2>1, <2>2 DEF GoodType
  <2>3. CASE first # FreeCluster
    BY <1>1, <1>2, <1>3, <1>4, <1>7, <1>10, <2>3 DEF GoodType
  <2> QED
    BY <2>2, <2>3
<1>12. ASSUME p \notin behind PROVE GoodChain(f, u, d) /\ GoodLeft(f, x, u, d)
  <2>1. t = fat1
    BY <1>1, <1>3, <1>12 DEF FatParts, CopyFits
  <2>2. \A c \in new : fat1[c] = FreeCluster
    BY <1>8, <2>1 DEF FreeOf
  <2>3. SoundChain(fat1, first)
    BY <1>4, <1>5 DEF FatParts, KeptSound
  <2>4. /\ SoundChain(u, d) /\ Chain(u, d) = Chain(fat1, first) \cup new
        /\ Chain(fat1, d) \subseteq Chain(u, d)
        /\ \A c \in Clusters \ new : c \notin Chain(fat1, first) => u[c] = fat1[c]
    <3>1. CASE first = FreeCluster
      <4>1. d = Least(new) /\ Chain(fat1, first) = {}
        BY <1>2, <3>1, NoChain, ClustersAre
      <4>2. SoundChain(u, d) /\ Chain(u, d) = new
        BY <1>1, <1>2, <1>7, <1>8, <3>1, LinkedNew
      <4>3. Chain(fat1, d) \subseteq new
        <5>1. d \in new
          BY <1>10, <4>1
        <5>2. \A c \in new \cap Clusters : fat1[c] \in Clusters => fat1[c] \in new
          BY <2>2, ClustersAre
        <5> QED
          BY <5>1, <5>2, ChainLeast
      <4>4. \A c \in Clusters \ new : u[c] = fat1[c]
        BY <1>1, <1>7, <1>8, <2>1, <3>1, LinkedIs
      <4> QED
        BY <4>1, <4>2, <4>3, <4>4
    <3>2. CASE first # FreeCluster
      <4>1. first \in Clusters /\ d = first
        BY <1>2, <1>4, <1>7, <3>2 DEF Entries
      <4>2. SoundChain(u, first) /\ Chain(u, first) = Chain(fat1, first) \cup new
        BY <1>1, <1>7, <1>8, <2>1, <2>3, <4>1, LinkedSound
      <4>3. LastOf(fat1, first) \in Chain(fat1, first)
        BY <1>7, <2>1, <2>3, <4>1, LastOfIs
      <4>4. \A c \in Clusters \ new :
              u[c] = IF first # FreeCluster /\ c = LastOf(fat1, first) THEN Least(new) ELSE fat1[c]
        BY <1>1, <1>7, <1>8, <2>1, LinkedIs
      <4> QED
        BY <4>1, <4>2, <4>3, <4>4
    <3> QED
      BY <3>1, <3>2
  <2>5. ASSUME NEW g \in Files \ {f}, ~InFlight(g)
        PROVE  /\ \A c \in Chain(fat1, Kept[g]) : u[c] = fat1[c]
               /\ Chain(u, d) \cap Chain(fat1, Kept[g]) = {}
    <3>1. Chain(fat1, first) \cap Chain(fat1, Kept[g]) = {} /\ SoundChain(fat1, Kept[g])
      BY <1>4, <1>5, <2>5 DEF FatParts, KeptSound
    <3>2. \A c \in Chain(fat1, Kept[g]) : c \in Clusters /\ fat1[c] # FreeCluster
      BY <1>7, <2>1, <3>1, ChainMarked
    <3> QED
      BY <2>2, <2>4, <3>1, <3>2
  <2>6. GoodChain(f, u, d)
    BY <1>1, <2>4, <2>5 DEF GoodChain
  <2>7. GoodLeft(f, x, u, d)
    <3>1. \A c \in Clusters : u[c] # FreeCluster => c \in Chain(u, d) \/ fat1[c] # FreeCluster
      BY <2>4
    <3>2. x # "new dir" => d = dir[f]
      BY <1>1, <1>2
    <3> QED
      BY <3>1, <3>2 DEF GoodLeft
  <2> QED
    BY <2>6, <2>7
<1> QED
  BY <1>4, <1>6, <1>11, <1>12, ChangeStep

\* The invariant holds at first, and every step of a process and every crash keeps it.
LEMMA FatInvHolds == FatSpec => []FatInv
<1>1. FatInit => FatInv
  <2> SUFFICES ASSUME FatInit PROVE FatParts
    BY DEF FatInv
  <2>1. /\ fat1 = EmptyTable /\ fat2 = EmptyTable /\ crashes = 0 /\ behind = {}
        /\ \A f \in Files : dirdisk[f] = NoEntry /\ dir[f] = NoEntry
        /\ \A p \in Writers : doing[p] = "idle" /\ target[p] = NoFile /\ copy[p] = EmptyTable
    BY DEF FatInit
  <2>2. EmptyTable \in Tables /\ OnlyDevice(EmptyTable)
    BY DEF EmptyTable, Tables, OnlyDevice
  <2>3. FatTypeOK
    <3>1. crashes \in 0 .. MaxCrashes
      BY <2>1, FatAssumption DEF FatAssumption
    <3> QED
      BY <2>2, <3>1 DEF FatInit, FatTypeOK, Entries, Steps, Unslotted
  <2>4. TargetsFit
    BY <2>1 DEF TargetsFit, Holds, Unslotted
  <2>10. \A f \in Files : Kept[f] = NoEntry
    BY <2>1 DEF Kept, Erasing
  <2>5. DirsFit
    BY <2>1, <2>10 DEF DirsFit
  <2>6. DeviceFits
    <3>1. NoEntry <= LastCluster
      BY ClustersAre DEF NoEntry
    <3> QED
      BY <2>1, <2>2, <3>1 DEF DeviceFits
  <2>7. KeptSound
    <3>1. Chain(fat1, NoEntry) = {} /\ SoundChain(fat1, NoEntry)
      BY NoChain, ClustersAre
    <3> QED
      BY <2>1, <2>10, <3>1 DEF KeptSound
  <2>8. \A p \in Writers : CopyFits(p)
    BY <2>1 DEF CopyFits, Changes, Cuts
  <2>9. LeaksFit
    <3>1. \A c \in Clusters : fat1[c] = FreeCluster
      BY <2>1 DEF EmptyTable
    <3> QED
      BY <2>1, <2>10, <3>1 DEF LeaksFit, Changes, Cuts
  <2> QED
    BY <2>3, <2>4, <2>5, <2>6, <2>7, <2>8, <2>9 DEF FatParts
<1>2. FatInv /\ [FatNext]_fatVars => FatInv'
  <2> SUFFICES ASSUME FatInv, [FatNext]_fatVars, damage' = {} PROVE FatParts'
    BY DEF FatInv
  <2>1. ASSUME UNCHANGED fatVars PROVE FatParts'
    <3>1. damage = {}
      BY <2>1 DEF fatVars
    <3>2. FatParts
      BY <3>1 DEF FatInv
    <3>3. /\ fat1' = fat1 /\ fat2' = fat2 /\ dirdisk' = dirdisk /\ dir' = dir /\ doing' = doing
          /\ target' = target /\ copy' = copy /\ behind' = behind /\ crashes' = crashes
      BY <2>1 DEF fatVars, diskVars
    <3>4. FatTypeOK' /\ TargetsFit'
      BY <3>2, <3>3 DEF FatParts, FatTypeOK, TargetsFit, Holds
    <3>11. Kept' = Kept
      BY <3>3 DEF Kept, Erasing
    <3>12. DirsFit'
      BY <3>2, <3>3, <3>11 DEF FatParts, DirsFit
    <3>5. DeviceFits'
      BY <3>2, <3>3 DEF FatParts, DeviceFits, OnlyDevice
    <3>6. \A f \in Files : InFlight(f)' <=> InFlight(f)
      BY <3>3 DEF InFlight
    <3>7. KeptSound'
      BY <3>2, <3>3, <3>6, <3>11 DEF FatParts, KeptSound
    <3>8. ASSUME NEW p \in Writers \ behind PROVE CopyFits(p)'
      <4>1. CopyFits(p)
        BY <3>2 DEF FatParts
      <4>2. /\ (Changes(p)' <=> Changes(p)) /\ (Cuts(p)' <=> Cuts(p)) /\ First(p)' = First(p)
            /\ Retaken(p)' <=> Retaken(p)
        BY <3>3 DEF Changes, Cuts, First, Retaken
      <4>3. \A g \in Files : Spares(p, g)' <=> Spares(p, g)
        BY <3>3, <3>11, <4>2 DEF Spares
      <4> QED
        BY <3>3, <3>6, <3>11, <4>1, <4>2, <4>3 DEF CopyFits
    <3>9. Doomed' <=> Doomed
      BY <3>3 DEF Doomed
    <3>10. LeaksFit => LeaksFit'
      <4>1. \A c \in Clusters : Claimed(c)' <=> Claimed(c)
        BY <3>3, <3>11 DEF Claimed, Cuts
      <4>2. \A p \in Writers : (Changes(p)' <=> Changes(p)) /\ First(p)' = First(p)
        BY <3>3 DEF Changes, Cuts, First
      <4> SUFFICES ASSUME LeaksFit PROVE LeaksFit'
        OBVIOUS
      <4>3. \A c \in Clusters : fat1'[c] # FreeCluster => Claimed(c)'
        BY <3>3, <4>1 DEF LeaksFit
      <4>4. ASSUME NEW p \in Writers, Changes(p)', NEW c \in Clusters, copy'[p][c] # FreeCluster
            PROVE  c \in Chain(copy[p], First(p)) \/ fat1[c] # FreeCluster
        BY <3>3, <4>2, <4>4 DEF LeaksFit
      <4>5. ASSUME NEW f \in Files, NEW c \in Chain(fat1, Kept[f])
            PROVE  \/ dir[f] = Kept[f]
                   \/ \E p \in Writers : target[p] = f /\ doing[p] \in {"dir", "cut dir"}
                                        /\ copy[p][c] = FreeCluster
        BY <4>5 DEF LeaksFit
      <4>6. fat1 = fat2 \/ \E p \in Writers : doing[p] \in {"fat2", "cut fat2"}
        BY DEF LeaksFit
      <4>7. (\A p \in Writers :
               Changes(p) =>
                 \A c \in Clusters : copy[p][c] # FreeCluster =>
                   c \in Chain(copy[p], First(p)) \/ fat1[c] # FreeCluster)'
        BY <3>3, <4>2, <4>4
      <4>8. (\A f \in Files : \A c \in Chain(fat1, Kept[f]) :
               \/ dir[f] = Kept[f]
               \/ \E p \in Writers : target[p] = f /\ doing[p] \in {"dir", "cut dir"}
                                     /\ copy[p][c] = FreeCluster)'
        <5>1. ASSUME NEW f \in Files, NEW c \in Chain(fat1', Kept'[f])
              PROVE  \/ dir'[f] = Kept'[f]
                     \/ \E p \in Writers : target'[p] = f /\ doing'[p] \in {"dir", "cut dir"}
                                           /\ copy'[p][c] = FreeCluster
          <6>1. c \in Chain(fat1, Kept[f])
            BY <3>3, <3>11, <5>1
          <6> QED
            BY <3>3, <3>11, <4>5, <6>1
        <5> QED
          BY <5>1
      <4>9. (fat1 = fat2 \/ \E p \in Writers : doing[p] \in {"fat2", "cut fat2"})'
        BY <3>3, <4>6
      <4> QED
        BY <4>3, <4>7, <4>8, <4>9 DEF LeaksFit
    <3> QED
      BY <3>2, <3>3, <3>4, <3>5, <3>7, <3>8, <3>9, <3>10, <3>12 DEF FatParts
  <2>2. ASSUME FatNext, ~UNCHANGED fatVars PROVE FatParts'
    <3>1. damage = {} /\ ((\E p \in Writers : FatStep(p)) \/ Crash)
      BY <2>2 DEF FatNext, FatStops, FatStep, Load, LoadToCreate, MarkErased, LoadToErase,
         CreateEntry, CreateEntryFails, AddSectors, AddSectorsFails, Rewrite, GiveBack,
         WriteDir, UpdateDirs, WriteFat1, UpdateFat1, WriteFat2, UpdateFat2, Does, Crash
    <3>2. FatParts
      BY <3>1 DEF FatInv
    <3>3. CASE Crash
      BY <3>2, <3>3, CrashStep
    <3>4. ASSUME NEW p \in Writers, FatStep(p) PROVE FatParts'
      <4>1. ASSUME NEW f \in Files, Load(p, f) \/ MarkErased(p, f) PROVE FatParts'
        <5>1. CASE Load(p, f)
          <6>1. Arrives(p, "loaded", f, fat1)
            BY <5>1 DEF Load, Does, Arrives
          <6> QED
            BY <3>2, <6>1, ArriveStep
        <5>2. CASE MarkErased(p, f)
          <6>1. copy' = [copy EXCEPT ![p] = copy[p]]
            BY <3>2, <5>2, StepsAre DEF MarkErased
          <6>2. Arrives(p, "erased", f, copy[p])
            BY <5>2, <6>1 DEF MarkErased, Does, Arrives
          <6> QED
            BY <3>2, <6>2, ArriveStep
        <5> QED
          BY <4>1, <5>1, <5>2
      <4>10. CASE LoadToCreate(p)
        <5>1. target[p] = NoFile
          BY <3>2, <4>10 DEF LoadToCreate, Does, FatParts, TargetsFit, Unslotted
        <5>2. target' = [target EXCEPT ![p] = NoFile]
          BY <3>2, <4>10, <5>1, StepsAre DEF LoadToCreate
        <5>3. Arrives(p, "creating", NoFile, fat1)
          BY <4>10, <5>2 DEF LoadToCreate, Does, Arrives
        <5> QED
          BY <3>2, <5>3, ArriveStep
      <4>11. CASE LoadToErase(p)
        <5>1. target' = [target EXCEPT ![p] = target[p]]
          BY <3>2, <4>11, StepsAre DEF LoadToErase
        <5>2. Arrives(p, "cutting", target[p], fat1)
          BY <4>11, <5>1 DEF LoadToErase, Does, Arrives
        <5> QED
          BY <3>2, <5>2, ArriveStep
      <4>2. ASSUME NEW f \in Files, CreateEntry(p, f) PROVE FatParts'
        BY <2>2, <3>2, <4>2, CreateEntryStep
      <4>3. CASE CreateEntryFails(p)
        <5>1. target[p] = NoFile
          BY <3>2, <4>3 DEF CreateEntryFails, Does, FatParts, TargetsFit, Unslotted
        <5>2. target' = [target EXCEPT ![p] = NoFile]
          BY <3>2, <4>3, <5>1, StepsAre DEF CreateEntryFails
        <5>3. EndsWith(p, fat2)
          BY <4>3, <5>2 DEF CreateEntryFails, Does, EndsWith, diskVars
        <5> QED
          BY <3>2, <5>3, EndStep
      <4>4. ASSUME NEW n \in 1 .. MaxSectors, AddSectors(p, n) PROVE FatParts'
        BY <3>2, <4>4, AddSectorsStep
      <4>5. ASSUME NEW n \in 1 .. MaxSectors, AddSectorsFails(p, n) PROVE FatParts'
        <5>1. EndsWith(p, fat2)
          BY <4>5 DEF AddSectorsFails, Does, EndsWith, diskVars
        <5> QED
          BY <3>2, <5>1, EndStep
      <4>6. CASE Rewrite(p) \/ GiveBack(p)
        BY <3>2, <4>6, GiveBackStep
      <4>7. CASE WriteDir(p)
        BY <3>2, <4>7, DirStep
      <4>8. CASE WriteFat1(p)
        BY <3>2, <4>8, TableStep
      <4>9. CASE WriteFat2(p)
        <5>1. EndsWith(p, copy[p])
          BY <4>9 DEF WriteFat2, UpdateFat2, Does, EndsWith
        <5> QED
          BY <3>2, <5>1, EndStep
      <4> QED
        BY <3>4, <4>1, <4>2, <4>3, <4>4, <4>5, <4>6, <4>7, <4>8, <4>9, <4>10, <4>11
           DEF FatStep
    <3> QED
      BY <3>1, <3>3, <3>4
  <2> QED
    BY <2>1, <2>2
<1> QED
  BY <1>1, <1>2, PTL DEF FatSpec

\* VolumeIsSound, for any number of writers and files, a device and tables of any size and
\* any number of crashes: wherever writers overlap and the machine stops, until damage
\* records one of its reasons, each file's chain in the first table ends, belongs to it
\* alone and stays on the device; and while the machine has not stopped, no cluster is
\* marked that no file has, and the copies on the disk agree, whenever nobody is at work.
THEOREM SoundVolume == FatSpec => []VolumeIsSound
<1>1. FatInv => VolumeIsSound
  <2> SUFFICES ASSUME FatParts PROVE FatTypeOK /\ ChainsAreSound /\ OnDevice /\ NothingLeaks
    BY DEF FatInv, VolumeIsSound
  <2>1. ASSUME NEW f \in Files, NEW c \in Chain(fat1, dirdisk[f]) PROVE c <= LastCluster
    <3>1. /\ fat1 \in Tables /\ OnlyDevice(fat1) /\ dirdisk[f] \in Entries
          /\ dirdisk[f] <= LastCluster
      BY DEF FatParts, FatTypeOK, DeviceFits
    <3> QED
      BY <2>1, <3>1, DeviceChains
  <2>2. OnDevice
    BY <2>1 DEF OnDevice
  <2>4. ChainsAreSound
    <3>1. \A f \in Files : \/ dirdisk[f] = Kept[f]
                           \/ Chain(fat1, dirdisk[f]) = {} /\ SoundChain(fat1, dirdisk[f])
      BY NoChain, ClustersAre DEF FatParts, DirsFit
    <3>2. \A f \in Files : ~InFlight(f) => SoundChain(fat1, dirdisk[f])
      BY <3>1 DEF FatParts, KeptSound
    <3>3. ASSUME NEW f \in Files, NEW g \in Files \ {f}, ~InFlight(f), ~InFlight(g)
          PROVE  Chain(fat1, dirdisk[f]) \cap Chain(fat1, dirdisk[g]) = {}
      BY <3>1, <3>3 DEF FatParts, KeptSound
    <3> QED
      BY <3>2, <3>3 DEF ChainsAreSound
  <2>3. ASSUME crashes = 0, \A p \in Writers : doing[p] = "idle"
        PROVE  /\ \A c \in Clusters : fat1[c] # FreeCluster => \E f \in Files : c \in Chain(fat1, dirdisk[f])
               /\ fat1 = fat2 /\ dir = dirdisk
    <3>1. ~Doomed
      BY <2>3 DEF Doomed, Early, Unslotted, FatParts, FatTypeOK
    <3>2. LeaksFit
      BY <2>3, <3>1 DEF FatParts
    <3>4. \A f \in Files : Kept[f] = dirdisk[f]
      BY <2>3 DEF Kept, Erasing
    <3>3. dir = dirdisk
      <4>1. \A f \in Files : dir[f] = dirdisk[f]
        BY <2>3, <3>4 DEF FatParts, DirsFit
      <4>2. dir \in [Files -> Entries] /\ dirdisk \in [Files -> Entries]
        BY DEF FatParts, FatTypeOK
      <4> QED
        BY <4>1, <4>2
    <3> QED
      BY <2>3, <3>2, <3>3, <3>4 DEF LeaksFit, Claimed, Cuts
  <2> QED
    BY <2>2, <2>3, <2>4 DEF FatParts, NothingLeaks
<1> QED
  BY <1>1, FatInvHolds, PTL
==============================================================================
