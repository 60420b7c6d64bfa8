----------------------------- MODULE FloppyCache -----------------------------
(***************************************************************************)
(* The delayed-write cache of hardware/floppy/floppy.c: the sectors kept   *)
(* in cacheptr, what read_block and write_block do with them, and the      *)
(* flush that sorts the cache and commits the dirty sectors.               *)
(*                                                                         *)
(* Reads, writes and flushes run in the disk manager with task switching   *)
(* off.  vfs_unmount calls invalidatecache in the caller's process, so its *)
(* loop can be interrupted by any of them.  Which of the unmodified slots  *)
(* was used longest ago (the accessed field) is left open.                 *)
(*                                                                         *)
(* fdc_rw is FloppyDrive's subject.  Here a transfer ends, or fails, or is *)
(* retried without end, which is no step; its answer need not be true.     *)
(***************************************************************************)
EXTENDS Naturals, FiniteSets

CONSTANTS Sectors,      \* the sectors of the disk, from 0
          Values,       \* what a sector may hold
          NoData,       \* what malloc left in a slot
          CacheSize,    \* CACHESIZE
          MaxBlocks     \* the largest num_of_blocks of a request

Tries == 3              \* how often a transfer is tried

ASSUME CacheAssumption ==
  /\ Sectors \subseteq Nat /\ 0 \in Sectors
  /\ NoData \notin Values
  /\ CacheSize \in Nat \ {0} /\ MaxBlocks \in Nat \ {0}

Slots == 0 .. CacheSize - 1

VARIABLES
  cacheptr,     \* the slots
  disk,         \* what is on the disk
  fn,           \* the function of the driver under way
  block, numblocks, buf,        \* its arguments
  i,            \* its loop counter: the block, or the slot that is flushed
  retry,
  inval,        \* the index of invalidatecache's loop; CacheSize: not running
  mixed,        \* auxiliary: a flush moved slots while the loop ran
  stored,       \* auxiliary: the last value write_block accepted for each sector
  spoiled       \* auxiliary: a modified slot was invalidated or its flush given up, or
                \* fdc_rw did not do what it said

callVars == <<fn, block, numblocks, buf, i, retry>>
vars == <<cacheptr, disk, callVars, inval, mixed, stored, spoiled>>

\* old is auxiliary: the slot was valid when the disk was unmounted.
Empty == [sectorno |-> 0, valid |-> FALSE, dirty |-> FALSE, buf |-> NoData, old |-> FALSE]

NoBuffer == [n \in 0 .. MaxBlocks - 1 |-> NoData]

\* flop_initcache; the disk holds anything.
Init ==
  /\ cacheptr = [s \in Slots |-> Empty]
  /\ disk \in [Sectors -> Values]
  /\ fn = "none" /\ block = 0 /\ numblocks = 0
  /\ buf = NoBuffer
  /\ i = 0 /\ retry = 0
  /\ inval = CacheSize /\ mixed = FALSE
  /\ stored = disk /\ spoiled = FALSE

------------------------------------------------------------------------------
\* The slots.

Modified(s) == cacheptr[s].valid /\ cacheptr[s].dirty

\* Mutant: a slot is taken for a hit without a look at valid.
HitsAny(b) == {s \in Slots : cacheptr[s].sectorno = b}

Hits(b) == {s \in Slots : cacheptr[s].valid /\ cacheptr[s].sectorno = b}

\* Mutant: getcand takes a slot that waits to be written.
GetAny == Slots

\* getcand: the oldest slot that is not dirty, slot 0 if all of them are.
GetCand ==
  LET clean == {s \in Slots : ~cacheptr[s].dirty}
  IN  IF clean = {} THEN {0} ELSE clean

\* Where storecache puts a sector that has no slot: the last free slot, or a
\* candidate.  Slot 0 stands for none.
Room ==
  LET free == {s \in Slots : ~cacheptr[s].valid}
  IN  IF free = {} THEN GetCand ELSE {s \in free : \A t \in free : t <= s}

Filled(b, v, d) == [sectorno |-> b, valid |-> TRUE, dirty |-> d, buf |-> v, old |-> FALSE]

Invalid(slot) == [slot EXCEPT !.valid = FALSE, !.old = FALSE]

NoRoom(b) == Hits(b) = {} /\ 0 \in Room

\* Mutant: a sector that is cached is stored a second time.
StoreAgain(b, v, d) ==
  \E s \in Room \ {0} : cacheptr' = [cacheptr EXCEPT ![s] = Filled(b, v, d)]

\* storecache, when it returns 1: over the slot of the sector if it has one,
\* unless the data is the same, or else in a slot that has room.
StoreCache(b, v, d) ==
  \/ \E s \in Hits(b) :
       cacheptr' = IF cacheptr[s].buf = v THEN cacheptr
                   ELSE [cacheptr EXCEPT ![s] = Filled(b, v, d)]
  \/ /\ Hits(b) = {}
     /\ \E s \in Room \ {0} : cacheptr' = [cacheptr EXCEPT ![s] = Filled(b, v, d)]

\* qsort by sectorno; equal numbers come in any order.
Bijections ==
  {p \in [Slots -> Slots] : /\ \A s, t \in Slots : p[s] = p[t] => s = t
                            /\ \A t \in Slots : \E s \in Slots : p[s] = t}
Sorted ==
  {c \in {[s \in Slots |-> cacheptr[p[s]]] : p \in Bijections} :
     \A s, t \in Slots : s < t => c[s].sectorno <= c[t].sectorno}

------------------------------------------------------------------------------
\* fdc_rw meets a set disk change line: there is no transfer, the cache is invalidated
\* and it returns FALSE.
DiskChange ==
  /\ cacheptr' = [s \in Slots |-> Invalid(cacheptr[s])]
  /\ spoiled' = (spoiled \/ \E s \in Slots : Modified(s))
  /\ UNCHANGED disk

\* A write that should leave a sector as wanted, but need not: after three failed seeks,
\* or a late interrupt, fdc_rw takes a failed transfer for done; a write that it
\* reports as failed may have reached the disk.
Leaves(b, wanted) ==
  \E v \in Values : /\ disk' = [disk EXCEPT ![b] = v]
                     /\ spoiled' = (spoiled \/ v # wanted)

Begin(name, b, n) ==
  /\ fn = "none" /\ fn' = name
  /\ block' = b /\ numblocks' = n /\ i' = 0 /\ retry' = 0

Requests == {r \in Sectors \X (1 .. MaxBlocks) : \A n \in 0 .. r[2] - 1 : r[1] + n \in Sectors}

\* The next block of the request, or the answer after the last one.
NextBlock(done) ==
  /\ i' = i + 1
  /\ fn' = IF i + 1 = numblocks THEN done ELSE fn

\* read_block (and dex32_requestIO) with all blocks in the cache: getcache.
GetCache(b, n) ==
  /\ Begin("read done", b, n)
  /\ \A k \in 0 .. n - 1 : Hits(b + k) # {}
  /\ \E from \in [0 .. n - 1 -> Slots] :
       /\ \A k \in 0 .. n - 1 : from[k] \in Hits(b + k)
       /\ buf' = [k \in DOMAIN buf |-> IF k < n THEN cacheptr[from[k]].buf ELSE NoData]
  /\ UNCHANGED <<cacheptr, disk, inval, mixed, stored, spoiled>>

ReadBlock(b, n) ==
  /\ Begin("read_block", b, n)
  /\ \E k \in 0 .. n - 1 : Hits(b + k) = {}
  /\ buf' = NoBuffer
  /\ UNCHANGED <<cacheptr, disk, inval, mixed, stored, spoiled>>

\* One block is read from the disk, if fdc_rw says so truly, and stored, if there is
\* room, as clean.
ReadOne ==
  LET b == block + i
  IN  /\ fn = "read_block"
      /\ NextBlock("read done")
      /\ \E v \in Values :
           /\ StoreCache(b, v, FALSE) \/ (NoRoom(b) /\ UNCHANGED cacheptr)
           /\ buf' = [buf EXCEPT ![i] = v]
           /\ spoiled' = (spoiled \/ v # disk[b])
      /\ UNCHANGED <<disk, block, numblocks, retry, inval, mixed, stored>>

\* read_block gives up after three failures, of whichever blocks.
ReadFails ==
  /\ fn = "read_block"
  /\ DiskChange \/ UNCHANGED <<cacheptr, disk, spoiled>>
  /\ retry' = retry + 1
  /\ fn' = IF retry + 1 = Tries THEN "done" ELSE fn
  /\ UNCHANGED <<block, numblocks, buf, i, inval, mixed, stored>>

WriteBlock(b, n) ==
  /\ Begin("write_block", b, n)
  /\ buf' \in {[k \in DOMAIN buf |-> IF k < n THEN f[k] ELSE NoData] : f \in [0 .. n - 1 -> Values]}
  /\ UNCHANGED <<cacheptr, disk, inval, mixed, stored, spoiled>>

\* Mutant: the slot is not marked as modified.
WriteClean ==
  LET b == block + i
  IN  /\ fn = "write_block" /\ retry = 0
      /\ NextBlock("done")
      /\ StoreCache(b, buf[i], FALSE)
      /\ stored' = [stored EXCEPT ![b] = buf[i]]
      /\ UNCHANGED <<disk, block, numblocks, buf, retry, inval, mixed, spoiled>>

WriteDelayed ==
  LET b == block + i
  IN  /\ fn = "write_block" /\ retry = 0
      /\ NextBlock("done")
      /\ StoreCache(b, buf[i], TRUE)
      /\ stored' = [stored EXCEPT ![b] = buf[i]]
      /\ UNCHANGED <<disk, block, numblocks, buf, retry, inval, mixed, spoiled>>

\* A full cache: the block goes to the disk, in three tries.
WriteThrough ==
  LET b == block + i
  IN  /\ fn = "write_block" /\ (retry > 0 \/ NoRoom(b))
      /\ NextBlock("done") /\ retry' = 0
      /\ Leaves(b, buf[i])
      /\ stored' = [stored EXCEPT ![b] = buf[i]]
      /\ UNCHANGED <<cacheptr, block, numblocks, buf, inval, mixed>>

WriteFails ==
  LET b == block + i
  IN  /\ fn = "write_block" /\ (retry > 0 \/ NoRoom(b))
      /\ DiskChange \/ (Leaves(b, disk[b]) /\ UNCHANGED cacheptr)
      /\ retry' = retry + 1
      /\ fn' = IF retry + 1 = Tries THEN "done" ELSE fn
      /\ UNCHANGED <<block, numblocks, buf, i, inval, mixed, stored>>

\* flushcache, called when shouldflush() found a modified slot.
FlushCache ==
  /\ Begin("flushcache", 0, 0)
  /\ \E s \in Slots : Modified(s)
  /\ cacheptr' \in Sorted
  /\ mixed' = (mixed \/ (inval < CacheSize /\ cacheptr' # cacheptr))
  /\ UNCHANGED <<disk, buf, inval, stored, spoiled>>

FlushSkip ==
  /\ fn = "flushcache" /\ i < CacheSize /\ retry = 0 /\ ~Modified(i)
  /\ i' = i + 1
  /\ UNCHANGED <<cacheptr, disk, fn, block, numblocks, buf, retry, inval, mixed, stored, spoiled>>

\* Mutant: the modified flag is cleared before the transfer, which is skipped.
FlushNothing ==
  /\ fn = "flushcache" /\ i < CacheSize /\ (retry > 0 \/ Modified(i))
  /\ cacheptr' = [cacheptr EXCEPT ![i].dirty = FALSE]
  /\ i' = i + 1 /\ retry' = 0
  /\ UNCHANGED <<disk, fn, block, numblocks, buf, inval, mixed, stored, spoiled>>

FlushOne ==
  /\ fn = "flushcache" /\ i < CacheSize /\ (retry > 0 \/ Modified(i))
  /\ Leaves(cacheptr[i].sectorno, cacheptr[i].buf)
  /\ cacheptr' = [cacheptr EXCEPT ![i].dirty = FALSE]
  /\ i' = i + 1 /\ retry' = 0
  /\ UNCHANGED <<fn, block, numblocks, buf, inval, mixed, stored>>

\* The slot stays modified, so what the transfer left of the sector does not matter yet.
FlushFails ==
  /\ fn = "flushcache" /\ i < CacheSize /\ (retry > 0 \/ Modified(i))
  /\ retry + 1 < Tries
  /\ \/ DiskChange
     \/ /\ \E v \in Values : disk' = [disk EXCEPT ![cacheptr[i].sectorno] = v]
        /\ UNCHANGED <<cacheptr, spoiled>>
  /\ retry' = retry + 1
  /\ UNCHANGED <<fn, block, numblocks, buf, i, inval, mixed, stored>>

\* The third failure: the slot counts as written.
FlushGivesUp ==
  /\ fn = "flushcache" /\ i < CacheSize /\ (retry > 0 \/ Modified(i))
  /\ retry + 1 = Tries
  /\ \/ /\ cacheptr' = [s \in Slots |-> [Invalid(cacheptr[s]) EXCEPT
                          !.dirty = IF s = i THEN FALSE ELSE @]]
        /\ UNCHANGED disk
     \/ /\ cacheptr' = [cacheptr EXCEPT ![i].dirty = FALSE]
        /\ \E v \in Values : disk' = [disk EXCEPT ![cacheptr[i].sectorno] = v]
  /\ i' = i + 1 /\ retry' = 0 /\ spoiled' = TRUE
  /\ UNCHANGED <<fn, block, numblocks, buf, inval, mixed, stored>>

\* The call returns; its local variables are gone.
Return ==
  /\ fn \in {"read done", "done"} \/ (fn = "flushcache" /\ i = CacheSize)
  /\ fn' = "none"
  /\ block' = 0 /\ numblocks' = 0 /\ i' = 0 /\ retry' = 0
  /\ buf' = NoBuffer
  /\ UNCHANGED <<cacheptr, disk, inval, mixed, stored, spoiled>>

\* Mutant: slot 0, which stands for none elsewhere, is left out.
UnmountFromOne ==
  /\ fn = "none" /\ inval = CacheSize
  /\ inval' = 1 /\ mixed' = FALSE
  /\ cacheptr' = [s \in Slots |-> [cacheptr[s] EXCEPT !.old = cacheptr[s].valid]]
  /\ UNCHANGED <<disk, callVars, stored, spoiled>>

\* vfs_unmount calls invalidatecache.
Unmount ==
  /\ fn = "none" /\ inval = CacheSize
  /\ inval' = 0 /\ mixed' = FALSE
  /\ cacheptr' = [s \in Slots |-> [cacheptr[s] EXCEPT !.old = cacheptr[s].valid]]
  /\ UNCHANGED <<disk, callVars, stored, spoiled>>

InvalidateOne ==
  /\ fn = "none" /\ inval < CacheSize
  /\ cacheptr' = [cacheptr EXCEPT ![inval] = Invalid(@)]
  /\ inval' = inval + 1
  /\ spoiled' = (spoiled \/ Modified(inval))
  /\ UNCHANGED <<disk, callVars, mixed, stored>>

------------------------------------------------------------------------------
Read == ReadOne \/ ReadFails
Write == WriteDelayed \/ WriteThrough \/ WriteFails
Flush == FlushSkip \/ FlushOne \/ FlushFails \/ FlushGivesUp

Next ==
  \/ \E r \in Requests : GetCache(r[1], r[2]) \/ ReadBlock(r[1], r[2]) \/ WriteBlock(r[1], r[2])
  \/ FlushCache
  \/ Read \/ Write \/ Flush \/ Return
  \/ Unmount \/ InvalidateOne

Spec == Init /\ [][Next]_vars

------------------------------------------------------------------------------
Slot == [sectorno : Sectors, valid : BOOLEAN, dirty : BOOLEAN,
         buf : Values \cup {NoData}, old : BOOLEAN]

TypeOK ==
  /\ cacheptr \in [Slots -> Slot]
  /\ disk \in [Sectors -> Values] /\ stored \in [Sectors -> Values]
  /\ fn \in {"none", "read_block", "read done", "write_block", "flushcache", "done"}
  /\ block \in Sectors /\ numblocks \in 0 .. MaxBlocks
  /\ buf \in [0 .. MaxBlocks - 1 -> Values \cup {NoData}]
  /\ i \in Nat /\ retry \in 0 .. Tries
  /\ inval \in 0 .. CacheSize /\ mixed \in BOOLEAN /\ spoiled \in BOOLEAN

\* A sector is cached in one slot at most: with two, a read would find one of
\* them and the flush write the other.
OneSlotPerSector ==
  \A s, t \in Slots : cacheptr[s].valid /\ cacheptr[t].valid
                      /\ cacheptr[s].sectorno = cacheptr[t].sectorno => s = t

\* What a reader of the sector gets next: from its slot, else from the disk.
Holds(b, v) == IF Hits(b) = {} THEN disk[b] = v ELSE \A s \in Hits(b) : cacheptr[s].buf = v

\* Cache and disk together hold, for every sector, what was written last, as
\* long as no modified slot is given up and fdc_rw does what it says: delayed
\* writes, evictions, flushes, the sort, transfers that fail and are tried again,
\* and the invalidation of slots that need no writing never lose or move data.
NothingLost == ~spoiled => \A b \in Sectors : Holds(b, stored[b])

\* ... a slot that will not be written again is the same as the disk ...
CleanIsOnDisk ==
  ~spoiled => \A s \in Slots : cacheptr[s].valid /\ ~cacheptr[s].dirty
                                 => cacheptr[s].buf = disk[cacheptr[s].sectorno]

\* ... and a read that succeeds returns what was written last.
ReadsAreCurrent ==
  fn = "read done" /\ ~spoiled =>
    \A k \in 0 .. numblocks - 1 : buf[k] = stored[block + k]

\* No request loses a sector or returns an old one.
SectorsAreKept == NothingLost /\ ReadsAreCurrent

\* Once vfs_unmount's call of invalidatecache is over no slot is valid that was so when
\* it began, whatever the disk manager read, wrote, failed at or flushed in between,
\* unless a flush moved slots: then one that the loop had yet to come to may be behind
\* its index, and what it holds is taken for the next disk's.
InvalidatesAll ==
  inval = CacheSize /\ ~mixed => \A s \in Slots : ~(cacheptr[s].valid /\ cacheptr[s].old)
==============================================================================
