-------------------------- MODULE FloppyCacheProofs --------------------------
(***************************************************************************)
(* For any number of slots, sectors and values, with transfers that fail,  *)
(* disks that change and file systems that are unmounted: no sector is     *)
(* ever cached twice, and an unmount leaves no slot of the disk it was for *)
(* valid unless a flush moved one.  With requests of one block, until a    *)
(* modified slot is given up and while fdc_rw's answers are true, no write *)
(* is lost and no read is answered with stale data, however the cache      *)
(* fills up and is sorted.                                                 *)
(***************************************************************************)
EXTENDS FloppyCache, TLAPS

\* Without this condition TLC finds a lost write.
Simple == MaxBlocks = 1

\* The request under way stays on the disk and the tries are counted; a slot
\* that waits to be written holds data.
Requested ==
  /\ fn \in {"read_block", "write_block"} =>
       /\ i < numblocks /\ retry < Tries
       /\ \A n \in 0 .. numblocks - 1 : block + n \in Sectors
  /\ fn = "write_block" => \A n \in 0 .. numblocks - 1 : buf[n] \in Values
  /\ fn = "flushcache" => /\ retry < Tries
                          /\ retry > 0 => i < CacheSize /\ cacheptr[i].dirty
DirtyHoldsData == \A s \in Slots : cacheptr[s].dirty => cacheptr[s].buf \in Values

\* What holds of every request.
Slotted == OneSlotPerSector /\ DirtyHoldsData
Shape == TypeOK /\ Requested /\ Slotted

\* The slots and the disk, sector by sector, until spoiled.
Current == \A b \in Sectors : Holds(b, stored[b])
Synced == \A s \in Slots : cacheptr[s].valid /\ ~cacheptr[s].dirty
                            => cacheptr[s].buf = disk[cacheptr[s].sectorno]
Sound == OneSlotPerSector /\ Current /\ Synced

\* A request of one block: what is under way concerns that block.
Calls ==
  /\ fn \in {"read_block", "write_block", "read done"} => numblocks = 1
  /\ fn \in {"read_block", "write_block"} => i = 0
  /\ fn = "read_block" => Hits(block) = {}
  /\ fn = "write_block" /\ retry > 0 => Hits(block) = {}
  /\ fn = "flushcache" /\ retry > 0 /\ ~spoiled => cacheptr[i].valid

IInv == Shape /\ Calls /\ (~spoiled => Sound) /\ ReadsAreCurrent

------------------------------------------------------------------------------
\* The slots.

\* The last free slot, and every slot getcand offers, is a slot.
LEMMA RoomIsSlot == ASSUME TypeOK PROVE Room \subseteq Slots
BY CacheAssumption DEF CacheAssumption, Room, GetCand, Slots

\* A slot that holds data which must still be written is not given away.
LEMMA RoomIsClean ==
  ASSUME TypeOK, NEW s \in Room \ {0}
  PROVE  cacheptr[s].valid => ~cacheptr[s].dirty
BY CacheAssumption DEF CacheAssumption, Room, GetCand, Slots

\* storecache keeps the slots typed.
LEMMA StoreType ==
  ASSUME TypeOK, NEW b \in Sectors, NEW v \in Values, NEW d \in BOOLEAN,
         StoreCache(b, v, d)
  PROVE  cacheptr' \in [Slots -> Slot]
<1>1. Filled(b, v, d) \in Slot
  BY DEF Filled, Slot
<1>2. \A s \in Slots : [cacheptr EXCEPT ![s] = Filled(b, v, d)] \in [Slots -> Slot]
  BY <1>1 DEF TypeOK
<1>3. CASE UNCHANGED cacheptr
  BY <1>3 DEF TypeOK
<1> QED
  BY <1>2, <1>3, RoomIsSlot DEF StoreCache, Hits

\* Filling a slot with the value its sector is to hold, as clean when the disk
\* holds it already, keeps every sector's data, provided the slot was that
\* sector's or could be given away.
LEMMA PutData ==
  ASSUME TypeOK, Sound, NEW b \in Sectors, NEW v \in Values, NEW d \in BOOLEAN,
         NEW s \in Slots, Hits(b) \subseteq {s},
         cacheptr[s].valid /\ cacheptr[s].sectorno # b => ~cacheptr[s].dirty,
         cacheptr' = [cacheptr EXCEPT ![s] = Filled(b, v, d)],
         UNCHANGED disk, stored' = [stored EXCEPT ![b] = v],
         d = FALSE => disk[b] = v
  PROVE  Sound'
<1> DEFINE f == Filled(b, v, d)
<1>1. f.valid /\ f.sectorno = b /\ f.buf = v /\ (f.dirty <=> d)
  BY DEF Filled
<1>2. \A t \in Slots : cacheptr'[t] = IF t = s THEN f ELSE cacheptr[t]
  BY DEF TypeOK
<1>3. \A c \in Sectors : stored'[c] = IF c = b THEN v ELSE stored[c]
  BY DEF TypeOK
<1>4. \A t \in Slots : cacheptr[t].valid /\ cacheptr[t].sectorno = b => t = s
  BY DEF Hits
<1> HIDE DEF f
<1>5. OneSlotPerSector'
  BY <1>1, <1>2, <1>4 DEF Sound, OneSlotPerSector
<1>6. Synced'
  BY <1>1, <1>2 DEF Sound, Synced
<1>7. Current'
  <2> SUFFICES ASSUME NEW c \in Sectors PROVE Holds(c, stored[c])'
    BY DEF Current
  <2>1. CASE c = b
    BY <2>1, <1>1, <1>2, <1>3, <1>4 DEF Holds, Hits
  <2>2. CASE c # b /\ cacheptr[s].valid /\ cacheptr[s].sectorno = c
    <3>1. stored[c] = disk[c]
      BY <2>2 DEF Sound, Current, Holds, Hits, Synced
    <3>2. Hits(c)' = {}
      BY <2>2, <1>1, <1>2 DEF Sound, OneSlotPerSector, Hits
    <3> QED
      BY <2>2, <3>1, <3>2, <1>3 DEF Holds
  <2>3. CASE c # b /\ ~(cacheptr[s].valid /\ cacheptr[s].sectorno = c)
    <3>1. Hits(c)' = Hits(c)
      BY <2>3, <1>1, <1>2 DEF Hits
    <3>2. \A t \in Hits(c) : cacheptr'[t] = cacheptr[t]
      BY <2>3, <1>2 DEF Hits
    <3> QED
      BY <2>3, <3>1, <3>2, <1>3 DEF Holds, Sound, Current, Hits
  <2> QED
    BY <2>1, <2>2, <2>3
<1> QED
  BY <1>5, <1>6, <1>7 DEF Sound

\* storecache of a new value as dirty, or of the disk's value as clean, keeps
\* every sector's data.
LEMMA StoreData ==
  ASSUME TypeOK, Sound, NEW b \in Sectors, NEW v \in Values, NEW d \in BOOLEAN,
         StoreCache(b, v, d), UNCHANGED disk, stored' = [stored EXCEPT ![b] = v],
         d = FALSE => disk[b] = v
  PROVE  Sound'
<1>1. ASSUME NEW s \in Hits(b), cacheptr[s].buf = v, cacheptr' = cacheptr PROVE Sound'
  <2>1. stored' = stored
    BY <1>1 DEF TypeOK, Sound, Current, Holds
  <2> QED
    BY <1>1, <2>1 DEF Sound, OneSlotPerSector, Current, Synced, Holds, Hits
<1>2. ASSUME NEW s \in Hits(b), cacheptr' = [cacheptr EXCEPT ![s] = Filled(b, v, d)]
      PROVE  Sound'
  <2>1. s \in Slots /\ cacheptr[s].sectorno = b /\ Hits(b) \subseteq {s}
    BY DEF Hits, Sound, OneSlotPerSector
  <2> QED
    BY <1>2, <2>1, PutData
<1>3. ASSUME Hits(b) = {}, NEW s \in Room \ {0}, cacheptr' = [cacheptr EXCEPT ![s] = Filled(b, v, d)]
      PROVE  Sound'
  BY <1>3, RoomIsSlot, RoomIsClean, PutData
<1> QED
  BY <1>1, <1>2, <1>3 DEF StoreCache

\* The sort moves slots and changes none.
LEMMA SortData ==
  ASSUME TypeOK, Sound, cacheptr' \in Sorted, UNCHANGED <<disk, stored>>
  PROVE  cacheptr' \in [Slots -> Slot] /\ Sound'
<1>1. PICK p \in Bijections : cacheptr' = [s \in Slots |-> cacheptr[p[s]]]
  BY DEF Sorted
<1>2. /\ \A s \in Slots : p[s] \in Slots /\ cacheptr'[s] = cacheptr[p[s]]
      /\ \A s, t \in Slots : p[s] = p[t] => s = t
      /\ \A t \in Slots : \E s \in Slots : p[s] = t
  BY <1>1 DEF Bijections
<1>3. cacheptr' \in [Slots -> Slot]
  BY <1>1, <1>2 DEF TypeOK
<1>4. OneSlotPerSector'
  BY <1>2 DEF Sound, OneSlotPerSector
<1>5. Synced'
  BY <1>2 DEF Sound, Synced
<1>6. Current'
  BY <1>2 DEF Sound, Current, Holds, Hits
<1> QED
  BY <1>3, <1>4, <1>5, <1>6 DEF Sound

\* storecache, the sort and an invalidation leave one slot per sector.
LEMMA StoreSlots ==
  ASSUME TypeOK, Slotted, NEW b \in Sectors, NEW v \in Values, NEW d \in BOOLEAN,
         StoreCache(b, v, d)
  PROVE  Slotted'
<1>1. ASSUME NEW s \in Slots, cacheptr' = [cacheptr EXCEPT ![s] = Filled(b, v, d)],
             Hits(b) \subseteq {s}
      PROVE  Slotted'
  <2>1. \A t \in Slots : cacheptr'[t] = IF t = s THEN Filled(b, v, d) ELSE cacheptr[t]
    BY <1>1 DEF TypeOK
  <2>2. \A t \in Slots : cacheptr[t].valid /\ cacheptr[t].sectorno = b => t = s
    BY <1>1 DEF Hits
  <2>3. Filled(b, v, d).sectorno = b /\ Filled(b, v, d).buf = v
    BY DEF Filled
  <2>4. OneSlotPerSector'
    BY <2>1, <2>2, <2>3 DEF Slotted, OneSlotPerSector
  <2>5. DirtyHoldsData'
    BY <2>1, <2>3 DEF Slotted, DirtyHoldsData
  <2> QED
    BY <2>4, <2>5 DEF Slotted
<1>2. ASSUME NEW s \in Hits(b) PROVE s \in Slots /\ Hits(b) \subseteq {s}
  BY DEF Hits, Slotted, OneSlotPerSector
<1>3. CASE UNCHANGED cacheptr
  BY <1>3 DEF Slotted, OneSlotPerSector, DirtyHoldsData
<1> QED
  BY <1>1, <1>2, <1>3, RoomIsSlot DEF StoreCache

\* Sorting the slots only permutes them.
LEMMA SortSlots ==
  ASSUME TypeOK, Slotted, cacheptr' \in Sorted
  PROVE  cacheptr' \in [Slots -> Slot] /\ Slotted'
<1>1. PICK p \in Bijections : cacheptr' = [s \in Slots |-> cacheptr[p[s]]]
  BY DEF Sorted
<1>2. /\ \A s \in Slots : p[s] \in Slots /\ cacheptr'[s] = cacheptr[p[s]]
      /\ \A s, t \in Slots : p[s] = p[t] => s = t
  BY <1>1 DEF Bijections
<1>3. cacheptr' \in [Slots -> Slot]
  BY <1>1, <1>2 DEF TypeOK
<1> QED
  BY <1>2, <1>3 DEF Slotted, OneSlotPerSector, DirtyHoldsData

\* The slots after an invalidation or a change of the modified flags.
LEMMA FewerSlots ==
  ASSUME TypeOK, Slotted, NEW c, c \in [Slots -> Slot], cacheptr' = c,
         \A s \in Slots : /\ c[s].valid => cacheptr[s].valid
                          /\ c[s].dirty => cacheptr[s].dirty
                          /\ c[s].sectorno = cacheptr[s].sectorno
                          /\ c[s].buf = cacheptr[s].buf
  PROVE  cacheptr' \in [Slots -> Slot] /\ Slotted'
BY DEF Slotted, OneSlotPerSector, DirtyHoldsData

\* What an invalidated slot is.
LEMMA InvalidSlot ==
  ASSUME NEW slot \in Slot
  PROVE  /\ Invalid(slot) \in Slot /\ ~Invalid(slot).valid /\ ~Invalid(slot).old
         /\ Invalid(slot).dirty = slot.dirty /\ Invalid(slot).buf = slot.buf
         /\ Invalid(slot).sectorno = slot.sectorno
BY DEF Invalid, Slot

\* What a change of the disk does to the slots.
LEMMA ChangeSlots ==
  ASSUME TypeOK, Slotted, DiskChange
  PROVE  /\ cacheptr' \in [Slots -> Slot] /\ spoiled' \in BOOLEAN /\ Slotted'
         /\ disk' \in [Sectors -> Values]
         /\ \A s \in Slots : /\ ~cacheptr'[s].valid /\ ~cacheptr'[s].old
                             /\ cacheptr'[s].dirty = cacheptr[s].dirty
                             /\ cacheptr'[s].sectorno = cacheptr[s].sectorno
                             /\ cacheptr'[s].buf = cacheptr[s].buf
<1>1. \A s \in Slots : cacheptr[s] \in Slot /\ cacheptr'[s] = Invalid(cacheptr[s])
  BY DEF TypeOK, DiskChange
<1>2. cacheptr' = [s \in Slots |-> Invalid(cacheptr[s])]
  BY DEF DiskChange
<1>3. cacheptr' \in [Slots -> Slot]
  BY <1>1, <1>2, InvalidSlot
<1>4. \A s \in Slots : /\ ~cacheptr'[s].valid /\ ~cacheptr'[s].old
                       /\ cacheptr'[s].dirty = cacheptr[s].dirty
                       /\ cacheptr'[s].sectorno = cacheptr[s].sectorno
                       /\ cacheptr'[s].buf = cacheptr[s].buf
  BY <1>1, InvalidSlot
<1>5. Slotted'
  BY <1>3, <1>4, FewerSlots
<1>6. disk' \in [Sectors -> Values] /\ spoiled' \in BOOLEAN
  BY DEF DiskChange, TypeOK
<1> QED
  BY <1>3, <1>4, <1>5, <1>6

\* A write leaves the sector as it should unless it spoils the data.
LEMMA LeavesSector ==
  ASSUME TypeOK, NEW b \in Sectors, NEW w, Leaves(b, w)
  PROVE  /\ disk' \in [Sectors -> Values] /\ spoiled' \in BOOLEAN
         /\ ~spoiled' => ~spoiled /\ disk' = [disk EXCEPT ![b] = w]
BY DEF TypeOK, Leaves

------------------------------------------------------------------------------
\* Every request, whatever the drive does, is for sectors of the disk.
LEMMA RequestOnDisk ==
  ASSUME NEW r \in Requests
  PROVE  /\ r[1] \in Sectors /\ r[2] \in 0 .. MaxBlocks /\ 0 < r[2]
         /\ r[2] \in Nat /\ MaxBlocks \in Nat
         /\ \A n \in 0 .. r[2] - 1 : r[1] + n \in Sectors
         /\ 0 .. r[2] - 1 \subseteq 0 .. MaxBlocks - 1
<1>1. r \in Sectors \X (1 .. MaxBlocks) /\ \A n \in 0 .. r[2] - 1 : r[1] + n \in Sectors
  BY DEF Requests
<1>2. r[1] \in Sectors /\ r[2] \in 1 .. MaxBlocks /\ MaxBlocks \in Nat
  BY <1>1, CacheAssumption DEF CacheAssumption
<1> QED
  BY <1>1, <1>2

\* The block at work is one of the disk.
LEMMA AtWork ==
  ASSUME Shape, fn \in {"read_block", "write_block"}
  PROVE  /\ i \in 0 .. MaxBlocks - 1 /\ block + i \in Sectors
         /\ fn = "write_block" => buf[i] \in Values
         /\ numblocks \in 0 .. MaxBlocks /\ i + 1 \in Nat
<1>1. i \in Nat /\ numblocks \in 0 .. MaxBlocks /\ MaxBlocks \in Nat /\ i < numblocks
  BY CacheAssumption DEF Shape, TypeOK, Requested, CacheAssumption
<1>2. i \in 0 .. MaxBlocks - 1 /\ i \in 0 .. numblocks - 1 /\ i + 1 \in Nat
  BY <1>1
<1> QED
  BY <1>1, <1>2 DEF Shape, Requested

\* The flush is at one of the slots.
LEMMA FlushedSlot == ASSUME TypeOK, i < CacheSize PROVE i \in Slots
<1>1. i \in Nat /\ CacheSize \in Nat
  BY CacheAssumption DEF TypeOK, CacheAssumption
<1> QED
  BY <1>1 DEF Slots

\* A request is tried at least once.
LEMMA SomeTries == 0 < Tries
BY DEF Tries

\* A new call has its arguments, and its counters at zero.
LEMMA BeginType ==
  ASSUME TypeOK, NEW name, NEW b \in Sectors, NEW n \in 0 .. MaxBlocks, Begin(name, b, n)
  PROVE  /\ block' \in Sectors /\ numblocks' \in 0 .. MaxBlocks
         /\ i' \in Nat /\ retry' \in 0 .. Tries
<1>1. block' = b /\ numblocks' = n /\ i' = 0 /\ retry' = 0
  BY DEF Begin
<1> QED
  BY <1>1 DEF Tries

\* The slots keep their shape, and with it the request that is under way.
LEMMA SlotsFrame == ASSUME Slotted, UNCHANGED cacheptr PROVE Slotted'
BY DEF Slotted, OneSlotPerSector, DirtyHoldsData

\* Every step keeps the slots in shape.
LEMMA ShapeStep == Shape /\ [Next]_vars => Shape'
<1> SUFFICES ASSUME Shape, [Next]_vars PROVE Shape'
  OBVIOUS
<1>t. TypeOK /\ Requested /\ Slotted
  BY DEF Shape
<1> DEFINE Fns == {"none", "read_block", "read done", "write_block", "flushcache", "done"}
<1>r. ASSUME NEW r \in Requests, NEW name \in Fns, Begin(name, r[1], r[2]), Slotted',
             UNCHANGED <<cacheptr, disk, inval, mixed, stored, spoiled>>,
             buf' \in [0 .. MaxBlocks - 1 -> Values \cup {NoData}],
             name = "write_block" => \A n \in 0 .. r[2] - 1 : buf'[n] \in Values,
             name # "flushcache"
      PROVE  Shape'
  <2>1. TypeOK'
    BY <1>t, <1>r, BeginType, RequestOnDisk DEF TypeOK, Begin
  <2>2. block' = r[1] /\ numblocks' = r[2] /\ i' = 0 /\ retry' = 0 /\ fn' = name
    BY <1>r DEF Begin
  <2>3. i' < numblocks' /\ retry' < Tries
    <3>1. 0 < r[2] /\ i' = 0 /\ retry' = 0 /\ numblocks' = r[2]
      BY <2>2, RequestOnDisk
    <3> QED
      BY <3>1, SomeTries
  <2>a. \A n \in 0 .. numblocks' - 1 : block' + n \in Sectors
    BY <2>2, RequestOnDisk
  <2>4. Requested'
    BY <1>r, <2>2, <2>3, <2>a DEF Requested
  <2> QED
    BY <1>r, <2>1, <2>4 DEF Shape
<1>1. ASSUME NEW r \in Requests, GetCache(r[1], r[2]) PROVE Shape'
  <2>1. PICK from \in [0 .. r[2] - 1 -> Slots] :
          buf' = [k \in DOMAIN buf |-> IF k < r[2] THEN cacheptr[from[k]].buf ELSE NoData]
    BY <1>1 DEF GetCache
  <2>2. DOMAIN buf = 0 .. MaxBlocks - 1 /\ r[2] \in Nat /\ MaxBlocks \in Nat
    BY <1>t, RequestOnDisk DEF TypeOK
  <2>3. \A k \in DOMAIN buf : k < r[2] => cacheptr[from[k]].buf \in Values \cup {NoData}
    <3> SUFFICES ASSUME NEW k \in DOMAIN buf, k < r[2]
                 PROVE  cacheptr[from[k]].buf \in Values \cup {NoData}
      OBVIOUS
    <3>1. k \in 0 .. r[2] - 1
      BY <2>2
    <3> QED
      BY <1>t, <2>1, <3>1 DEF TypeOK, Slot
  <2>4. buf' \in [0 .. MaxBlocks - 1 -> Values \cup {NoData}]
    BY <2>1, <2>2, <2>3
  <2>5. Slotted' /\ UNCHANGED <<cacheptr, disk, inval, mixed, stored, spoiled>>
    BY <1>1, <1>t, SlotsFrame DEF GetCache
  <2> QED
    BY <1>1, <1>r, <2>4, <2>5 DEF GetCache
<1>2. ASSUME NEW r \in Requests, ReadBlock(r[1], r[2]) PROVE Shape'
  <2>1. buf' \in [0 .. MaxBlocks - 1 -> Values \cup {NoData}]
    BY <1>2 DEF ReadBlock, NoBuffer
  <2>2. Slotted' /\ UNCHANGED <<cacheptr, disk, inval, mixed, stored, spoiled>>
    BY <1>2, <1>t, SlotsFrame DEF ReadBlock
  <2> QED
    BY <1>2, <1>r, <2>1, <2>2 DEF ReadBlock
<1>3. ASSUME NEW r \in Requests, WriteBlock(r[1], r[2]) PROVE Shape'
  <2>1. PICK f \in [0 .. r[2] - 1 -> Values] :
          buf' = [k \in DOMAIN buf |-> IF k < r[2] THEN f[k] ELSE NoData]
    BY <1>3 DEF WriteBlock
  <2>2. DOMAIN buf = 0 .. MaxBlocks - 1 /\ r[2] \in Nat /\ MaxBlocks \in Nat
    BY <1>t, RequestOnDisk DEF TypeOK
  <2>3. \A k \in DOMAIN buf : k < r[2] => f[k] \in Values
    BY <2>2
  <2>4. buf' \in [0 .. MaxBlocks - 1 -> Values \cup {NoData}]
    BY <2>1, <2>2, <2>3
  <2>5. \A n \in 0 .. r[2] - 1 : buf'[n] \in Values
    <3> SUFFICES ASSUME NEW n \in 0 .. r[2] - 1 PROVE buf'[n] \in Values
      OBVIOUS
    <3>1. n \in DOMAIN buf /\ n < r[2]
      BY <2>2, RequestOnDisk
    <3> QED
      BY <2>1, <2>3, <3>1
  <2>6. Slotted' /\ UNCHANGED <<cacheptr, disk, inval, mixed, stored, spoiled>>
    BY <1>3, <1>t, SlotsFrame DEF WriteBlock
  <2> QED
    BY <1>3, <1>r, <2>4, <2>5, <2>6 DEF WriteBlock
<1>4. CASE FlushCache
  <2>1. cacheptr' \in [Slots -> Slot] /\ Slotted'
    BY <1>4, <1>t, SortSlots DEF FlushCache
  <2>2. fn' = "flushcache" /\ retry' = 0 /\ UNCHANGED <<disk, buf, inval, stored, spoiled>>
    BY <1>4 DEF FlushCache, Begin
  <2>a. mixed' \in BOOLEAN
    BY <1>4 DEF FlushCache
  <2>3. 0 \in Sectors /\ 0 \in 0 .. MaxBlocks
    BY CacheAssumption DEF CacheAssumption
  <2>4. TypeOK'
    BY <1>4, <1>t, <2>1, <2>2, <2>3, <2>a, BeginType DEF FlushCache, TypeOK
  <2>5. Requested'
    BY <2>2 DEF Requested, Tries
  <2> QED
    BY <2>1, <2>4, <2>5 DEF Shape
<1>5. CASE ReadOne
  <2>1. /\ fn = "read_block" /\ i \in Nat /\ numblocks \in Nat /\ i < numblocks
        /\ i \in 0 .. MaxBlocks - 1 /\ block + i \in Sectors
    <3>1. fn = "read_block"
      BY <1>5 DEF ReadOne
    <3>2. i \in Nat /\ i < numblocks
      BY <1>t, <3>1 DEF TypeOK, Requested
    <3>3. i \in 0 .. MaxBlocks - 1 /\ block + i \in Sectors /\ numblocks \in 0 .. MaxBlocks
      BY <3>1, AtWork
    <3> QED
      BY <3>1, <3>2, <3>3
  <2>b. PICK v \in Values : /\ StoreCache(block + i, v, FALSE) \/ UNCHANGED cacheptr
                            /\ buf' = [buf EXCEPT ![i] = v]
                            /\ spoiled' = (spoiled \/ v # disk[block + i])
    BY <1>5 DEF ReadOne
  <2>2. cacheptr' \in [Slots -> Slot] /\ Slotted' /\ spoiled' \in BOOLEAN
    <3>1. CASE StoreCache(block + i, v, FALSE)
      BY <1>t, <2>1, <2>b, <3>1, StoreType, StoreSlots DEF TypeOK
    <3>2. CASE UNCHANGED cacheptr
      BY <1>t, <2>b, <3>2, SlotsFrame DEF TypeOK
    <3> QED
      BY <2>b, <3>1, <3>2
  <2>3. buf' \in [0 .. MaxBlocks - 1 -> Values \cup {NoData}]
    BY <1>t, <2>1, <2>b DEF TypeOK
  <2>4. /\ i' = i + 1 /\ fn' = (IF i + 1 = numblocks THEN "read done" ELSE "read_block")
        /\ UNCHANGED <<disk, block, numblocks, retry, inval, mixed, stored>>
    BY <1>5, <2>1 DEF ReadOne, NextBlock
  <2>5. TypeOK'
    <3>1. i' \in Nat
      <4>1. i \in Nat /\ i' = i + 1
        BY <2>1, <2>4
      <4> QED
        BY <4>1
    <3>2. fn' \in Fns
      BY <2>4
    <3> QED
      BY <1>t, <2>2, <2>3, <2>4, <3>1, <3>2 DEF TypeOK
  <2>6. Requested'
    <3>1. fn' = "read_block" => i' < numblocks'
      BY <2>1, <2>4
    <3>2. fn' \in {"read done", "read_block"}
      BY <2>4
    <3> QED
      BY <1>t, <2>1, <2>4, <3>1, <3>2 DEF Requested
  <2> QED
    BY <2>2, <2>5, <2>6 DEF Shape
<1>6. CASE ReadFails
  <2>1. /\ cacheptr' \in [Slots -> Slot] /\ spoiled' \in BOOLEAN /\ Slotted'
        /\ disk' \in [Sectors -> Values]
    <3>1. CASE DiskChange
      BY <1>t, <3>1, ChangeSlots
    <3>2. CASE UNCHANGED <<cacheptr, disk, spoiled>>
      BY <1>t, <3>2, SlotsFrame DEF TypeOK
    <3> QED
      BY <1>6, <3>1, <3>2 DEF ReadFails
  <2>2. fn = "read_block" /\ retry < Tries /\ retry' = retry + 1 /\ retry \in 0 .. Tries
    BY <1>6, <1>t DEF ReadFails, Requested, TypeOK
  <2>3. /\ fn' = (IF retry + 1 = Tries THEN "done" ELSE "read_block")
        /\ UNCHANGED <<block, numblocks, buf, i, inval, mixed, stored>>
    BY <1>6, <2>2 DEF ReadFails
  <2>4. TypeOK'
    BY <1>t, <2>1, <2>2, <2>3 DEF TypeOK, Tries
  <2>5. Requested'
    BY <1>t, <2>2, <2>3 DEF Requested, Tries
  <2> QED
    BY <2>1, <2>4, <2>5 DEF Shape
<1>7. CASE WriteDelayed
  <2>1. /\ fn = "write_block" /\ i \in Nat /\ numblocks \in Nat /\ i < numblocks
        /\ block + i \in Sectors /\ buf[i] \in Values
    BY <1>7, AtWork DEF WriteDelayed, Shape, TypeOK, Requested
  <2>2. cacheptr' \in [Slots -> Slot] /\ Slotted'
    BY <1>7, <1>t, <2>1, StoreType, StoreSlots DEF WriteDelayed
  <2>3. /\ i' = i + 1 /\ fn' = (IF i + 1 = numblocks THEN "done" ELSE "write_block")
        /\ stored' = [stored EXCEPT ![block + i] = buf[i]]
        /\ UNCHANGED <<disk, block, numblocks, buf, retry, inval, mixed, spoiled>>
    BY <1>7, <2>1 DEF WriteDelayed, NextBlock
  <2>4. TypeOK'
    BY <1>t, <2>1, <2>2, <2>3 DEF TypeOK
  <2>5. Requested'
    BY <1>t, <2>1, <2>3 DEF Requested
  <2> QED
    BY <2>2, <2>4, <2>5 DEF Shape
<1>8. CASE WriteThrough
  <2>1. /\ fn = "write_block" /\ i \in Nat /\ numblocks \in Nat /\ i < numblocks
        /\ block + i \in Sectors /\ buf[i] \in Values
    BY <1>8, AtWork DEF WriteThrough, Shape, TypeOK, Requested
  <2>2. /\ i' = i + 1 /\ fn' = (IF i + 1 = numblocks THEN "done" ELSE "write_block")
        /\ retry' = 0
        /\ stored' = [stored EXCEPT ![block + i] = buf[i]]
        /\ UNCHANGED <<cacheptr, block, numblocks, buf, inval, mixed>>
    BY <1>8, <2>1 DEF WriteThrough, NextBlock
  <2>a. disk' \in [Sectors -> Values] /\ spoiled' \in BOOLEAN
    <3>1. Leaves(block + i, buf[i])
      BY <1>8 DEF WriteThrough
    <3> QED
      BY <1>t, <2>1, <3>1, LeavesSector
  <2>3. TypeOK'
    <3>1. stored' \in [Sectors -> Values] /\ cacheptr' \in [Slots -> Slot]
      BY <1>t, <2>1, <2>2 DEF TypeOK
    <3>2. i' \in Nat /\ retry' \in 0 .. Tries
      BY <2>1, <2>2 DEF Tries
    <3> QED
      BY <1>t, <2>2, <2>a, <3>1, <3>2 DEF TypeOK
  <2>4. Requested'
    BY <1>t, <2>1, <2>2 DEF Requested, Tries
  <2> QED
    BY <1>t, <2>2, <2>3, <2>4, SlotsFrame DEF Shape
<1>9. CASE WriteFails
  <2>1. /\ cacheptr' \in [Slots -> Slot] /\ spoiled' \in BOOLEAN /\ Slotted'
        /\ disk' \in [Sectors -> Values]
    <3>1. CASE DiskChange
      BY <1>t, <3>1, ChangeSlots
    <3>2. CASE Leaves(block + i, disk[block + i]) /\ UNCHANGED cacheptr
      <4>1. block + i \in Sectors
        BY <1>9, AtWork DEF WriteFails
      <4> QED
        BY <1>t, <3>2, <4>1, SlotsFrame, LeavesSector DEF TypeOK
    <3> QED
      BY <1>9, <3>1, <3>2 DEF WriteFails
  <2>2. fn = "write_block" /\ retry < Tries /\ retry' = retry + 1 /\ retry \in 0 .. Tries
    BY <1>9, <1>t DEF WriteFails, Requested, TypeOK
  <2>3. /\ fn' = (IF retry + 1 = Tries THEN "done" ELSE "write_block")
        /\ UNCHANGED <<block, numblocks, buf, i, inval, mixed, stored>>
    BY <1>9, <2>2 DEF WriteFails
  <2>4. TypeOK'
    BY <1>t, <2>1, <2>2, <2>3 DEF TypeOK, Tries
  <2>5. Requested'
    BY <1>t, <2>2, <2>3 DEF Requested, Tries
  <2> QED
    BY <2>1, <2>4, <2>5 DEF Shape
<1>10. CASE Return
  <2>1. 0 \in Sectors /\ 0 \in 0 .. MaxBlocks /\ 0 \in Nat /\ 0 \in 0 .. Tries
    BY CacheAssumption DEF CacheAssumption, Tries
  <2>2. NoBuffer \in [0 .. MaxBlocks - 1 -> Values \cup {NoData}]
    BY DEF NoBuffer
  <2>3. TypeOK'
    BY <1>10, <1>t, <2>1, <2>2 DEF Return, TypeOK
  <2>4. Requested'
    BY <1>10 DEF Return, Requested
  <2> QED
    BY <1>10, <1>t, <2>3, <2>4, SlotsFrame DEF Return, Shape
<1>11. CASE FlushSkip
  <2>1. TypeOK'
    BY <1>11, <1>t DEF FlushSkip, TypeOK
  <2>2. Requested'
    BY <1>11, <1>t DEF FlushSkip, Requested
  <2> QED
    BY <1>11, <1>t, <2>1, <2>2, SlotsFrame DEF FlushSkip, Shape
<1>12. CASE FlushOne
  <2>1. i \in Slots /\ cacheptr[i].dirty /\ cacheptr[i] \in Slot
    <3>1. fn = "flushcache" /\ i < CacheSize /\ (retry > 0 \/ Modified(i))
      BY <1>12 DEF FlushOne
    <3>2. i \in Slots
      BY <1>t, <3>1, FlushedSlot
    <3>3. cacheptr[i].dirty
      BY <1>t, <3>1 DEF Requested, Modified
    <3> QED
      BY <1>t, <3>2, <3>3 DEF TypeOK
  <2>2. cacheptr[i].sectorno \in Sectors /\ cacheptr[i].buf \in Values
    BY <1>t, <2>1 DEF Slotted, DirtyHoldsData, Slot
  <2>3. cacheptr' = [cacheptr EXCEPT ![i].dirty = FALSE]
    BY <1>12 DEF FlushOne
  <2>4. /\ i' = i + 1 /\ retry' = 0 /\ fn' = "flushcache"
        /\ UNCHANGED <<block, numblocks, buf, inval, mixed, stored>>
    BY <1>12 DEF FlushOne
  <2>5. cacheptr' \in [Slots -> Slot] /\ Slotted'
    <3>1. [cacheptr[i] EXCEPT !.dirty = FALSE] \in Slot
      BY <2>1 DEF Slot
    <3>2. cacheptr' \in [Slots -> Slot]
      BY <1>t, <2>1, <2>3, <3>1 DEF TypeOK
    <3>3. \A s \in Slots : /\ cacheptr'[s].valid => cacheptr[s].valid
                           /\ cacheptr'[s].dirty => cacheptr[s].dirty
                           /\ cacheptr'[s].sectorno = cacheptr[s].sectorno
                           /\ cacheptr'[s].buf = cacheptr[s].buf
      BY <1>t, <2>3 DEF TypeOK, Slot
    <3> QED
      BY <1>t, <3>2, <3>3, FewerSlots
  <2>6. i' \in Nat
    <3>1. i \in Nat
      BY <1>t DEF TypeOK
    <3> QED
      BY <2>4, <3>1
  <2>7. TypeOK'
    <3>1. 0 \in 0 .. Tries
      BY DEF Tries
    <3>2. disk' \in [Sectors -> Values] /\ spoiled' \in BOOLEAN
      <4>1. Leaves(cacheptr[i].sectorno, cacheptr[i].buf)
        BY <1>12 DEF FlushOne
      <4> QED
        BY <1>t, <2>2, <4>1, LeavesSector
    <3> QED
      BY <1>t, <2>4, <2>5, <2>6, <3>1, <3>2 DEF TypeOK
  <2>8. Requested'
    BY <2>4 DEF Requested, Tries
  <2> QED
    BY <2>5, <2>7, <2>8 DEF Shape
<1>13. CASE FlushFails
  <2>1. /\ cacheptr' \in [Slots -> Slot] /\ spoiled' \in BOOLEAN /\ Slotted'
        /\ disk' \in [Sectors -> Values]
        /\ \A s \in Slots : cacheptr'[s].dirty = cacheptr[s].dirty
    <3>1. CASE DiskChange
      BY <1>t, <3>1, ChangeSlots
    <3>2. CASE /\ \E v \in Values : disk' = [disk EXCEPT ![cacheptr[i].sectorno] = v]
               /\ UNCHANGED <<cacheptr, spoiled>>
      BY <1>t, <3>2, SlotsFrame DEF TypeOK
    <3> QED
      BY <1>13, <3>1, <3>2 DEF FlushFails
  <2>2. i \in Slots /\ cacheptr[i].dirty /\ i < CacheSize
    <3>1. fn = "flushcache" /\ i < CacheSize /\ (retry > 0 \/ Modified(i))
      BY <1>13 DEF FlushFails
    <3>2. i \in Slots
      BY <1>t, <3>1, FlushedSlot
    <3> QED
      BY <1>t, <3>1, <3>2 DEF Requested, Modified
  <2>3. /\ fn' = "flushcache" /\ retry' = retry + 1 /\ retry + 1 < Tries
        /\ UNCHANGED <<block, numblocks, buf, i, inval, mixed, stored>>
    BY <1>13 DEF FlushFails
  <2>a. retry' \in 0 .. Tries
    <3>1. retry \in 0 .. Tries
      BY <1>t DEF TypeOK
    <3> QED
      BY <2>3, <3>1 DEF Tries
  <2>4. TypeOK'
    BY <1>t, <2>1, <2>3, <2>a DEF TypeOK
  <2>5. Requested'
    BY <1>t, <2>1, <2>2, <2>3 DEF Requested
  <2> QED
    BY <2>1, <2>4, <2>5 DEF Shape
<1>14. CASE FlushGivesUp
  <2>1. /\ i' = i + 1 /\ retry' = 0 /\ spoiled' = TRUE /\ fn' = "flushcache"
        /\ UNCHANGED <<block, numblocks, buf, inval, mixed, stored>>
    BY <1>14 DEF FlushGivesUp
  <2>2. /\ cacheptr' \in [Slots -> Slot] /\ disk' \in [Sectors -> Values]
        /\ \A s \in Slots : /\ cacheptr'[s].valid => cacheptr[s].valid
                            /\ cacheptr'[s].dirty => cacheptr[s].dirty
                            /\ cacheptr'[s].sectorno = cacheptr[s].sectorno
                            /\ cacheptr'[s].buf = cacheptr[s].buf
    <3>1. CASE /\ cacheptr' = [cacheptr EXCEPT ![i].dirty = FALSE]
               /\ \E v \in Values : disk' = [disk EXCEPT ![cacheptr[i].sectorno] = v]
      <4>1. \A s \in Slots : [cacheptr[s] EXCEPT !.dirty = FALSE] \in Slot
        BY <1>t DEF TypeOK, Slot
      <4>2. cacheptr' \in [Slots -> Slot]
        BY <1>t, <3>1, <4>1 DEF TypeOK
      <4>3. disk' \in [Sectors -> Values]
        BY <1>t, <3>1 DEF TypeOK
      <4>4. \A s \in Slots : cacheptr'[s] = cacheptr[s]
                            \/ cacheptr'[s] = [cacheptr[s] EXCEPT !.dirty = FALSE]
        BY <1>t, <3>1 DEF TypeOK
      <4> QED
        BY <1>t, <4>2, <4>3, <4>4 DEF TypeOK, Slot
    <3>2. CASE /\ cacheptr' = [s \in Slots |-> [Invalid(cacheptr[s]) EXCEPT
                                   !.dirty = IF s = i THEN FALSE ELSE @]]
               /\ UNCHANGED disk
      <4>1. \A s \in Slots : Invalid(cacheptr[s]) \in Slot
        BY <1>t, InvalidSlot DEF TypeOK
      <4>2. \A s \in Slots : [Invalid(cacheptr[s]) EXCEPT
                                !.dirty = IF s = i THEN FALSE ELSE @] \in Slot
        BY <4>1 DEF Slot
      <4>3. cacheptr' \in [Slots -> Slot]
        BY <3>2, <4>2
      <4>4. \A s \in Slots : /\ ~cacheptr'[s].valid
                             /\ cacheptr'[s].dirty => cacheptr[s].dirty
                             /\ cacheptr'[s].sectorno = cacheptr[s].sectorno
                             /\ cacheptr'[s].buf = cacheptr[s].buf
        <5> SUFFICES ASSUME NEW s \in Slots
                     PROVE  /\ ~cacheptr'[s].valid
                            /\ cacheptr'[s].dirty => cacheptr[s].dirty
                            /\ cacheptr'[s].sectorno = cacheptr[s].sectorno
                            /\ cacheptr'[s].buf = cacheptr[s].buf
          OBVIOUS
        <5>1. /\ ~Invalid(cacheptr[s]).valid /\ Invalid(cacheptr[s]).dirty = cacheptr[s].dirty
              /\ Invalid(cacheptr[s]).sectorno = cacheptr[s].sectorno
              /\ Invalid(cacheptr[s]).buf = cacheptr[s].buf
          BY <1>t, InvalidSlot DEF TypeOK
        <5>2. cacheptr'[s] = [Invalid(cacheptr[s]) EXCEPT !.dirty = IF s = i THEN FALSE ELSE @]
          BY <3>2
        <5> QED
          BY <4>1, <5>1, <5>2 DEF Slot
      <4>5. disk' \in [Sectors -> Values]
        BY <1>t, <3>2 DEF TypeOK
      <4> QED
        BY <4>3, <4>4, <4>5
    <3> QED
      BY <1>14, <3>1, <3>2 DEF FlushGivesUp
  <2>3. Slotted'
    BY <1>t, <2>2, FewerSlots
  <2>a. i' \in Nat /\ retry' \in 0 .. Tries
    <3>1. i \in Nat
      BY <1>t DEF TypeOK
    <3> QED
      BY <2>1, <3>1 DEF Tries
  <2>4. TypeOK'
    BY <1>t, <2>1, <2>2, <2>a DEF TypeOK
  <2>5. Requested'
    BY <2>1 DEF Requested, Tries
  <2> QED
    BY <2>3, <2>4, <2>5 DEF Shape
<1>15. CASE Unmount
  <2>1. inval' \in 0 .. CacheSize /\ mixed' \in BOOLEAN
    <3>1. inval' = 0 /\ mixed' \in BOOLEAN
      BY <1>15 DEF Unmount
    <3>2. 0 \in 0 .. CacheSize
      BY CacheAssumption DEF CacheAssumption
    <3> QED
      BY <3>1, <3>2
  <2>2. cacheptr' \in [Slots -> Slot]
    <3>1. \A s \in Slots : [cacheptr[s] EXCEPT !.old = cacheptr[s].valid] \in Slot
      BY <1>t DEF TypeOK, Slot
    <3> QED
      BY <1>15, <3>1 DEF Unmount
  <2>3. Slotted'
    <3>1. \A s \in Slots : /\ cacheptr'[s].valid = cacheptr[s].valid
                           /\ cacheptr'[s].dirty = cacheptr[s].dirty
                           /\ cacheptr'[s].sectorno = cacheptr[s].sectorno
                           /\ cacheptr'[s].buf = cacheptr[s].buf
      BY <1>15, <1>t DEF Unmount, TypeOK, Slot
    <3> QED
      BY <1>t, <2>2, <3>1, FewerSlots
  <2>4. fn = "none" /\ UNCHANGED <<disk, stored, spoiled, fn, block, numblocks, buf, i, retry>>
    BY <1>15 DEF Unmount, callVars
  <2>5. TypeOK' /\ Requested'
    BY <1>t, <2>1, <2>2, <2>4 DEF TypeOK, Requested
  <2> QED
    BY <2>3, <2>5 DEF Shape
<1>16. CASE InvalidateOne
  <2>1. inval \in Slots /\ inval' \in 0 .. CacheSize /\ spoiled' \in BOOLEAN
    BY <1>16, <1>t, CacheAssumption DEF InvalidateOne, TypeOK, Slots, CacheAssumption, Modified
  <2>2. fn = "none" /\ UNCHANGED <<disk, fn, block, numblocks, buf, i, retry, mixed, stored>>
    BY <1>16 DEF InvalidateOne, callVars
  <2>3. cacheptr[inval] \in Slot /\ Invalid(cacheptr[inval]) \in Slot
    BY <1>t, <2>1, InvalidSlot DEF TypeOK
  <2>4. cacheptr' \in [Slots -> Slot]
    BY <1>16, <1>t, <2>1, <2>3 DEF InvalidateOne, TypeOK
  <2>5. \A s \in Slots : /\ cacheptr'[s].valid => cacheptr[s].valid
                         /\ cacheptr'[s].dirty => cacheptr[s].dirty
                         /\ cacheptr'[s].sectorno = cacheptr[s].sectorno
                         /\ cacheptr'[s].buf = cacheptr[s].buf
    <3>1. \A s \in Slots : cacheptr'[s] = IF s = inval THEN Invalid(cacheptr[s]) ELSE cacheptr[s]
      BY <1>16, <1>t DEF InvalidateOne, TypeOK
    <3> QED
      BY <1>t, <2>3, <3>1, InvalidSlot
  <2>6. Slotted'
    BY <1>t, <2>4, <2>5, FewerSlots
  <2>7. TypeOK' /\ Requested'
    BY <1>t, <2>1, <2>2, <2>4 DEF TypeOK, Requested
  <2> QED
    BY <2>6, <2>7 DEF Shape
<1>17. CASE UNCHANGED vars
  BY <1>17, <1>t DEF vars, callVars, Shape, TypeOK, Requested, Slotted, OneSlotPerSector, DirtyHoldsData
<1> QED
  BY <1>1, <1>2, <1>3, <1>4, <1>5, <1>6, <1>7, <1>8, <1>9, <1>10, <1>11, <1>12, <1>13,
     <1>14, <1>15, <1>16, <1>17 DEF Next, Read, Write, Flush

------------------------------------------------------------------------------
\* Requests of one block.

\* When requests have one block, they have no other.
LEMMA OneBlock ==
  ASSUME Simple
  PROVE  /\ 0 .. MaxBlocks - 1 = {0}
         /\ \A b \in Sectors : b \in Nat /\ b + 0 = b
         /\ \A r \in Requests : r[1] \in Sectors /\ r[1] + 0 = r[1] /\ r[2] = 1 /\ 0 .. r[2] - 1 = {0}
<1>1. MaxBlocks = 1 /\ 0 .. MaxBlocks - 1 = {0} /\ 1 .. MaxBlocks = {1}
  BY DEF Simple
<1>2. \A b \in Sectors : b \in Nat /\ b + 0 = b
  BY CacheAssumption DEF CacheAssumption
<1>3. Requests \subseteq Sectors \X {1}
  BY <1>1 DEF Requests
<1> QED
  BY <1>1, <1>2, <1>3

\* What the call under way works on.
LEMMA OneCall ==
  ASSUME Simple, IInv, fn \in {"read_block", "write_block"}
  PROVE  /\ block \in Sectors /\ i = 0 /\ numblocks = 1 /\ block + i = block
         /\ i + 1 = numblocks /\ 0 \in DOMAIN buf
         /\ fn = "write_block" => buf[0] \in Values
<1>1. i = 0 /\ numblocks = 1 /\ block \in Sectors /\ DOMAIN buf = {0}
  BY OneBlock DEF IInv, Shape, TypeOK, Calls
<1>2. fn = "write_block" => buf[i] \in Values
  BY AtWork DEF IInv
<1> QED
  BY <1>1, <1>2, OneBlock

\* Slots that need no writing may be invalidated.
LEMMA LoseClean ==
  ASSUME TypeOK, Sound, UNCHANGED <<disk, stored>>,
         \A s \in Slots : /\ cacheptr'[s].valid => cacheptr[s].valid
                          /\ cacheptr[s].valid /\ cacheptr[s].dirty => cacheptr'[s].valid
                          /\ cacheptr'[s].dirty = cacheptr[s].dirty
                          /\ cacheptr'[s].sectorno = cacheptr[s].sectorno
                          /\ cacheptr'[s].buf = cacheptr[s].buf
  PROVE  Sound'
<1>1. OneSlotPerSector' /\ Synced'
  BY DEF Sound, OneSlotPerSector, Synced
<1>2. ASSUME NEW b \in Sectors PROVE Holds(b, stored[b])'
  <2>1. \A s \in Slots : s \in Hits(b)' => s \in Hits(b)
    BY DEF Hits
  <2>2. CASE Hits(b) = {}
    <3>1. Hits(b)' = {}
      BY <2>1, <2>2 DEF Hits
    <3> QED
      BY <2>2, <3>1 DEF Sound, Current, Holds
  <2>3. CASE Hits(b)' # {}
    BY <2>1, <2>3 DEF Sound, Current, Holds, Hits
  <2>4. CASE Hits(b) # {} /\ Hits(b)' = {}
    <3>1. PICK s \in Slots : s \in Hits(b) /\ ~cacheptr'[s].valid
      BY <2>4 DEF Hits
    <3>2. cacheptr[s].buf = disk[b]
      BY <3>1 DEF Hits, Sound, Synced
    <3>3. cacheptr[s].buf = stored[b]
      BY <3>1 DEF Sound, Current, Holds
    <3> QED
      BY <2>4, <3>2, <3>3 DEF Holds
  <2> QED
    BY <2>2, <2>3, <2>4
<1> QED
  BY <1>1, <1>2 DEF Sound, Current

\* A change of the disk that drops nothing.
LEMMA ChangeData ==
  ASSUME TypeOK, Slotted, ~spoiled => Sound, DiskChange, UNCHANGED stored
  PROVE  /\ ~spoiled' => Sound'
         /\ \A b \in Sectors : Hits(b)' \subseteq Hits(b)
         /\ ~spoiled' => ~spoiled /\ \A s \in Slots : ~Modified(s)
<1>1. \A s \in Slots : /\ ~cacheptr'[s].valid
                       /\ cacheptr'[s].dirty = cacheptr[s].dirty
                       /\ cacheptr'[s].sectorno = cacheptr[s].sectorno
                       /\ cacheptr'[s].buf = cacheptr[s].buf
  BY ChangeSlots
<1>2. ~spoiled' => ~spoiled /\ \A s \in Slots : ~Modified(s)
  BY DEF DiskChange
<1>3. ~spoiled' => Sound'
  BY <1>1, <1>2, LoseClean DEF Modified, DiskChange
<1>4. \A b \in Sectors : Hits(b)' \subseteq Hits(b)
  BY <1>1 DEF Hits
<1> QED
  BY <1>2, <1>3, <1>4

\* What the flush is at must still be written, as long as nothing was spoiled.
LEMMA FlushedModified ==
  ASSUME Shape, Calls, fn = "flushcache", i < CacheSize, retry > 0 \/ Modified(i)
  PROVE  i \in Slots /\ cacheptr[i].dirty /\ (~spoiled => Modified(i))
<1>1. i \in Slots
  BY FlushedSlot DEF Shape
<1> QED
  BY <1>1 DEF Shape, Requested, Calls, Modified

\* Every step keeps the data, and every read answers with it.
LEMMA DataStep ==
  ASSUME Simple, IInv, [Next]_vars
  PROVE  Calls' /\ (~spoiled' => Sound') /\ ReadsAreCurrent'
<1> DEFINE Goal == Calls' /\ (~spoiled' => Sound') /\ ReadsAreCurrent'
<1>t. TypeOK /\ Shape /\ Slotted /\ Calls /\ (~spoiled => Sound)
  BY DEF IInv, Shape
<1>a. ASSUME UNCHANGED <<cacheptr, disk, stored, spoiled>> PROVE ~spoiled' => Sound'
  BY <1>a, <1>t DEF Sound, OneSlotPerSector, Current, Synced, Holds, Hits
<1>b. ASSUME block' \in Sectors, numblocks' = 1, ~spoiled' => buf'[0] = stored'[block']
      PROVE  ReadsAreCurrent'
  <2>1. 0 .. numblocks' - 1 = {0} /\ block' + 0 = block'
    BY <1>b, OneBlock
  <2> QED
    BY <1>b, <2>1 DEF ReadsAreCurrent
<1>1. ASSUME NEW r \in Requests, GetCache(r[1], r[2]) PROVE Goal
  <2>1. r[1] \in Sectors /\ r[1] + 0 = r[1] /\ r[2] = 1 /\ 0 .. r[2] - 1 = {0}
    BY OneBlock
  <2>2. PICK from \in [{0} -> Slots] :
          /\ from[0] \in Hits(r[1])
          /\ buf' = [k \in DOMAIN buf |-> IF k < r[2] THEN cacheptr[from[k]].buf ELSE NoData]
    BY <1>1, <2>1 DEF GetCache
  <2>3. DOMAIN buf = {0}
    BY <1>t, OneBlock DEF TypeOK
  <2>4. ~spoiled => cacheptr[from[0]].buf = stored[r[1]]
    BY <1>t, <2>1, <2>2 DEF Sound, Current, Holds
  <2>5. buf'[0] = cacheptr[from[0]].buf
    BY <2>1, <2>2, <2>3
  <2>6. /\ block' = r[1] /\ numblocks' = 1 /\ fn' = "read done"
        /\ UNCHANGED <<cacheptr, disk, stored, spoiled>>
    BY <1>1, <2>1 DEF GetCache, Begin
  <2>7. ReadsAreCurrent'
    BY <1>b, <2>1, <2>4, <2>5, <2>6
  <2> QED
    BY <1>a, <2>6, <2>7 DEF Calls
<1>2. ASSUME NEW r \in Requests, ReadBlock(r[1], r[2]) PROVE Goal
  <2>1. r[1] + 0 = r[1] /\ r[2] = 1 /\ 0 .. r[2] - 1 = {0}
    BY OneBlock
  <2>2. Hits(r[1]) = {}
    BY <1>2, <2>1 DEF ReadBlock
  <2>3. /\ block' = r[1] /\ numblocks' = 1 /\ i' = 0 /\ fn' = "read_block"
        /\ UNCHANGED <<cacheptr, disk, stored, spoiled>>
    BY <1>2, <2>1 DEF ReadBlock, Begin
  <2> QED
    BY <1>a, <2>2, <2>3 DEF Calls, ReadsAreCurrent, Hits
<1>3. ASSUME NEW r \in Requests, WriteBlock(r[1], r[2]) PROVE Goal
  <2>1. r[2] = 1
    BY OneBlock
  <2>2. /\ numblocks' = 1 /\ i' = 0 /\ retry' = 0 /\ fn' = "write_block"
        /\ UNCHANGED <<cacheptr, disk, stored, spoiled>>
    BY <1>3, <2>1 DEF WriteBlock, Begin
  <2> QED
    BY <1>a, <2>2 DEF Calls, ReadsAreCurrent
<1>4. CASE FlushCache
  <2>1. /\ fn' = "flushcache" /\ retry' = 0 /\ UNCHANGED <<disk, stored, spoiled>>
        /\ cacheptr' \in Sorted
    BY <1>4 DEF FlushCache, Begin
  <2>2. Calls' /\ ReadsAreCurrent'
    BY <2>1 DEF Calls, ReadsAreCurrent
  <2> QED
    BY <1>t, <2>1, <2>2, SortData
<1>5. CASE ReadOne
  <2>1. /\ block \in Sectors /\ i = 0 /\ numblocks = 1 /\ block + i = block
        /\ i + 1 = numblocks /\ 0 \in DOMAIN buf
    BY <1>5, OneCall DEF ReadOne
  <2>2. /\ fn' = "read done" /\ UNCHANGED <<block, numblocks, disk, stored>>
        /\ ~spoiled' => /\ ~spoiled /\ buf'[0] = disk[block]
                        /\ UNCHANGED cacheptr \/ StoreCache(block, disk[block], FALSE)
    BY <1>5, <2>1 DEF ReadOne, NextBlock
  <2>3. ~spoiled => disk[block] = stored[block]
    BY <1>5, <1>t, <2>1 DEF ReadOne, Calls, Sound, Current, Holds
  <2>4. ASSUME ~spoiled' PROVE Sound'
    <3>0. /\ ~spoiled /\ Sound /\ disk[block] = stored[block] /\ UNCHANGED <<disk, stored>>
          /\ UNCHANGED cacheptr \/ StoreCache(block, disk[block], FALSE)
      BY <1>t, <2>2, <2>3, <2>4
    <3>1. disk[block] \in Values /\ stored' = [stored EXCEPT ![block] = disk[block]]
      BY <1>t, <2>1, <3>0 DEF TypeOK
    <3>2. CASE StoreCache(block, disk[block], FALSE)
      BY <1>t, <2>1, <3>0, <3>1, <3>2, StoreData
    <3>3. CASE UNCHANGED cacheptr
      BY <3>0, <3>3 DEF Sound, OneSlotPerSector, Current, Synced, Holds, Hits
    <3> QED
      BY <3>0, <3>2, <3>3
  <2>5. ReadsAreCurrent'
    <3>1. ~spoiled' => buf'[0] = stored'[block']
      BY <2>2, <2>3
    <3> QED
      BY <1>b, <2>1, <2>2, <3>1
  <2> QED
    BY <2>1, <2>2, <2>4, <2>5 DEF Calls
<1>6. CASE ReadFails
  <2>1. block \in Sectors /\ i = 0 /\ numblocks = 1
    BY <1>6, OneCall DEF ReadFails
  <2>2. Hits(block)' \subseteq Hits(block) /\ (~spoiled' => Sound') /\ Hits(block) = {}
    <3>1. CASE DiskChange
      BY <1>6, <1>t, <2>1, <3>1, ChangeData DEF ReadFails, Calls
    <3>2. CASE UNCHANGED <<cacheptr, disk, spoiled>>
      BY <1>6, <1>a, <1>t, <2>1, <3>2 DEF ReadFails, Calls, Hits
    <3> QED
      BY <1>6, <3>1, <3>2 DEF ReadFails
  <2>3. fn' \in {"done", "read_block"} /\ UNCHANGED <<block, numblocks, i>>
    BY <1>6 DEF ReadFails
  <2>4. Hits(block)' = {} /\ Hits(block') = Hits(block)
    BY <2>2, <2>3
  <2> QED
    BY <2>1, <2>2, <2>3, <2>4 DEF Calls, ReadsAreCurrent, Hits
<1>7. CASE WriteDelayed
  <2>1. /\ block \in Sectors /\ i = 0 /\ numblocks = 1 /\ block + i = block
        /\ i + 1 = numblocks /\ buf[0] \in Values
    BY <1>7, OneCall DEF WriteDelayed
  <2>2. /\ fn' = "done" /\ StoreCache(block, buf[0], TRUE)
        /\ stored' = [stored EXCEPT ![block] = buf[0]] /\ UNCHANGED <<disk, spoiled>>
    BY <1>7, <2>1 DEF WriteDelayed, NextBlock
  <2> QED
    BY <1>t, <2>1, <2>2, StoreData DEF Calls, ReadsAreCurrent
<1>8. CASE WriteThrough
  <2>1. /\ block \in Sectors /\ i = 0 /\ numblocks = 1 /\ block + i = block
        /\ i + 1 = numblocks /\ fn = "write_block"
    BY <1>8, OneCall DEF WriteThrough
  <2>2. Hits(block) = {}
    BY <1>8, <1>t, <2>1 DEF WriteThrough, Calls, NoRoom
  <2>a. /\ fn' = "done" /\ UNCHANGED cacheptr
        /\ Leaves(block, buf[0])
        /\ stored' = [stored EXCEPT ![block] = buf[0]]
    BY <1>8, <2>1 DEF WriteThrough, NextBlock
  <2>b. ~spoiled' => ~spoiled /\ disk' = [disk EXCEPT ![block] = buf[0]]
    BY <1>t, <2>1, <2>a, LeavesSector
  <2>3. ASSUME ~spoiled'
        PROVE  \A c \in Sectors : /\ disk'[c] = IF c = block THEN buf[0] ELSE disk[c]
                                  /\ stored'[c] = IF c = block THEN buf[0] ELSE stored[c]
    BY <1>t, <2>1, <2>a, <2>b, <2>3 DEF TypeOK
  <2>4. ASSUME ~spoiled' PROVE Sound'
    <3>1. Sound
      BY <1>t, <2>b, <2>4
    <3>2. \A s \in Slots : cacheptr[s].valid =>
            cacheptr[s].sectorno \in Sectors /\ cacheptr[s].sectorno # block
      BY <1>t, <2>2 DEF Hits, TypeOK, Slot
    <3>3. OneSlotPerSector' /\ Synced'
      BY <2>a, <2>3, <2>4, <3>1, <3>2 DEF Sound, OneSlotPerSector, Synced
    <3>4. \A c \in Sectors : Hits(c)' = Hits(c)
      BY <2>a DEF Hits
    <3>5. Current'
      BY <2>2, <2>a, <2>3, <2>4, <3>1, <3>4 DEF Sound, Current, Holds
    <3> QED
      BY <3>3, <3>5 DEF Sound
  <2> QED
    BY <2>a, <2>4 DEF Calls, ReadsAreCurrent
<1>9. CASE WriteFails
  <2>1. block \in Sectors /\ i = 0 /\ numblocks = 1 /\ block + i = block /\ fn = "write_block"
    BY <1>9, OneCall DEF WriteFails
  <2>2. Hits(block) = {}
    BY <1>9, <1>t, <2>1 DEF WriteFails, Calls, NoRoom
  <2>3. Hits(block)' \subseteq Hits(block) /\ (~spoiled' => Sound')
    <3>1. CASE DiskChange
      BY <1>9, <1>t, <2>1, <3>1, ChangeData DEF WriteFails
    <3>2. CASE Leaves(block, disk[block]) /\ UNCHANGED cacheptr
      <4>1. ~spoiled' => ~spoiled /\ disk' = disk
        BY <1>t, <2>1, <3>2, LeavesSector DEF TypeOK
      <4>2. UNCHANGED stored
        BY <1>9 DEF WriteFails
      <4>3. ~spoiled' => Sound'
        BY <1>t, <3>2, <4>1, <4>2 DEF Sound, OneSlotPerSector, Current, Synced, Holds, Hits
      <4>4. block' = block
        BY <1>9 DEF WriteFails
      <4> QED
        BY <3>2, <4>3, <4>4 DEF Hits
    <3> QED
      BY <1>9, <2>1, <3>1, <3>2 DEF WriteFails
  <2>4. fn' \in {"done", "write_block"} /\ UNCHANGED <<block, numblocks, i>>
    BY <1>9 DEF WriteFails
  <2>5. Hits(block)' = {}
    BY <2>2, <2>3
  <2> QED
    BY <2>1, <2>3, <2>4, <2>5 DEF Calls, ReadsAreCurrent, Hits
<1>10. CASE Return
  <2>1. fn' = "none" /\ UNCHANGED <<cacheptr, disk, stored, spoiled>>
    BY <1>10 DEF Return
  <2> QED
    BY <1>a, <2>1 DEF Calls, ReadsAreCurrent
<1>11. CASE FlushSkip
  <2>1. fn' = "flushcache" /\ retry' = 0 /\ UNCHANGED <<cacheptr, disk, stored, spoiled>>
    BY <1>11 DEF FlushSkip
  <2> QED
    BY <1>a, <2>1 DEF Calls, ReadsAreCurrent
<1>12. CASE FlushOne
  <2>1. i \in Slots /\ cacheptr[i].dirty /\ (~spoiled => cacheptr[i].valid)
    BY <1>12, <1>t, FlushedModified DEF FlushOne, Modified
  <2>2. \A s \in Slots : /\ cacheptr'[s].valid = cacheptr[s].valid
                         /\ cacheptr'[s].sectorno = cacheptr[s].sectorno
                         /\ cacheptr'[s].buf = cacheptr[s].buf
                         /\ s # i => cacheptr'[s].dirty = cacheptr[s].dirty
    BY <1>12, <1>t DEF FlushOne, TypeOK, Slot
  <2>3. cacheptr[i].sectorno \in Sectors
    BY <1>t, <2>1 DEF TypeOK, Slot
  <2>5. /\ fn' = "flushcache" /\ retry' = 0 /\ UNCHANGED stored
        /\ Leaves(cacheptr[i].sectorno, cacheptr[i].buf)
    BY <1>12 DEF FlushOne
  <2>b. ~spoiled' => ~spoiled /\ disk' = [disk EXCEPT ![cacheptr[i].sectorno] = cacheptr[i].buf]
    BY <1>t, <2>3, <2>5, LeavesSector
  <2>6. ASSUME ~spoiled' PROVE Sound'
    <3>1. Sound /\ cacheptr[i].valid
      BY <1>t, <2>1, <2>b, <2>6
    <3>a. \A c \in Sectors :
            disk'[c] = IF c = cacheptr[i].sectorno THEN cacheptr[i].buf ELSE disk[c]
      BY <1>t, <2>b, <2>6 DEF TypeOK
    <3>2. OneSlotPerSector'
      BY <2>2, <3>1 DEF Sound, OneSlotPerSector
    <3>3. Synced'
      <4> SUFFICES ASSUME NEW s \in Slots, cacheptr'[s].valid, ~cacheptr'[s].dirty
                   PROVE  cacheptr'[s].buf = disk'[cacheptr'[s].sectorno]
        BY DEF Synced
      <4>1. cacheptr[s].sectorno \in Sectors
        BY <1>t DEF TypeOK, Slot
      <4>2. CASE s = i
        BY <2>2, <3>a, <4>1, <4>2
      <4>3. CASE s # i
        <5>1. cacheptr[s].sectorno # cacheptr[i].sectorno
          BY <2>1, <2>2, <3>1, <4>3 DEF Sound, OneSlotPerSector
        <5>2. cacheptr[s].buf = disk[cacheptr[s].sectorno]
          BY <2>2, <3>1, <4>3 DEF Sound, Synced
        <5> QED
          BY <2>2, <3>a, <4>1, <5>1, <5>2
      <4> QED
        BY <4>2, <4>3
    <3>4. Current'
      <4>1. \A c \in Sectors : Hits(c)' = Hits(c)
        BY <2>2 DEF Hits
      <4>2. \A c \in Sectors : Hits(c) = {} => c # cacheptr[i].sectorno
        BY <2>1, <3>1 DEF Hits
      <4>3. \A c \in Sectors : \A s \in Hits(c) : s \in Slots
        BY DEF Hits
      <4> QED
        BY <2>2, <2>5, <3>a, <3>1, <4>1, <4>2, <4>3 DEF Sound, Current, Holds
    <3> QED
      BY <3>2, <3>3, <3>4 DEF Sound
  <2> QED
    BY <2>5, <2>6 DEF Calls, ReadsAreCurrent
<1>13. CASE FlushFails
  <2>1. /\ fn' = "flushcache" /\ UNCHANGED <<i, stored>>
        /\ i \in Slots /\ (~spoiled => Modified(i))
    BY <1>13, <1>t, FlushedModified DEF FlushFails
  <2>2. CASE DiskChange
    <3>1. spoiled'
      BY <1>t, <2>1, <2>2, ChangeData
    <3> QED
      BY <2>1, <3>1 DEF Calls, ReadsAreCurrent
  <2>3. CASE /\ \E v \in Values : disk' = [disk EXCEPT ![cacheptr[i].sectorno] = v]
             /\ UNCHANGED <<cacheptr, spoiled>>
    <3>1. \A c \in Sectors : c # cacheptr[i].sectorno => disk'[c] = disk[c]
      BY <1>t, <2>3 DEF TypeOK
    <3>2. ASSUME ~spoiled' PROVE Sound'
      <4>1. Sound /\ Modified(i)
        BY <1>t, <2>1, <2>3, <3>2
      <4>2. OneSlotPerSector'
        BY <2>3, <4>1 DEF Sound, OneSlotPerSector
      <4>3. Synced'
        <5>1. \A s \in Slots : cacheptr[s].valid /\ ~cacheptr[s].dirty =>
                cacheptr[s].sectorno \in Sectors /\ cacheptr[s].sectorno # cacheptr[i].sectorno
          BY <1>t, <2>1, <4>1 DEF Sound, OneSlotPerSector, Modified, TypeOK, Slot
        <5> QED
          BY <2>3, <3>1, <4>1, <5>1 DEF Sound, Synced
      <4>4. Current'
        <5>1. \A c \in Sectors : Hits(c) = {} => c # cacheptr[i].sectorno
          BY <2>1, <4>1 DEF Hits, Modified
        <5>2. \A c \in Sectors : Hits(c)' = Hits(c)
          BY <2>3 DEF Hits
        <5> QED
          BY <2>1, <2>3, <3>1, <4>1, <5>1, <5>2 DEF Sound, Current, Holds
      <4> QED
        BY <4>2, <4>3, <4>4 DEF Sound
    <3>3. Calls'
      BY <2>1, <2>3 DEF Calls, Modified
    <3> QED
      BY <2>1, <3>2, <3>3 DEF ReadsAreCurrent
  <2> QED
    BY <1>13, <2>2, <2>3 DEF FlushFails
<1>14. CASE FlushGivesUp
  <2>1. fn' = "flushcache" /\ spoiled' = TRUE
    BY <1>14 DEF FlushGivesUp
  <2> QED
    BY <2>1 DEF Calls, ReadsAreCurrent
<1>15. CASE Unmount
  <2>1. fn = "none" /\ fn' = fn /\ UNCHANGED <<disk, stored, spoiled>>
    BY <1>15 DEF Unmount, callVars
  <2>2. \A s \in Slots : /\ cacheptr'[s].valid = cacheptr[s].valid
                         /\ cacheptr'[s].dirty = cacheptr[s].dirty
                         /\ cacheptr'[s].sectorno = cacheptr[s].sectorno
                         /\ cacheptr'[s].buf = cacheptr[s].buf
    BY <1>15, <1>t DEF Unmount, TypeOK, Slot
  <2>3. ~spoiled' => Sound'
    BY <1>t, <2>1, <2>2, LoseClean
  <2> QED
    BY <2>1, <2>3 DEF Calls, ReadsAreCurrent
<1>16. CASE InvalidateOne
  <2>1. fn = "none" /\ fn' = fn /\ UNCHANGED <<disk, stored>>
    BY <1>16 DEF InvalidateOne, callVars
  <2>2. \A s \in Slots : /\ cacheptr'[s].valid <=> cacheptr[s].valid /\ s # inval
                         /\ cacheptr'[s].dirty = cacheptr[s].dirty
                         /\ cacheptr'[s].sectorno = cacheptr[s].sectorno
                         /\ cacheptr'[s].buf = cacheptr[s].buf
    <3>1. \A s \in Slots : cacheptr'[s] = IF s = inval THEN Invalid(cacheptr[s]) ELSE cacheptr[s]
      BY <1>16, <1>t DEF InvalidateOne, TypeOK
    <3> QED
      BY <1>t, <3>1, InvalidSlot DEF TypeOK
  <2>3. ~spoiled' => ~spoiled /\ ~(cacheptr[inval].valid /\ cacheptr[inval].dirty)
    BY <1>16 DEF InvalidateOne, Modified
  <2>4. ~spoiled' => Sound'
    BY <1>t, <2>1, <2>2, <2>3, LoseClean
  <2> QED
    BY <2>1, <2>4 DEF Calls, ReadsAreCurrent
<1>17. CASE UNCHANGED vars
  <2>1. /\ UNCHANGED <<cacheptr, disk, stored, spoiled, fn, block, numblocks, i, retry, buf>>
    BY <1>17 DEF vars, callVars
  <2>2. Calls'
    BY <1>t, <2>1 DEF Calls, Hits
  <2>3. ReadsAreCurrent'
    BY <2>1 DEF IInv, ReadsAreCurrent
  <2> QED
    BY <1>a, <2>1, <2>2, <2>3
<1> QED
  BY <1>1, <1>2, <1>3, <1>4, <1>5, <1>6, <1>7, <1>8, <1>9, <1>10, <1>11, <1>12, <1>13,
     <1>14, <1>15, <1>16, <1>17 DEF Next, Read, Write, Flush

------------------------------------------------------------------------------
\* The driver starts with every slot invalid.
LEMMA Start == Init => Shape
<1> SUFFICES ASSUME Init PROVE Shape
  OBVIOUS
<1>1. TypeOK
  <2>1. cacheptr \in [Slots -> Slot]
    <3>1. Empty \in Slot
      BY CacheAssumption DEF CacheAssumption, Empty, Slot
    <3> QED
      BY <3>1 DEF Init
  <2>2. stored \in [Sectors -> Values] /\ disk \in [Sectors -> Values]
    BY DEF Init
  <2>3. buf \in [0 .. MaxBlocks - 1 -> Values \cup {NoData}]
    BY DEF Init, NoBuffer
  <2>4. /\ block \in Sectors /\ numblocks \in 0 .. MaxBlocks /\ inval \in 0 .. CacheSize
        /\ i \in Nat /\ retry \in 0 .. Tries
    BY CacheAssumption DEF CacheAssumption, Init, Tries
  <2> QED
    BY <2>1, <2>2, <2>3, <2>4 DEF Init, TypeOK
<1>2. Requested
  BY DEF Init, Requested
<1>3. Slotted
  BY DEF Init, Empty, Slotted, OneSlotPerSector, DirtyHoldsData
<1> QED
  BY <1>1, <1>2, <1>3 DEF Shape

\* The driver starts with nothing delayed.
LEMMA StartData == Init => Calls /\ Sound /\ ReadsAreCurrent
BY DEF Init, Empty, Calls, Sound, ReadsAreCurrent, OneSlotPerSector, Current, Synced, Holds, Hits

\* Whatever the drive does and however long the requests are, the variables
\* keep their types, the request under way stays on the disk and the slots
\* hold one sector each.
THEOREM ShapeKept == Spec => []Shape
BY Start, ShapeStep, PTL DEF Spec

\* Every variable stays in its range.
THEOREM TypeCorrect == Spec => []TypeOK
<1>1. Shape => TypeOK
  BY DEF Shape
<1> QED
  BY ShapeKept, <1>1, PTL

\* No sector is ever cached twice, not even after failures, changes of the
\* disk and invalidations in the middle of a flush's sort.
THEOREM OneSlot == Spec => []OneSlotPerSector
<1>1. Shape => OneSlotPerSector
  BY DEF Shape, Slotted
<1> QED
  BY ShapeKept, <1>1, PTL

\* The types, the calls and the data hold together in every reachable state.
THEOREM Inductive == ASSUME Simple PROVE Spec => []IInv
<1>1. Init => IInv
  BY Start, StartData DEF IInv
<1>2. IInv /\ [Next]_vars => IInv'
  BY Simple, ShapeStep, DataStep DEF IInv
<1> QED
  BY <1>1, <1>2, PTL DEF Spec

\* Until a modified slot is given up, and while fdc_rw's answers are true, slot or
\* disk, every sector holds what was written last: delayed writes, evictions,
\* flushes, the sort and transfers that fail and are tried again lose nothing, and
\* every read returns it.
THEOREM KeptSectors == ASSUME Simple PROVE Spec => []SectorsAreKept
<1>1. IInv => SectorsAreKept
  BY DEF IInv, Sound, Current, NothingLost, SectorsAreKept
<1> QED
  BY Simple, Inductive, <1>1, PTL

\* A slot that counts as written is the same as the disk, until data is spoiled.
THEOREM CleanSlots == ASSUME Simple PROVE Spec => []CleanIsOnDisk
<1>1. IInv => CleanIsOnDisk
  BY DEF IInv, Sound, Synced, CleanIsOnDisk
<1> QED
  BY Simple, Inductive, <1>1, PTL

------------------------------------------------------------------------------
\* The unmount.

\* invalidatecache's loop has left no old slot behind it.
Swept == ~mixed => \A s \in Slots : s < inval => ~(cacheptr[s].valid /\ cacheptr[s].old)

\* Filling and clearing slots makes none old, whatever their index.
LEMMA NoOlder ==
  ASSUME Swept, UNCHANGED <<inval, mixed>>,
         \A s \in Slots : cacheptr'[s].valid /\ cacheptr'[s].old => cacheptr[s].valid /\ cacheptr[s].old
  PROVE  Swept'
BY DEF Swept

\* storecache does not make a slot old.
LEMMA StoreNoOlder ==
  ASSUME TypeOK, Swept, UNCHANGED <<inval, mixed>>, NEW b, NEW v, NEW d, StoreCache(b, v, d)
  PROVE  Swept'
<1>1. ASSUME NEW s \in Slots, cacheptr' = [cacheptr EXCEPT ![s] = Filled(b, v, d)] PROVE Swept'
  <2>1. ~Filled(b, v, d).old
    BY DEF Filled
  <2>2. \A t \in Slots : cacheptr'[t] = IF t = s THEN Filled(b, v, d) ELSE cacheptr[t]
    BY <1>1 DEF TypeOK
  <2> QED
    BY <2>1, <2>2, NoOlder
<1>2. CASE UNCHANGED cacheptr
  BY <1>2, NoOlder
<1> QED
  BY <1>1, <1>2, RoomIsSlot DEF StoreCache, Hits

\* Every step leaves the slots behind the loop's index free of old ones, but for the
\* sort of a flush.
LEMMA SweptStep == ASSUME Shape, Swept, [Next]_vars PROVE Swept'
<1>t. TypeOK /\ Slotted
  BY DEF Shape
<1>1. CASE UNCHANGED <<cacheptr, inval, mixed>>
  BY <1>1 DEF Swept
<1>2. CASE FlushCache
  <2>1. UNCHANGED inval /\ (~mixed' => ~mixed /\ (inval < CacheSize => UNCHANGED cacheptr))
    BY <1>2 DEF FlushCache
  <2>2. PICK p \in Bijections : cacheptr' = [s \in Slots |-> cacheptr[p[s]]]
    BY <1>2 DEF FlushCache, Sorted
  <2>3. \A s \in Slots : p[s] \in Slots /\ cacheptr'[s] = cacheptr[p[s]]
    BY <2>2 DEF Bijections
  <2>4. inval \in Nat /\ inval <= CacheSize /\ CacheSize \in Nat
    <3>1. inval \in 0 .. CacheSize /\ CacheSize \in Nat
      BY <1>t, CacheAssumption DEF TypeOK, CacheAssumption
    <3> QED
      BY <3>1
  <2>5. inval = CacheSize => \A s \in Slots : s < inval
    BY <2>4 DEF Slots
  <2>6. CASE inval < CacheSize
    BY <2>1, <2>6 DEF Swept
  <2>7. CASE inval = CacheSize
    BY <2>1, <2>3, <2>5, <2>7 DEF Swept
  <2> QED
    BY <2>4, <2>6, <2>7
<1>3. CASE DiskChange /\ UNCHANGED <<inval, mixed>>
  BY <1>3, <1>t, ChangeSlots, NoOlder
<1>4. CASE Read
  <2>1. UNCHANGED <<inval, mixed>>
    BY <1>4 DEF Read, ReadOne, ReadFails
  <2>2. CASE ReadOne
    BY <1>t, <1>1, <2>1, <2>2, StoreNoOlder DEF ReadOne
  <2>3. CASE ReadFails
    BY <1>1, <1>3, <2>1, <2>3 DEF ReadFails
  <2> QED
    BY <1>4, <2>2, <2>3 DEF Read
<1>5. CASE Write
  <2>1. UNCHANGED <<inval, mixed>>
    BY <1>5 DEF Write, WriteDelayed, WriteThrough, WriteFails
  <2>2. CASE WriteDelayed
    BY <1>t, <2>1, <2>2, StoreNoOlder DEF WriteDelayed
  <2>3. CASE WriteThrough
    BY <1>1, <2>1, <2>3 DEF WriteThrough
  <2>4. CASE WriteFails
    BY <1>1, <1>3, <2>1, <2>4 DEF WriteFails
  <2> QED
    BY <1>5, <2>2, <2>3, <2>4 DEF Write
<1>c. ASSUME cacheptr' = [cacheptr EXCEPT ![i].dirty = FALSE], UNCHANGED <<inval, mixed>>
      PROVE  Swept'
  <2>1. \A s \in Slots : cacheptr'[s] = cacheptr[s]
                        \/ cacheptr'[s] = [cacheptr[s] EXCEPT !.dirty = FALSE]
    BY <1>c, <1>t DEF TypeOK
  <2>2. \A s \in Slots : cacheptr'[s].valid = cacheptr[s].valid /\ cacheptr'[s].old = cacheptr[s].old
    BY <1>t, <2>1 DEF TypeOK, Slot
  <2> QED
    BY <1>c, <2>2, NoOlder
<1>6. CASE Flush
  <2>1. UNCHANGED <<inval, mixed>>
    BY <1>6 DEF Flush, FlushSkip, FlushOne, FlushFails, FlushGivesUp
  <2>2. CASE FlushSkip
    BY <1>1, <2>1, <2>2 DEF FlushSkip
  <2>3. CASE FlushOne
    BY <1>c, <2>1, <2>3 DEF FlushOne
  <2>4. CASE FlushFails
    BY <1>1, <1>3, <2>1, <2>4 DEF FlushFails
  <2>5. CASE FlushGivesUp
    <3>1. CASE cacheptr' = [s \in Slots |-> [Invalid(cacheptr[s]) EXCEPT
                              !.dirty = IF s = i THEN FALSE ELSE @]]
      <4>1. \A s \in Slots : Invalid(cacheptr[s]) \in Slot /\ ~Invalid(cacheptr[s]).valid
        BY <1>t, InvalidSlot DEF TypeOK
      <4>2. \A s \in Slots : ~cacheptr'[s].valid
        BY <3>1, <4>1 DEF Slot
      <4> QED
        BY <2>1, <4>2, NoOlder
    <3> QED
      BY <1>c, <2>1, <2>5, <3>1 DEF FlushGivesUp
  <2> QED
    BY <1>6, <2>2, <2>3, <2>4, <2>5 DEF Flush
<1>7. CASE Unmount
  <2>1. inval' = 0 /\ \A s \in Slots : ~(s < 0)
    BY <1>7, CacheAssumption DEF Unmount, Slots, CacheAssumption
  <2> QED
    BY <2>1 DEF Swept
<1>8. CASE InvalidateOne
  <2>1. inval' = inval + 1 /\ inval \in Slots /\ UNCHANGED mixed
    BY <1>8, <1>t, CacheAssumption DEF InvalidateOne, TypeOK, Slots, CacheAssumption
  <2>2. \A s \in Slots : cacheptr'[s] = IF s = inval THEN Invalid(cacheptr[s]) ELSE cacheptr[s]
    BY <1>8, <1>t DEF InvalidateOne, TypeOK
  <2>3. ~cacheptr'[inval].valid
    BY <1>t, <2>1, <2>2, InvalidSlot DEF TypeOK
  <2>4. \A s \in Slots : s < inval + 1 => s < inval \/ s = inval
    BY <2>1 DEF Slots
  <2> QED
    BY <2>1, <2>2, <2>3, <2>4 DEF Swept
<1>9. CASE \E r \in Requests : GetCache(r[1], r[2]) \/ ReadBlock(r[1], r[2]) \/ WriteBlock(r[1], r[2])
  BY <1>1, <1>9 DEF GetCache, ReadBlock, WriteBlock
<1>10. CASE Return \/ UNCHANGED vars
  BY <1>1, <1>10 DEF Return, vars
<1> QED
  BY <1>2, <1>4, <1>5, <1>6, <1>7, <1>8, <1>9, <1>10 DEF Next

\* When invalidatecache is through, no slot that was valid at its start still is,
\* unless a flush sorted the slots under its loop.
THEOREM InvalidatedSlots == Spec => []InvalidatesAll
<1>1. Init => Swept
  BY DEF Init, Empty, Swept
<1>2. Shape /\ Swept /\ [Next]_vars => Swept'
  BY SweptStep
<1>3. Shape /\ Swept => InvalidatesAll
  <2>1. ASSUME Shape PROVE \A s \in Slots : s < CacheSize
    BY CacheAssumption DEF CacheAssumption, Slots
  <2> QED
    BY <2>1 DEF Swept, InvalidatesAll
<1> QED
  BY ShapeKept, <1>1, <1>2, <1>3, PTL DEF Spec
==============================================================================
