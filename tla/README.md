# Verification of the ICS-OS (DEX32) kernel

TLA+ models of the kernel under `src/ics-os/kernel`, checked with TLC on small
instances and, for most of the safety properties, proved with TLAPS for every
value of the constants. Paths below are relative to that directory.

## The system

ICS-OS is a 32-bit x86 teaching kernel for one processor. Its parts are C files
that `kernel32.c` includes into one image; a process enters them by a call (the
kernel's own threads) or through the system call table (`dexapi/dex32API.c`).
Three facts decide what can interleave with what:

- The timer preempts a process at any instruction (`timer_handler`, int 0x20),
  unless interrupts are off (`dex32_stopints`) or task switching is
  (`disable_taskswitching`). The build uses no optimisation, so a statement on a
  shared variable is a load and a store.
- Kernel threads run with interrupts on. System calls of user processes come
  through an interrupt gate and run with interrupts **off**, like the interrupt
  handlers and the task switcher. They are atomic, unless the file system turns
  interrupts on; but one that waits in a loop for another process waits for ever.
- Mutual exclusion is the re-entrant spin lock of `process/sync.c`, or a flag
  tested in a loop, or nothing. There are no queues of waiting processes.

### Components

| component | state | operations | hard | correct when |
| --- | --- | --- | --- | --- |
| Locks `process/sync.c` | owner, count | `sync_entercrit`, `sync_leavecrit`, `sync_justwait` | the test and the store of the owner can be separated | exclusion, the count is the nesting, a free lock is clean, spinning ends |
| I/O manager `iomgr/iosched.c` | the list of requests, their status, forceflush | `dex32_requestIO`, `dex32_IOcomplete`, `dex32_closeIO`, the disk manager thread | clients push while it unlinks; batches with task switching off | no request is lost, served twice or after it was freed; each is answered; delayed writes are flushed |
| Floppy cache `hardware/floppy/floppy.c` | the slots, the disk | `read_block`, `write_block`, `getcache`, `flushcache`, `invalidatecache` | eviction, full cache, failing transfers, unmount in between | slot or disk, a sector holds what was written last; one slot per sector |
| Floppy controller (same file) | motor, its countdown, the current track, the done flag | `fdc_rw`, `seek`, `recalibrate`, `waitfdc`, the IRQ 6 and timer handlers | an interrupt after its time-out, the motor's timer | a command reads its own result; the motor is on during a transfer and off in the end |
| Process manager `process/process.c`, `scheduler.c` | the ring of control blocks, sigterm | create, exit, kill, sleep, wait, list, the task switcher | creations and kills from processes, handlers and the task switcher | the ring is whole, the CPU goes to live blocks, nobody starves, requests to kill are served |
| Messages `process/process.c` | a ring in each control block | `sendmessage`, `getmessage`, `broadcastmessage` | senders in processes and in the task switcher, a full ring | each message is taken once and in order |
| Dispatcher `process/pdispatch.c` | the list of requests, `pd_busy` | `addmodule`, `process_dispatcher`, `pd_ok`, `pd_forkmodule` | several consoles ask at once | each request is answered once |
| Open files `vfs/vfs_core.c` | the handles, counts and locks of files, `vfs_busy` | `openfilex`, `createfile`, `fclose`, `fdelete`, `closeallfiles` | most of it runs outside the lock; killed owners | a file has one writer; counts and locks agree with the handles |
| Buffers `vfs/vfs_core.c` | position, buffer, its place, what it holds, whether it was written | `fread`, `fwrite`, `fseek`, `fflush`, `vfs_setbuffer` | a buffer over a device that is also written directly, a size that lags behind the buffer, a full file system | buffer or disk, a position holds what was written last; a read sees it |
| Directories and mounts `vfs/vfs_core.c`, `vfs_aux.c` | the nodes in memory, the entries on the disk, the mount points | create, delete, rename, mkdir, rmdir, mount, unmount | every call waits for the disk in the middle, without a lock | memory and disk agree; a device is mounted once |
| FAT `filesystem/fat12.c` | the FATs and directories on the disk, loaded copies | grow, truncate, delete, find free clusters, read, write | a crash or another writer between the FATs' writes | chains do not cross; an allocated cluster belongs to one file |
| CDs `filesystem/iso9660.c` | nothing of its own | read descriptors, directories, files | requests that fail; records that end a sector | each file is shown once |
| Memory `memory/dexmem.c` | the stack of free frames, page directories | commit, `sbrk`, page faults, the loader, freeing a process | freeing what is still mapped, the empty stack, a shared window | a frame has one owner |
| Extensions, heap `devmgr/extension.c`, `memory/kheap.c` | the flag, the allocator in use | `extension_override`, `malloc`, `free` | two consoles at once, a refusal | a block goes back to its allocator |
| Environment `process/environment.c` | a list, a flag | `env_setenv`, `env_getenv`, `env_showenv` | two consoles at once | a variable is there once |
| Keyboard, consoles `hardware/keyboard`, `console/*.c` | a ring of keys, slots, screens | the handlers, `getch`, `fg_register`, `fg_exit`, `Dex32PutC`, the foreground manager | the handler runs between any two instructions | keys come in order to the console shown; text is where its console is |
| Clock `stdlib/time.c` | counters, the date | the timer's handler, `getdatetime` | the chip goes on while it is read | the time shown follows the chip's |
| Devices, loaders, system calls, start-up, drivers | tables, registers | | no concurrency of their own, or vendored | |

How they interact: a process opens a file (VFS), the file system (FAT) asks the
I/O manager for blocks and polls until its request is answered; the disk manager
thread calls the driver (floppy cache, then controller). Closing a file only
sets forceflush; the disk manager flushes when its list is empty. A console
starts a program by a request to the dispatcher, which runs in the kernel process
(pid 0), loads it through the VFS and creates the process; the console polls
until the pid has left the ring. The keyboard's handler writes sigterm, sends
messages, switches and creates consoles; the task switcher carries out sigterm,
sends the handler's message and runs the scheduler.

## Modules

| module | models | state and actions |
| --- | --- | --- |
| `SyncVar` | `process/sync.h` | the record `[busy, wait]` and what entry and exit do to it, used by every module with a lock |
| `SyncLock` | `process/sync.c` | one action per load, store and test of entry and exit; `stolen` records a store of the owner over that of another |
| `IoService` | the promise of the I/O manager | a stage per client: none, submitted, answered |
| `IoScheduler` | `iomgr/iosched.c` | clients: `EnterCrit`, `CachedRequest`/`QueueRequest`, `IOcomplete`, `CloseIO`, `AskFlush`; disk manager: `Look` to `UnlinkNext` are `IOmgr_obtainjob`, statement by statement where the list is half linked, then the batch and the idle flush. Refines `IoService` |
| `FloppyCache` | the cache half of `floppy.c` | the slots and the disk; one action per block of a request, per slot of a flush, per slot of the invalidation; a transfer succeeds or fails, and what `fdc_rw` says of it need not be true: `spoiled` |
| `FloppyDrive` | the controller half of `floppy.c` | `fdc_rw` from motor to result, `seek`, `recalibrate`, `waitfdc`, the handler of IRQ 6 and that of the timer; `odd` records late answers and time-outs |
| `Tasks` | `process/process.c`, `scheduler.c`, with the parts of `console.c`, `pdispatch.c` and `keyboard.c` that create, kill and wait | the ring, the phase of each process, what the task switcher is about; one action per call, or per part of it between preemption points. `changed` are the listers whose ring was changed after they counted it by someone the lock let by |
| `Dispatcher` | `process/pdispatch.c` | the nodes, the steps of the askers and of the dispatcher; `forgotten` are requests nobody will look at, `wrong` the faults |
| `Messages` | the messages of `process.c` | rings, heads, tails, counts; a sender tests in one step and stores in another; `pending` is what was sent and not taken |
| `OpenFiles` | the list of open files in `vfs_core.c` | handles, counts, locks, `vfs_busy`; a step per part of a call that can be preempted; `faults` |
| `FileBuffer` | `vfs_core.c`, one handle | the file, and the `file_PCB`'s position and buffer; one action per path through `vfs_readchar` and `vfs_writechar` (a byte each) and per other call. `stored` is what was written last at each position, `sound` how much of the front of the buffer was given to it, `spoiled` that it claimed more, or that a flush failed |
| `Directories` | one directory of the VFS | nodes in memory, entries on the disk, the steps of each call before and after its wait for the disk; on a FAT disk or a CD; `dirHarm` |
| `Volumes` | mounts, with the locks of devices | mount points, marks, open files, working directories; `volHarm` |
| `FatChains` | the tables and the directory of a FAT12 volume | an operation loads the table, changes its copy and the directory, and writes directory, first and second table; a deletion marks its slot before it loads, a creation takes a slot after; crashes between; `damage` |
| `FatTransfer` | the reading and writing of a FAT file | how a transfer is cut into one piece per cluster |
| `Cdrom` | `iso9660.c` | the descriptors, the records of a directory, a file; `clouded` |
| `FrameStack` | `dexmem.c` and its callers | the stack, directories, tables and pages, the loader statement by statement where it can be preempted; `harm` |
| `Extensions` | `extension.c`, `kheap.c` | the flag, the allocator in use, the blocks in order of address; `overtaken`, `refused`, `strayed` |
| `Environment` | `environment.c` | the list, the flag, the steps of a set; `envHarm` |
| `Keyboard` | the key ring, slots of consoles | the handler's actions, `keyboard_wait`, `deq` statement by statement, registering and leaving; `kbHarm` |
| `Screens` | `dex_DDL.c`, `foreground.c` | pointers, modes, whether a picture is whole; a store comes after the read of its pointer; `smudged` |
| `Clock` | `time.c` | the date shown, the chip, a reading register by register; `clockHarm`. `MaxLag` is how far the clock may fall behind |
| `MC*` | | constants for TLC, and several modules side by side |
| `*Proofs` | | the theorems |

A control block, a request and a client are named by model values; the name of
a control block is its pid, and `NoPid`, the value 0 of a free lock, is also the
pid of the kernel process, as in the code. Definitions called mutants in a
comment are faults of the kind the properties must catch; the specification does
not use them.

**Auxiliary records of faults.** Much of the code is not safe against every
interleaving. Where that is so, the step at which it goes wrong records it in one
of the variables `stolen`, `changed`, `mixed`, `spoiled`, `faults`, `damage`, `odd`,
`wrong`, `lost`, `harm`, `dirHarm`, `volHarm`, `kbHarm`, `clockHarm`, `envHarm`,
`clouded`, `smudged`, `overtaken`, and the property of the module is a promise
about the time before. In most modules the model stops there, because what
follows is the use of freed memory or of a torn list. So each property says two
things: these are the only ways in which the code fails, and it is right until
then. The hazards in `PROJECT.json` say where in the code each way is. `malloc`
gives out any free object; memory never set holds any value.

**What the composition assumes.** `IoScheduler`, `Tasks` and `OpenFiles` take the
lock in one step (`SyncVar`), although `SyncLock` shows that its test and store can
be separated. `ExclusionUnlessStolen` says that this window is the lock's only
defect, and the theorem `LockInOneStep` that outside it the instructions of `sync.c`
do implement the one-step lock; so the properties of those modules are those of the
kernel outside that window.
`FloppyCache` runs one call at a time because the disk manager turns task
switching off around it (`BatchIsExclusive`); only the invalidation by an
unmount runs in another process. (The dump of a page fault turns task switching
on again, `hardware/exceptions.c:176`, and so ends a batch early; this is left
out.) `FloppyDrive` has one call at a time for the same reason. `FileBuffer`
takes the calls with a handle one after another, because a handle belongs to one
process, and a file system that does what it is told or has no room. `FatChains`
has one operation on the contents of a file at a time, which `OpenFiles` grants. This
says nothing of the slots of the directory: one that a deletion has marked may be taken
by a creation before the deletion goes on.

## Runs

Modules that share no variable are checked side by side in one run: a behaviour
of the run is a behaviour of one of them (`part`, which Init chooses) while the
others stay as they began. TLC's states are then the sum, not the product, and
what a run shows of a part is what a run of that module alone would show.

| run | checks | bounds |
| --- | --- | --- |
| `lock_sound` (`MCLocks`) | *Lock*: as long as no owner's pid was overwritten: exclusion, count = nesting, a quiescent lock is free; every spinner gets in. *Open files*: list, counts, locks and `vfs_busy` agree, no file is deleted under its writer; `vfs_busy` is given back. *Environment*: no variable twice. *Extensions*: every block goes back to its allocator, every use ends | 3 processes, nesting 2: two contend and a third comes in between; 2 is the least nesting at which an inner exit differs from an outer one. TLC stops at a theft: every property is about the time before. 2 processes (one a user process), 2 names (one invalid), 2 nodes, 2 handles. 2 setters, 2 variables. 2 overriders, 2 allocators, 1 other device, 2 blocks |
| `lock_race` | finds `MutualExclusion` violated | 2 processes |
| `io_queue` (`MCQueues`) | *Disk*: the list is a doubly linked list of the pending requests; none is lost, served twice or after it was freed; a batch is exclusive. *Frames*: none is lost or has two owners. *Messages*: once and in order. *Clock*: follows the chip. *CD*: files are shown once and read right | 3 clients: a job can be first, in the middle and last; blocks on both sides of the last one. 2 programs, 10 frames, fewer than both take while one is loaded, 3 loads. A receiver and a kernel thread as senders, a ring of 3. A clock with minutes of 2 seconds, hours of 6, days of 2 hours, for 60 seconds from three dates: the end of a year, a leap day, the end of a leap year; a second of 3 ticks in 2 parts, so that what it loses is not a whole number of seconds and the rounding of `MaxLag` matters. Directories of up to 3 records of 2 or 3 bytes in sectors of 4, a file of 5 bytes, up to 3 further descriptors |
| `io_service` | answers are final; each request is answered; delayed writes are flushed once clients are quiet; `IoService` is implemented | 2 clients, cached and uncached device, one without `write_block`, failures |
| `io_kernel` | finds `JobIsLive` violated with the kernel process among the clients | 3 clients, one of them pid 0 |
| `floppy` (`MCDrive`) | *Cache*: no sector is cached twice; until a modified slot is given up or `fdc_rw` says what is not so, no write is lost and reads are current; after an unmount's invalidation no slot of before is valid, unless a flush sorted the slots during it. *Drive*: what `fdc_rw` returns is true and the motor is on when needed, until an answer is late or four seeks fail; a call comes back, the motor goes off | 2 slots, 3 sectors, 2 values, requests of one block; transfers fail and are tried again, disks change, file systems are unmounted. The cache fills up and evicts: slot 0, which `getcand` never gives away once all slots are in use, and one other. `spoiled` records that a modified slot was invalidated or given up after three failures, from when on data is lost by design of the code, or that a transfer did not do what `fdc_rw` said of it; `mixed` that a flush moved slots while the invalidation ran. 3 tracks, of which a seek can end on a wrong one; waits of 2 ticks, the motor's of 4 |
| `floppy_multi` | finds `NothingLost` violated | requests of 2 blocks |
| `file_buffer` (`MCFiles`) | *Buffer*, until `spoiled`: no byte written is lost, reads are current, the size counts the bytes on the disk, the position is in the file or at the end of what waits; always: a flush finds its place. *Transfer*: each byte goes to its place and no other. *Volume*: chains are sound after every write and crash, nothing leaks, until `damage` is recorded. | a file of 3 bytes in units of 2, buffers of 1 and 2 bytes, large transfers of 2, bytes that are a line end or not. Buffers start in, at and behind the last byte and are left on both sides; files grow over a unit's end, with room or without. 4 clusters of 2 bytes. 2 writers, 2 files, clusters 2 to 4 and one behind the device, 1 crash; writers, and files, are symmetric |
| `tasks` (`MCCalls`) | *Ring*: it is whole, the CPU goes to live blocks, a list has the processes that were counted, unless someone changed the ring whom the lock lets by. *Dispatcher*: an answer is the asker's own. *Directory*, *mounts*: memory, disk and marks agree. *Keyboard*: keys wait in order, a console has its slot. *Screens*: nothing drawn is lost | kernel, a console, a user process and a user thread; sleeps of 1. Four blocks: the head, the block that ran, the one that is killed and the one behind it can all differ. 2 askers, 3 nodes. 2 walkers, 2 names, 3 nodes. 2 mounters, 2 devices, 2 places, 3 mount nodes. 3 consoles for 3 slots, of which one is the kernel's; a ring of 3. 2 consoles and the manager. The two walkers, who are also the two mounters, are symmetric: nothing tells them apart |
| `tasks_live` (`MCProcesses`) | nobody starves, exits end, consoles go on; a request that was not overtaken is answered | kernel, a console, a user process; 2 askers, 2 nodes |
| `tasks_hang` | finds `KillIsServed` violated | the same, without the dispatcher |
| `tasks_sleep` | finds `SleepersWake` violated | the same |

`CHECK_DEADLOCK` is on everywhere. A machine that spins with interrupts off is a
state of `Tasks` (`cpu = "spin"`) that steps to itself, and a part whose fault was
recorded steps to itself.

### Fairness

A joined run states the fairness of each part for the behaviours of that part
only: the fairness of `lock_sound` and `tasks_live` is a disjunction over `part`,
and in `floppy` an action of the part that does not run is never enabled. Runs
without a liveness property state none.

- `SyncLock`: every process runs again and again (round robin) and pairs its
  entries with exits; a process that spins gets a slice while the lock is free
  infinitely often, if the lock is free infinitely often (strong fairness of
  `Test`). The timer is not synchronised with critical sections of a few
  instructions, so it does not hit the owner inside each time.
- `OpenFiles`: a process inside a call goes on (weak). Nobody has to begin one.
- `Extensions`: who uses an extension goes on (weak) and finds the flag clear if it
  is clear again and again (strong), as for the lock.
- `IoScheduler`: weak fairness of the disk manager and of each client that has a
  request, strong fairness of the acquisitions for the same reason. Nobody is
  obliged to make a request. `StartFlush` is strongly fair because it stands for
  `flush_time` passing.
- `FloppyCache`: none. `fdc_rw` tries a failing transfer again without end while seeks
  succeed (`floppy.c:644` resets its counter), so nothing says that a call returns.
- `FloppyDrive`: the driver goes on and the timer ticks. The controller owes no answer. A
  transfer that is to be tried again counts as an end for `DriveComesBack`.
- `Tasks`: the timer fires, the task switcher goes on, and kernel code that has
  begun something continues when it has the CPU. The liveness properties that
  hold assume that no one spins with interrupts off (`NoSpin`); `tasks_hang` is
  what happens otherwise. User processes owe nothing.
- `Dispatcher`: the dispatcher and the askers go on (weak); who waits for `pd_busy`
  finds it clear if it is clear again and again (strong).

## What is proved

The `*Proofs` modules prove safety for every value of the constants: any sets of
processes, clients, names, nodes, tracks or programs, any number of slots, frames
and messages. They assume only the `ASSUME`s of the modules (that pids differ from
`NoPid`, that the kernel is a process, that the sets whose members are counted are
finite, that the motor's time is twice a command's, ...), which TLC evaluates in
the runs, and where a theorem says so `UserClients` (the kernel process is not a
client of the I/O manager) or `Simple` (requests of one block); `io_kernel` and
`floppy_multi` show that it fails without. Each argument is an inductive
invariant that is stronger than the property:

- **`SyncLockProofs`**: `Exclusion`, `Counting`, `TypeCorrect` and `LockInOneStep`, of
  the lock. The invariant adds which phase owns what, above all that the register of a
  process between the load and the store of `wait` still equals `wait`: the
  preemptible increment is harmless. `LockInOneStep` is the refinement: `SeenLock` is
  the lock as the other processes can tell it (the owner, and how deep it is in, an
  entry counting from the store of `busy`, an exit from its last instruction), and
  until a theft each instruction either enters or leaves `SeenLock` once, as `SyncVar`
  does it in one step, or leaves it as it is.
  `SoundClock`, of the clock: an invariant that compares seconds is not inductive,
  because the lag changes in the middle of a second, so it is measured in ticks
  (`Behind`): neither a tick nor a second of the chip changes it, and each second shown
  adds the same (`LostEach`). The clock is set when a full second of the handler ends,
  which is always the same number of ticks into the chip's second (`Phase`). `Follows` then
  says what has been lost since: outside the minutes in which the clock is set, so much
  for each second; in one of them, that no second or one was shown since the last setting,
  or that there was none yet and the minute has just begun. `Owes` adds the day that is
  owed in the first second after midnight. The calendar is `CountsDays` (what `time()`
  counts, in days and in the day), `DayAfterCounts` and `SecondAfterCounts`; that a
  reading through BCD and two digits gets the chip's time (`GetsTheTime`) holds until
  2079, hence the bound on `LastSecond`. The attempt showed that `MaxLag`, rounded down
  as it was first, is exceeded when the loss is not a whole number of seconds (3 ticks
  in 2 parts, as in `io_queue`, where TLC finds it); it is rounded up. For the 100 ticks
  of `kernel32.c:61` the loss is 540 seconds, and `MaxLag` is 541.
- **`IoSchedulerProofs`**: `LiveJob`, `NoneLost`, `ExclusiveBatch`,
  `FinalAnswers`, `QueueInOrder`, `KeepsService`, `TypeCorrect`. `IInv` has five
  parts: types; `Locking` (who holds the lock and how often in each phase);
  `Phases` (a client's phase and its status); `Accounts` (pending = queued +
  taken); `Links` (the list is doubly linked, also between the three statements
  that unlink a node, where this holds of the links as they were). `QueueInOrder`
  is about walking the list, which the links alone do not give: some arrangement
  of the requests in a sequence (`Ordered`) agrees with the links, and each step is
  given the sequence that agrees after it. That the walk from the head visits
  exactly the sequence follows by the least position at which the two would
  differ. `KeepsService` maps the phases to the stages of `IoService`: initial
  states to initial states, each step to a step or a stutter. That the fairness
  of the one implies that of the other stays with TLC (`ImplementsService`).
- **`FloppyCacheProofs`**: `OneSlot`, `InvalidatedSlots` and `TypeCorrect` for
  requests of any length, with failures, changed disks and unmounts: a free or evicted
  slot is only filled when no valid one has the sector, and the sort moves whole
  slots. `InvalidatedSlots` needs that the loop has left no old slot behind it
  (`Swept`): only the sort moves one there. `KeptSectors` and `CleanSlots`, for
  requests of one block, until a modified slot is given up and while `fdc_rw`'s
  answers are true. They need each other: a read is current because a clean slot is
  the disk, and a write keeps that because its sector has one slot.
- **`FileBufferProofs`**: `KeptBytes`, `ExactPlace`, `TypeCorrect`, of a handle,
  `ExactTransfers` and `SoundVolume`, of the FAT below, and `ShownFiles`, of the CD.
  `Shape` holds
  whatever happens: the buffer starts in the file, its contents fit into it, only
  a buffer with contents is marked as written. `Content` holds until `spoiled`: the
  first `sound` bytes of the buffer are the file's, it claims no more, and the disk
  lacks only what it holds. So a flush makes the disk equal to what was written
  (`FlushContent`), and each path that moves, fills or drops the buffer begins
  with one. For `ExactTransfers` what the code counts from piece to piece, a recursive
  function, is shown to be `PieceFor`, which names the piece of a block outright: the
  least block where they differed would follow one where they do not (`HasLeast`,
  `PiecesAre`). Then a byte's piece and place are arithmetic (`PieceHas`), and so is
  what a read leaves that counts its blocks from 0 (`PlainSource`, `PlainCopies`).
  `ShownFiles` needs where a directory's records are, a recursive function too: it
  exists (`PlacesExist`) and rises from record to record (`OffsetsRise`), both by the
  least element, so the byte the driver has come to is a record's for at most one
  record, the next (`NextRecord`). Hence the nodes are those of the first records that
  follow each other (`NodesFit`), and if the directory is one sector, of all of them.
  `SoundVolume` rests on three facts about chains. A chain is the least set with the
  first cluster that the table does not lead out of (`ChainLeast`); it is sound just if
  the table leads on from each of its clusters and no part of it is a circle
  (`SoundStays`, `SoundEnds`, `SoundIf`, which needs the pigeonhole principle, as a chain
  is followed for as many steps as there are entries); and tables that agree on a chain
  have the same one (`SameChain`). So what linking and cutting do is a matter of sets
  (`LinkedSound`, `LinkedNew`, `CutIs`). The invariant adds to the property what each
  process is about to write: a table that is not older than the one on the disk gives
  the file a sound chain and leaves alone those of the others (`CopyFits`), whatever the
  others have changed in the directory (`DirsFit`). An older one cannot be written
  without being recorded, so nothing is said of it. Lost clusters are counted among
  those that someone is giving back (`LeaksFit`); a slot that is marked keeps its chain
  until the deletion cuts it (`Kept`), until the machine stops or a process is
  bound to write an older table (`Doomed`). TLC checked this invariant first, on the two
  writers and two files of `MCFiles`.
- **`TasksProofs`**: `WholeRing`, `LiveCpu`, `OnceCreated`, `WholeList`,
  `TypeCorrect`. The ring is whole when it is linked both ways and every set
  closed under the links contains the kernel. `LiveCpu` needs `BehindLast`: the
  block after the one that ran last is alive even when that one has just been
  freed, because `sched_dequeue` leaves the links of the removed block alone.
  `OnceCreated` needs that one loader runs at a time, `WholeList`
  that the lock is a lister's for as long as it looks, however often it was entered
  (`Locking`, where the kernel process holds nothing: its pid is that of a free lock), so
  that whoever changes the ring meanwhile is one of those the lock lets by, or did not ask.
- **`SharedListsProofs`**: `AgreedAllocators`: besides the blocks' own allocators
  the invariant says who is past the flag. `SoundEnvironment`: one node per variable
  needs that at most one console is between its search and its insertion
  (`OneSetter`), and that what a search has found stays found while nodes are added
  in front of it (`FoundStands`). `AgreeingFiles`: as long as
  no fault is recorded, `CallsStand` says for every place of every call what it may
  count on (the handle it found is still on the list, the file's count is what it
  read, ...). The counts and locks lag behind the list between the two steps of
  `fclose` and run ahead of it in `openfilex`, so `CountsFit` and `LocksFit` count the
  handles that are past a test or not yet unlinked with those on the list; `HandlesFit`
  says which handles can be so at the same time, and `BusyFits` who `vfs_busy` keeps
  out.
- **`CallsProofs`**: `SoundDispatch`: the head of the queue is always a node that a
  requester added and that is not answered (`HeadIsNew`), and a node's answer is its
  asker's own or an error (`NodesAnswer`). `SoundMounts`: a device's mark, its mount
  point and the directories below stand and fall together (`OnePlace`,
  `OneMount`, `PointsStand`); that the list has room for every process that
  mounts is a count (`RoomForAll`). `SoundKeyboard`: between `in_ptr` and
  `out_ptr` are the keys that wait, around the ring (`KeysWait`), one console is
  inside `deq` (`OneReader`), and the console shown has a slot (`ConsolesStand`).
  The least number of a set (`Highest`, `Lowest`) replaces induction where `fg_next`
  and `fg_prev` search the slots.
  `SoundDirectory`: as long as no fault is recorded, what a walker may count on
  depends on its place and its call (`CallFits`): the node it makes has no entry and is
  still allocated, the one it takes away is off the list (`NodeIsHeld`), and no two
  walkers have the same one (`Apart`). `ListFits` adds what the property does not say,
  that listed nodes have names and different ones, and what a name has on the disk
  changes by the one entry that a step writes. Reading the
  directory turns a set of names into a list of as many nodes (`ReadListIs`), for which
  there has to be memory: `Cardinality(FileNames) <= Cardinality(DirNodes)`.
- **`DevicesProofs`**: `SoundDrive`: the driver's place determines what it may
  believe of drive and controller (`WorkIsKnown`), tries are counted
  (`TriesAreCounted`), and the motor's countdown outlasts the longest wait
  (`MotorLasts`, from `MotorTicks >= 2 * WaitTicks`). `OrderedMessages`: head, tail
  and count of each ring agree with what is pending around the ring
  (`RingsAgree`), with a message in each sender's hands (`HandsAreFull`); the count
  cannot pass the ring by more than the senders there are (`RoomForSenders`), which
  is why they are finitely many. `AccountedFrames`: the stack, directories, tables,
  pages and the kernel's share are disjoint and together all frames
  (`SharedOut`), also in the middle of a load (`LoaderIsAt`). `SoundScreens`: who
  has read which pointer (`PointersAreUsed`), what is whole where
  (`ConsolesAreWhole`), and where the manager is in its copy (`ManagerIsOut`).

Proved but not checked by a run of their own: the type invariants, `CleanSlots`,
`OnceCreated`, `LockInOneStep`, and `JobIsLive`, which only appears in a run that refutes it for the
kernel process.

Only model-checked:

- liveness, and the fairness half of `ImplementsService`, which need `ENABLED`.

Every invariant and action property of the passing runs is a theorem.

## Where the code does not do what it says

Each of these is a run that ends in a counterexample:

1. `lock_race` (`process/sync.c:21`): a process preempted between the test and the
   store of `busy` enters beside the owner.
2. `io_kernel` (`process/sync.c:18`): the kernel process has pid 0, which means
   "free", so its lock excludes nobody; the disk manager can take an answered
   request off the list again.
3. `floppy_multi` (`hardware/floppy/floppy.c:568`): a read of several blocks of
   which one is missing stores the disk's contents over delayed writes.
4. `tasks_hang` (`process/process.c:745`): the task switcher waits with interrupts
   off for a lock whose owner it should run.
5. `tasks_sleep` (`process/scheduler.c:42`): passing over a sleeper counts down the
   sleep of the block after it, so a lone sleeper never wakes up.

Visible in the models, as recorded faults or as what the code does, without a run
of their own:

- `flushcache` returns the result of the last slot only (`floppy.c:132`), so
  `iosched.c:52` does not report a failed sector before it.
- `vfs_unmount` invalidates the cache, modified slots included; `fclose` before it
  only asks for a flush (`vfs_core.c:537`, `1296`). A flush that sorts the slots
  under the invalidation moves valid slots below its index (`floppy.c:123`, `60`).
- `iosched.c:4` says first come, first served; the disk manager takes the nearest
  block (212). Delayed writes are flushed only when the list is empty (72).
- `vfs_writechar` takes a position inside the buffer's room for one inside its
  contents (`vfs_core.c:327`): open a file for reading and writing, seek to 1 and
  write a byte, and the flush also writes byte 0, from memory that was never set.
  A large `fwrite` leaves a buffer filled by a read in place (1252), so later reads in
  it are stale. `vfs_flushbuffer` drops the result of `vfs_directwrite` and the
  bytes (375): `fclose` returns 0 on a full disk. In `FileBuffer` these three set
  `spoiled`. `fseek` cuts a position off at the size on the disk, which a buffered
  append has not changed (1026), and a read there returns nothing (257). `fwrite`
  does not look at the mode of the handle.
- `dex32_wait` loops with interrupts off (`process.c:1040`). `kill_children` (849)
  compares a block with itself: the threads of a killed process stay on the ring.
  A kernel thread is never killed: 758 passes a pointer for a pid.
- `get_processlist` counts the blocks and copies them under the lock, which is re-entrant
  and free to pid 0, and `createuthread` does not take it: a kill or a console made in the
  lister's name changes the ring in between, and the list lacks a process or has no end
  (`process.c:951`, `957`).
- `fdc_rw` uses one counter for seeks and transfers (`floppy.c:644`): a failing transfer is
  tried again for ever while seeks succeed; after three failed seeks a transfer that failed
  is reported as done and one that worked as failed.
- `fat_deletefile` marks its slot (`fat12.c:923`), waits for the table (929) and marks it
  again (949): a file created in the wait takes the slot, the old file's clusters are never
  given back (937), and the new file's entry is erased. `damage` has "slot retaken",
  `dirHarm` "slot".
- `mkvirtualdir` searches for the name (`vfs_core.c:1326`), allocates and inserts (1356)
  without a lock: two mounts that both passed the search make two mount points of one
  name, and two that insert at once may lose one. `volHarm` has "namesake" and "lost".
- A second request to the dispatcher makes the first its own successor
  (`pdispatch.c:45`).
- Refusing a second allocator leaves `extension_busy` set (`extension.c:115`).
- `fg_setforeground` returns a variable hidden by another of its name, so `fg_before`
  is -1 (`foreground.c:53`), and `fg_exit` shows the previous console even when
  another one than the one that exits is shown.
- `rmdir` deletes a directory inside the removed one twice.
- The counter of the clock runs at half speed between two readings of the chip, and is
  only right again at the next one.
- The mount of a device twice, a full ring of messages that takes one message too many
  for each sender in its test, a thread that outlives its process's page directory:
  see the hazards of `Volumes`, `Messages` and `FrameStack`.

Met while reading, and outside the models: `fat_addsectors` writes before its array
for an empty file; `createfile` of the FAT driver tests `!f->path->attb&FILE_MOUNT`;
`vfs_checkdirused` uses `ptr2` before it is set; `realloc` returns what was
never set when the allocator was replaced; `vmm_init` registers a pointer to its own
stack frame; `use` of an unknown device passes -1 on; `time()` is 493 days off the
Unix epoch and wraps in 2036, and years 80 to 99 of the chip are not converted;
`create_semaphore` returns no handle; the task manager is started before `tm_pid` is
set; `devmgr_showdevices` keeps `devmgr_busy` while it waits for a key.

## What is not modelled, and the plan

`PROJECT.json` says of each part what is left out. In short:

- *Processes*: one program is started at a time, from a console; a process killed in
  `Tasks` has no open file (`OpenFiles` has the killed owners). `forkprocess` ("NOT YET
  WORKING"), semaphores (system calls that nothing uses), `sigwait` and task
  switching turned off. `nextprocessid++` outside the lock (`process.c:382`), the one
  hazard without a property: pids are names here.
- *VFS*: buffers supplied by the caller, `vfs_readline`, several handles on one
  buffered file, failing devices under `FileBuffer`; the nodes `.` and `..`.
- *Memory*: the page tables of the kernel's own `sbrk`; page faults that end in the dump
  of the exception handler.
- *Consoles*: the hot-key list and `kb_busywait`, which spin in the handler; the task
  manager's screen; several writers on one screen.
- *Environment*: values, and `env_unsetenv`. *Clock*: ticks lost while interrupts are
  off, the wrap of `delay`. *CD*: the driver ignores failures of its requests
  (`clouded` records them). *Devices*: `devmgr_removedevice`, which nothing calls.
- *Not at all*: the ATA, PCI, VGA and network drivers (register protocols, largely
  vendored), the third-party heap allocators, decompression, the table of PCI
  names, the executable loaders, the C library, startup, applications and SDK. They
  have no concurrency of their own, or no state. These files make most of the
  source's lines.

What comes next, in this order:

1. `FatChains` as the file system under `FileBuffer`, in place of a disk that may be
   full, and `FloppyDrive` as an implementation of the transfer `FloppyCache` takes
   for one step; and the proofs that their steps implement those they replace.
2. The table of devices and the loaders.
