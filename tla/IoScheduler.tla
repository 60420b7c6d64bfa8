----------------------------- MODULE IoScheduler -----------------------------
(***************************************************************************)
(* The I/O manager of iomgr/iosched.c: the list of requests that client    *)
(* processes push and poll, and the disk manager thread that takes them    *)
(* off the list nearest block first and serves them in batches, with task  *)
(* switching turned off, until the list is empty.                          *)
(*                                                                         *)
(* Every caller in the kernel requests, polls until answered and closes,   *)
(* so a client has one request at a time and the client's name stands for  *)
(* its IOrequest structure.  A client runs with the CPU preempted at any   *)
(* point, except under stopints() and while tsEnabled is FALSE.            *)
(***************************************************************************)
EXTENDS SyncVar, FiniteSets

CONSTANTS Clients,      \* processes that do block I/O
          DiskMgr,      \* the disk_mgr kernel thread
          Devices,      \* the block devices
          Writable,     \* those whose driver has a write_block
          Cached,       \* those whose driver has a getcache
          Requests,     \* what is asked for: a transfer, a device and a block
          Nil           \* the null pointer

IO_READ == "IO_READ"
IO_WRITE == "IO_WRITE"
IO_PENDING == "IO_PENDING"
IO_COMPLETE == "IO_COMPLETE"
IO_ERROR == "IO_ERROR"
Freed == "freed"        \* not an allocated IOrequest

ASSUME IoAssumption ==
  /\ DiskMgr \notin Clients /\ NoPid # DiskMgr
  /\ Nil \notin Clients
  /\ Writable \subseteq Devices /\ Cached \subseteq Devices
  /\ Requests \subseteq [type : {IO_READ, IO_WRITE}, dev : Devices, block : Nat]
  /\ Nil \notin Requests

VARIABLES
  IOrequest_busy,   \* the lock of the request list
  tsEnabled,        \* task switching is on
  IOjob, next, prev,\* the list: its head and the links of each node
  request, status,  \* what each request asks for, and how it stands
  pc,               \* where each client is
  dmpc,             \* where the disk manager is
  batch,            \* it holds the outer lock and serves until the list is empty
  ptr, handlecand,  \* IOmgr_obtainjob: the node looked at, the nearest so far
  lastjob,          \* the block served last
  forceflush, dirty,\* a flush is asked for, is needed
  queued            \* auxiliary: the requests that are on the list

listVars == <<IOjob, next, prev>>
clientVars == <<request, status, pc>>
scanVars == <<ptr, handlecand>>
flushVars == <<forceflush, dirty>>
vars == <<IOrequest_busy, tsEnabled, listVars, clientVars, dmpc, batch, scanVars,
          lastjob, flushVars, queued>>

Init ==
  /\ IOrequest_busy = FreeVar /\ tsEnabled = TRUE
  /\ IOjob = Nil
  /\ next = [c \in Clients |-> Nil] /\ prev = [c \in Clients |-> Nil]
  /\ request = [c \in Clients |-> Nil]
  /\ status = [c \in Clients |-> Freed]
  /\ pc = [c \in Clients |-> "idle"]
  /\ dmpc = "look" /\ batch = FALSE
  /\ ptr = Nil /\ handlecand = Nil
  /\ lastjob = 0
  /\ forceflush = FALSE /\ dirty = FALSE
  /\ queued = {}

------------------------------------------------------------------------------
\* Clients.

Step(c, from, to) == tsEnabled /\ pc[c] = from /\ pc' = [pc EXCEPT ![c] = to]

Acquire(p) ==
  /\ Passes(IOrequest_busy, p)
  /\ IOrequest_busy' = Entered(IOrequest_busy, p)

Release == IOrequest_busy' = Left(IOrequest_busy)

\* The sync_entercrit at the top of dex32_requestIO, _IOcomplete, _closeIO.
EnterCrit(c) ==
  /\ \/ Step(c, "idle", "requesting")
     \/ Step(c, "waiting", "polling")
     \/ Step(c, "answered", "closing")
  /\ Acquire(c)
  /\ UNCHANGED <<tsEnabled, listVars, request, status, dmpc, batch, scanVars,
                 lastjob, flushVars, queued>>

\* dex32_requestIO when the driver's cache holds all the blocks of a read.
CachedRequest(c, r) ==
  /\ Step(c, "requesting", "waiting")
  /\ r.type = IO_READ /\ r.dev \in Cached
  /\ request' = [request EXCEPT ![c] = r]
  /\ status' = [status EXCEPT ![c] = IO_COMPLETE]
  /\ Release
  /\ UNCHANGED <<tsEnabled, listVars, dmpc, batch, scanVars, lastjob,
                 flushVars, queued>>

\* Mutant: the old head is not linked back to the new one.
PushForward(c, r) ==
  /\ Step(c, "requesting", "waiting")
  /\ request' = [request EXCEPT ![c] = r]
  /\ status' = [status EXCEPT ![c] = IO_PENDING]
  /\ next' = [next EXCEPT ![c] = IOjob] /\ prev' = [prev EXCEPT ![c] = Nil]
  /\ IOjob' = c
  /\ queued' = queued \cup {c}
  /\ Release
  /\ UNCHANGED <<tsEnabled, dmpc, batch, scanVars, lastjob, flushVars>>

\* dex32_requestIO otherwise: push the request on the head of the list.
QueueRequest(c, r) ==
  /\ Step(c, "requesting", "waiting")
  /\ request' = [request EXCEPT ![c] = r]
  /\ status' = [status EXCEPT ![c] = IO_PENDING]
  /\ next' = [next EXCEPT ![c] = IOjob]
  /\ prev' = [n \in Clients |-> CASE n = c     -> Nil
                                  [] n = IOjob -> c
                                  [] OTHER     -> prev[n]]
  /\ IOjob' = c
  /\ queued' = queued \cup {c}
  /\ Release
  /\ UNCHANGED <<tsEnabled, dmpc, batch, scanVars, lastjob, flushVars>>

\* Mutant: a caller that does not look at what dex32_IOcomplete returns.
IOcompleteIgnored(c) ==
  /\ Step(c, "polling", "answered")
  /\ Release
  /\ UNCHANGED <<tsEnabled, listVars, request, status, dmpc, batch, scanVars,
                 lastjob, flushVars, queued>>

\* dex32_IOcomplete: 0 while pending; the callers loop on 0 and take both
\* 1 and -1 for "done".
IOcomplete(c) ==
  /\ Step(c, "polling", IF status[c] = IO_PENDING THEN "waiting" ELSE "answered")
  /\ Release
  /\ UNCHANGED <<tsEnabled, listVars, request, status, dmpc, batch, scanVars,
                 lastjob, flushVars, queued>>

\* dex32_closeIO
CloseIO(c) ==
  /\ Step(c, "closing", "idle")
  /\ status' = [status EXCEPT ![c] = Freed]
  /\ request' = [request EXCEPT ![c] = Nil]
  /\ next' = [next EXCEPT ![c] = Nil] /\ prev' = [prev EXCEPT ![c] = Nil]
  /\ Release
  /\ UNCHANGED <<tsEnabled, IOjob, dmpc, batch, scanVars, lastjob,
                 flushVars, queued>>

\* fclose (vfs_core.c) asks for the delayed writes to be committed.
AskFlush ==
  /\ tsEnabled
  /\ forceflush' = TRUE
  /\ UNCHANGED <<IOrequest_busy, tsEnabled, listVars, clientVars, dmpc, batch, scanVars,
                 lastjob, dirty, queued>>

------------------------------------------------------------------------------
\* The disk manager: iomgr_diskmgr and the IOmgr_obtainjob it calls.

At(from, to) == dmpc = from /\ dmpc' = to

Distance(n) == LET b == request[n].block
               IN  IF lastjob > b THEN lastjob - b ELSE b - lastjob

\* IOmgr_obtainjob: enter, and start at the head.
Look ==
  /\ At("look", "scan")
  /\ Acquire(DiskMgr)
  /\ ptr' = IOjob /\ handlecand' = IOjob
  /\ UNCHANGED <<tsEnabled, listVars, clientVars, batch, lastjob, flushVars, queued>>

\* No request: leave; outside a batch see to the delayed writes, in one end it.
NoJob ==
  /\ handlecand = Nil
  /\ At("scan", IF batch THEN "enable" ELSE "idle")
  /\ Release
  /\ UNCHANGED <<tsEnabled, listVars, clientVars, batch, scanVars, lastjob,
                 flushVars, queued>>

\* One turn of the loop: a nearer request becomes the candidate.
Scan ==
  /\ dmpc = "scan" /\ ptr # Nil
  /\ handlecand' = IF Distance(ptr) < Distance(handlecand) THEN ptr ELSE handlecand
  /\ ptr' = next[ptr]
  /\ UNCHANGED <<IOrequest_busy, tsEnabled, listVars, clientVars, dmpc, batch, lastjob,
                 flushVars, queued>>

\* Mutant: the head stays on the list when it is taken.
TakeAndKeep ==
  /\ handlecand # Nil /\ ptr = Nil
  /\ At("scan", "unprev")
  /\ UNCHANGED <<IOrequest_busy, tsEnabled, listVars, clientVars, batch, scanVars,
                 lastjob, flushVars, queued>>

\* The three statements that take the candidate off the list.
UnlinkHead ==
  /\ handlecand # Nil /\ ptr = Nil
  /\ At("scan", "unprev")
  /\ IOjob' = IF handlecand = IOjob THEN next[handlecand] ELSE IOjob
  /\ queued' = queued \ {handlecand}
  /\ UNCHANGED <<IOrequest_busy, tsEnabled, next, prev, request, status, pc, batch, scanVars,
                 lastjob, flushVars>>

UnlinkPrev ==
  /\ At("unprev", "unnext")
  /\ next' = [n \in Clients |-> IF n = prev[handlecand] THEN next[handlecand] ELSE next[n]]
  /\ UNCHANGED <<IOrequest_busy, tsEnabled, IOjob, prev, clientVars, batch, scanVars,
                 lastjob, flushVars, queued>>

UnlinkNext ==
  /\ At("unnext", IF batch THEN "serve" ELSE "begin")
  /\ prev' = [n \in Clients |-> IF n = next[handlecand] THEN prev[handlecand] ELSE prev[n]]
  /\ Release
  /\ UNCHANGED <<tsEnabled, IOjob, next, clientVars, batch, scanVars, lastjob,
                 flushVars, queued>>

\* Mutant: the batch is served without the lock.
BeginBatchUnlocked ==
  /\ At("begin", "disable")
  /\ batch' = TRUE
  /\ UNCHANGED <<IOrequest_busy, tsEnabled, listVars, clientVars, scanVars, lastjob,
                 flushVars, queued>>

\* sync_entercrit(&IOrequest_busy) around the batch ...
BeginBatch ==
  /\ At("begin", "disable")
  /\ Acquire(DiskMgr)
  /\ batch' = TRUE
  /\ UNCHANGED <<tsEnabled, listVars, clientVars, scanVars, lastjob, flushVars, queued>>

\* ... and disable_taskswitching().
Disable ==
  /\ At("disable", "serve")
  /\ tsEnabled' = FALSE
  /\ UNCHANGED <<IOrequest_busy, listVars, clientVars, batch, scanVars, lastjob,
                 flushVars, queued>>

\* Mutant: the request is not marked complete.
TransferSilently ==
  LET r == request[handlecand]
  IN  /\ At("serve", "look")
      /\ r.type = IO_WRITE => r.dev \in Writable
      /\ handlecand' = Nil
      /\ lastjob' = r.block
      /\ dirty' = (dirty \/ (r.type = IO_WRITE /\ r.dev \in Cached))
      /\ UNCHANGED <<IOrequest_busy, tsEnabled, listVars, clientVars, batch, ptr,
                     forceflush, queued>>

\* The driver does the transfer; a delayed write makes its cache dirty.
Transfer ==
  LET r == request[handlecand]
  IN  /\ At("serve", "look")
      /\ r.type = IO_WRITE => r.dev \in Writable
      /\ status' = [status EXCEPT ![handlecand] = IO_COMPLETE]
      /\ handlecand' = Nil
      /\ lastjob' = r.block
      /\ dirty' = (dirty \/ (r.type = IO_WRITE /\ r.dev \in Cached))
      /\ UNCHANGED <<IOrequest_busy, tsEnabled, listVars, request, pc, batch, ptr,
                     forceflush, queued>>

\* The transfer fails, or the device cannot be written.
TransferFails ==
  /\ At("serve", "look")
  /\ status' = [status EXCEPT ![handlecand] = IO_ERROR]
  /\ handlecand' = Nil
  /\ UNCHANGED <<IOrequest_busy, tsEnabled, listVars, request, pc, batch, ptr,
                 lastjob, flushVars, queued>>

\* enable_taskswitching(), then the sync_leavecrit of the batch.
Enable ==
  /\ At("enable", "end")
  /\ tsEnabled' = TRUE
  /\ UNCHANGED <<IOrequest_busy, listVars, clientVars, batch, scanVars, lastjob,
                 flushVars, queued>>

EndBatch ==
  /\ At("end", "look")
  /\ Release
  /\ batch' = FALSE
  /\ UNCHANGED <<tsEnabled, listVars, clientVars, scanVars, lastjob, flushVars, queued>>

\* Mutant: the request to flush is taken back without a flush.
ForgetFlush ==
  /\ At("idle", "look")
  /\ forceflush' = FALSE
  /\ UNCHANGED <<IOrequest_busy, tsEnabled, listVars, clientVars, batch, scanVars,
                 lastjob, dirty, queued>>

\* The list was empty: flush when fclose asked for it, or when flush_time has
\* passed since the last flush (any time, here) ...
StartFlush ==
  /\ At("idle", "flush")
  /\ forceflush' = FALSE
  /\ UNCHANGED <<IOrequest_busy, tsEnabled, listVars, clientVars, batch, scanVars,
                 lastjob, dirty, queued>>

\* ... and look again at once otherwise.
NoFlush ==
  /\ ~forceflush
  /\ At("idle", "look")
  /\ UNCHANGED <<IOrequest_busy, tsEnabled, listVars, clientVars, batch, scanVars,
                 lastjob, flushVars, queued>>

\* if (shouldflush()) iomgr_flushmgr();
Flush ==
  /\ At("flush", "look")
  /\ dirty' = FALSE
  /\ UNCHANGED <<IOrequest_busy, tsEnabled, listVars, clientVars, batch, scanVars,
                 lastjob, forceflush, queued>>

------------------------------------------------------------------------------
ClientStep(c) ==
  \/ EnterCrit(c) \/ IOcomplete(c) \/ CloseIO(c)
  \/ \E r \in Requests : CachedRequest(c, r) \/ QueueRequest(c, r)

ObtainJob == Look \/ NoJob \/ Scan \/ UnlinkHead \/ UnlinkPrev \/ UnlinkNext
Serve == BeginBatch \/ Disable \/ Transfer \/ TransferFails \/ Enable \/ EndBatch
Idle == StartFlush \/ NoFlush \/ Flush
DiskMgrStep == ObtainJob \/ Serve \/ Idle

Next == (\E c \in Clients : ClientStep(c)) \/ AskFlush \/ DiskMgrStep

\* The round-robin scheduler runs the disk manager and every client again and
\* again, and flush_time passes (SF of StartFlush).  A process that spins on
\* the lock gets a whole time slice to find it free, and the others hold it for
\* a few instructions: the timer does not hit them inside the lock every time
\* (SF of the acquisitions).  A client polls and closes the request it made,
\* but need never make another.
Fairness ==
  /\ WF_vars(DiskMgrStep) /\ SF_vars(Look) /\ SF_vars(BeginBatch)
  /\ SF_vars(StartFlush)
  /\ \A c \in Clients :
       /\ WF_vars(ClientStep(c) /\ pc[c] # "idle")
       /\ SF_vars(EnterCrit(c) /\ pc[c] # "idle")

Spec == Init /\ [][Next]_vars /\ Fairness

------------------------------------------------------------------------------
Procs == Clients \cup {DiskMgr}

TypeOK ==
  /\ IOrequest_busy \in [busy : Procs \cup {NoPid}, wait : Nat]
  /\ tsEnabled \in BOOLEAN /\ batch \in BOOLEAN
  /\ IOjob \in Clients \cup {Nil}
  /\ next \in [Clients -> Clients \cup {Nil}]
  /\ prev \in [Clients -> Clients \cup {Nil}]
  /\ request \in [Clients -> Requests \cup {Nil}]
  /\ status \in [Clients -> {IO_PENDING, IO_COMPLETE, IO_ERROR, Freed}]
  /\ pc \in [Clients -> {"idle", "requesting", "waiting", "polling", "answered", "closing"}]
  /\ dmpc \in {"look", "scan", "unprev", "unnext", "begin", "disable", "serve", "enable",
               "end", "idle", "flush"}
  /\ ptr \in Clients \cup {Nil} /\ handlecand \in Clients \cup {Nil}
  /\ lastjob \in Nat
  /\ forceflush \in BOOLEAN /\ dirty \in BOOLEAN
  /\ queued \subseteq Clients

\* The job the disk manager has taken off the list and not answered yet.
Taken == IF dmpc \in {"unprev", "unnext", "begin", "disable", "serve"}
         THEN {handlecand} ELSE {}

\* The request the disk manager works on is an allocated one that nobody has
\* answered: no IOrequest is served twice, or after its owner freed it.
JobIsLive == \A c \in Taken : status[c] = IO_PENDING /\ c \notin queued

\* No request is lost: one that is pending is on the list or is the job the
\* disk manager has taken, and everything on the list is pending.
PendingIsAccountedFor ==
  /\ {c \in Clients : status[c] = IO_PENDING} = queued \cup Taken
  /\ queued \cap Taken = {}

\* Outside the three statements of the unlinking, the nodes the disk manager
\* can reach from IOjob are exactly the requests that are queued, and the
\* back links are the inverse of the forward links.
Reached ==
  LET hop[n \in 0..Cardinality(Clients)] ==
        IF n = 0 THEN IOjob
        ELSE IF hop[n - 1] = Nil THEN Nil ELSE next[hop[n - 1]]
  IN  {hop[n] : n \in DOMAIN hop}

ListIsQueue ==
  dmpc \notin {"unprev", "unnext"} =>
    /\ Reached \ {Nil} = queued /\ Nil \in Reached
    /\ \A c \in queued : IF c = IOjob THEN prev[c] = Nil
                                     ELSE prev[c] # Nil /\ next[prev[c]] = c

\* In a batch task switching is off and nobody else is inside the lock; a
\* client is never left waiting with task switching off for good.
BatchIsExclusive ==
  ~tsEnabled =>
    /\ batch /\ IOrequest_busy.busy = DiskMgr
    /\ \A c \in Clients : pc[c] \notin {"requesting", "polling", "closing"}

\* An answer is final: it changes only when the owner frees the request.
AnswersAreFinal ==
  [][ \A c \in Clients :
        status[c] \in {IO_COMPLETE, IO_ERROR} => status'[c] \in {status[c], Freed} ]_vars

\* A request that waits for the disk manager is overtaken only by requests
\* of the batch at work or of the next: every request is answered.
EveryRequestAnswered ==
  \A c \in Clients : pc[c] = "waiting" ~> pc[c] = "answered"

\* Once the clients stop asking, a delayed write reaches the disk.
QuietDiskIsFlushed ==
  <>[](\A c \in Clients : pc[c] = "idle") => (dirty ~> ~dirty)

\* The promise of the I/O manager, with a request's stage read off its status.
Stage == [c \in Clients |->
            CASE status[c] = Freed      -> "none"
              [] status[c] = IO_PENDING -> "submitted"
              [] OTHER                  -> "answered"]
Service == INSTANCE IoService WITH stage <- Stage
ImplementsService == Service!Spec
==============================================================================
