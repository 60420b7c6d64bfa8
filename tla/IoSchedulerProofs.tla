-------------------------- MODULE IoSchedulerProofs --------------------------
(***************************************************************************)
(* The request list of iomgr/iosched.c, for any set of clients, devices    *)
(* and requests: the lock is exclusive, the list stays linked and in       *)
(* order, no request is lost, none is served twice or after it was freed,  *)
(* and every step is one of the service that IoService promises.           *)
(***************************************************************************)
EXTENDS IoScheduler, TLAPS, FiniteSetTheorems

\* No client is the kernel process: its pid, 0, is what a free lock holds.
UserClients == NoPid \notin Clients

\* The disk manager's nesting of the lock, and who is inside.
Depth == (IF batch THEN 1 ELSE 0) + (IF dmpc \in {"scan", "unprev",
   "unnext"} THEN 1 ELSE 0)
\* Who is between taking the lock and giving it back.
InCrit(c) == pc[c] \in {"requesting", "polling", "closing"}

\* The lock is held by one of them.
Locking ==
  /\ \A c \in Clients : InCrit(c) <=> IOrequest_busy.busy = c
  /\ Depth > 0 <=> IOrequest_busy.busy = DiskMgr
  /\ IOrequest_busy.busy \in Clients => IOrequest_busy.wait = 1
  /\ IOrequest_busy.busy \notin Clients => IOrequest_busy.wait = Depth
  /\ dmpc \in {"disable", "serve", "enable", "end"} => batch
  /\ dmpc \in {"begin", "idle", "flush"} => ~batch
  /\ tsEnabled <=> (~batch \/ dmpc \in {"disable", "end"})

\* What a client's place says of its request.
Phases ==
  \A c \in Clients :
    /\ pc[c] \in {"idle", "requesting"} <=> status[c] = Freed
    /\ pc[c] \in {"answered", "closing"} => status[c] \in {IO_COMPLETE, IO_ERROR}
    /\ status[c] # Freed => request[c] # Nil

\* What the disk manager has at hand is on the list, and every request is where it should be.
Accounts ==
  /\ dmpc \in {"unprev", "unnext", "begin", "disable", "serve"} => handlecand # Nil
  /\ dmpc = "scan" => /\ ptr \in queued \cup {Nil} /\ handlecand \in queued \cup {Nil}
                      /\ handlecand = Nil => ptr = Nil
  /\ JobIsLive
  /\ PendingIsAccountedFor

\* The forward links nx and the back links pv of the nodes of Q are inverse,
\* and head is the one node without a predecessor.
Linked(nx, pv, Q, head) ==
  /\ head \in Q \cup {Nil}
  /\ \A c \in Q : nx[c] # Nil => nx[c] \in Q /\ pv[nx[c]] = c
  /\ \A c \in Q : pv[c] # Nil => pv[c] \in Q /\ nx[pv[c]] = c
  /\ \A c \in Q : pv[c] = Nil <=> c = head

\* While a node is taken off, the list is still the old one but for the head
\* and, one statement later, the forward link over the node.
WithJob == queued \cup {handlecand}
OldHead == IF prev[handlecand] = Nil THEN handlecand ELSE IOjob
OldNext == [n \in Clients |-> IF n = prev[handlecand] THEN handlecand ELSE next[n]]

\* The links run through the requests that wait.
Links ==
  /\ dmpc \notin {"unprev", "unnext"} => Linked(next, prev, queued, IOjob)
  /\ dmpc \in {"unprev", "unnext"} => (prev[handlecand] = Nil => IOjob = next[handlecand])
  /\ dmpc = "unprev" => Linked(next, prev, WithJob, OldHead)
  /\ dmpc = "unnext" => /\ Linked(OldNext, prev, WithJob, OldHead)
                        /\ prev[handlecand] # Nil => next[prev[handlecand]] = next[handlecand]
                        /\ next[handlecand] = OldNext[handlecand]

\* The inductive invariant.
IInv == TypeOK /\ Locking /\ Phases /\ Accounts /\ Links

\* The lock keeps its type when its holder leaves.
LEMMA ReleaseType ==
  ASSUME IOrequest_busy \in [busy : Procs \cup {NoPid}, wait : Nat],
         IOrequest_busy.wait > 0
  PROVE  Left(IOrequest_busy) \in [busy : Procs \cup {NoPid}, wait : Nat]
<1>1. (IF IOrequest_busy.wait = 1 THEN NoPid ELSE IOrequest_busy.busy) \in Procs \cup {NoPid}
  OBVIOUS
<1>2. IOrequest_busy.wait - 1 \in Nat
  OBVIOUS
<1> QED
  BY <1>1, <1>2 DEF Left

\* Every step keeps the types: what is asked of each record, link and flag.
LEMMA TypeStep == ASSUME UserClients PROVE IInv /\ [Next]_vars => TypeOK'
<1> SUFFICES ASSUME IInv, [Next]_vars PROVE TypeOK'
  OBVIOUS
<1> USE IoAssumption DEF IoAssumption, UserClients, IInv, listVars, clientVars, scanVars, flushVars,
   Step, At, Acquire, Release,
    TypeOK, Procs, Entered, Accounts, Phases, JobIsLive, Taken, IO_PENDING, IO_COMPLETE,
       IO_ERROR, Freed
<1>1. ASSUME NEW c \in Clients, EnterCrit(c) PROVE TypeOK'
  BY <1>1 DEF EnterCrit
<1>2. ASSUME NEW c \in Clients, IOcomplete(c) PROVE TypeOK'
  <2>1. IOrequest_busy.wait > 0
    BY <1>2 DEF IOcomplete, Locking, Depth, InCrit
  <2>2. IOrequest_busy' \in [busy : Procs \cup {NoPid}, wait : Nat]
    BY <1>2, <2>1, ReleaseType DEF IOcomplete
  <2> QED
    BY <1>2, <2>2 DEF IOcomplete
<1>3. ASSUME NEW c \in Clients, CloseIO(c) PROVE TypeOK'
  <2>1. IOrequest_busy.wait > 0
    BY <1>3 DEF CloseIO, Locking, Depth, InCrit
  <2>2. IOrequest_busy' \in [busy : Procs \cup {NoPid}, wait : Nat]
    BY <1>3, <2>1, ReleaseType DEF CloseIO
  <2> QED
    BY <1>3, <2>2 DEF CloseIO
<1>4. ASSUME NEW c \in Clients, NEW r \in Requests, CachedRequest(c, r) PROVE TypeOK'
  <2>1. IOrequest_busy.wait > 0
    BY <1>4 DEF CachedRequest, Locking, Depth, InCrit
  <2>2. IOrequest_busy' \in [busy : Procs \cup {NoPid}, wait : Nat]
    BY <1>4, <2>1, ReleaseType DEF CachedRequest
  <2> QED
    BY <1>4, <2>2 DEF CachedRequest
<1>5. ASSUME NEW c \in Clients, NEW r \in Requests, QueueRequest(c, r) PROVE TypeOK'
  <2>1. IOrequest_busy.wait > 0
    BY <1>5 DEF QueueRequest, Locking, Depth, InCrit
  <2>2. IOrequest_busy' \in [busy : Procs \cup {NoPid}, wait : Nat]
    BY <1>5, <2>1, ReleaseType DEF QueueRequest
  <2> QED
    BY <1>5, <2>2 DEF QueueRequest
<1>6. CASE AskFlush
  BY <1>6 DEF AskFlush
<1>7. CASE Look
  BY <1>7 DEF Look
<1>8. CASE NoJob
  <2>1. IOrequest_busy.wait > 0
    BY <1>8 DEF NoJob, Locking, Depth, InCrit
  <2>2. IOrequest_busy' \in [busy : Procs \cup {NoPid}, wait : Nat]
    BY <1>8, <2>1, ReleaseType DEF NoJob
  <2> QED
    BY <1>8, <2>2 DEF NoJob
<1>9. CASE Scan
  BY <1>9 DEF Scan
<1>10. CASE UnlinkHead
  BY <1>10 DEF UnlinkHead
<1>11. CASE UnlinkPrev
  BY <1>11 DEF UnlinkPrev
<1>12. CASE UnlinkNext
  <2>1. IOrequest_busy.wait > 0
    BY <1>12 DEF UnlinkNext, Locking, Depth, InCrit
  <2>2. IOrequest_busy' \in [busy : Procs \cup {NoPid}, wait : Nat]
    BY <1>12, <2>1, ReleaseType DEF UnlinkNext
  <2> QED
    BY <1>12, <2>2 DEF UnlinkNext
<1>13. CASE BeginBatch
  BY <1>13 DEF BeginBatch
<1>14. CASE Disable
  BY <1>14 DEF Disable
<1>15. CASE Transfer
  BY <1>15 DEF Transfer
<1>16. CASE TransferFails
  BY <1>16 DEF TransferFails
<1>17. CASE Enable
  BY <1>17 DEF Enable
<1>18. CASE EndBatch
  <2>1. IOrequest_busy.wait > 0
    BY <1>18 DEF EndBatch, Locking, Depth, InCrit
  <2>2. IOrequest_busy' \in [busy : Procs \cup {NoPid}, wait : Nat]
    BY <1>18, <2>1, ReleaseType DEF EndBatch
  <2> QED
    BY <1>18, <2>2 DEF EndBatch
<1>19. CASE StartFlush
  BY <1>19 DEF StartFlush
<1>20. CASE NoFlush
  BY <1>20 DEF NoFlush
<1>21. CASE Flush
  BY <1>21 DEF Flush
<1>22. CASE UNCHANGED vars
  BY <1>22 DEF vars
<1> QED
  BY <1>1, <1>2, <1>3, <1>4, <1>5, <1>6, <1>7, <1>8, <1>9, <1>10, <1>11,
     <1>12, <1>13, <1>14, <1>15, <1>16, <1>17, <1>18, <1>19, <1>20, <1>21, <1>22
     DEF Next, ClientStep, DiskMgrStep, ObtainJob, Serve, Idle

\* Every step keeps the lock to one owner, with a count that is its nesting.
LEMMA LockingStep == ASSUME UserClients PROVE IInv /\ [Next]_vars => Locking'
<1> SUFFICES ASSUME IInv, [Next]_vars PROVE Locking'
  OBVIOUS
<1> USE IoAssumption DEF IoAssumption, UserClients, IInv, listVars, clientVars, scanVars, flushVars,
   Step, At, Acquire, Release,
    TypeOK, Procs, Passes, Entered, Left, Locking, Depth, InCrit
<1>1. ASSUME NEW c \in Clients, EnterCrit(c) PROVE Locking'
  BY <1>1 DEF EnterCrit
<1>2. ASSUME NEW c \in Clients, IOcomplete(c) PROVE Locking'
  BY <1>2 DEF IOcomplete
<1>3. ASSUME NEW c \in Clients, CloseIO(c) PROVE Locking'
  BY <1>3 DEF CloseIO
<1>4. ASSUME NEW c \in Clients, NEW r \in Requests, CachedRequest(c, r) PROVE Locking'
  BY <1>4 DEF CachedRequest
<1>5. ASSUME NEW c \in Clients, NEW r \in Requests, QueueRequest(c, r) PROVE Locking'
  BY <1>5 DEF QueueRequest
<1>6. CASE AskFlush
  BY <1>6 DEF AskFlush
<1>7. CASE Look
  BY <1>7 DEF Look
<1>8. CASE NoJob
  BY <1>8 DEF NoJob
<1>9. CASE Scan
  BY <1>9 DEF Scan
<1>10. CASE UnlinkHead
  BY <1>10 DEF UnlinkHead
<1>11. CASE UnlinkPrev
  BY <1>11 DEF UnlinkPrev
<1>12. CASE UnlinkNext
  BY <1>12 DEF UnlinkNext
<1>13. CASE BeginBatch
  BY <1>13 DEF BeginBatch
<1>14. CASE Disable
  BY <1>14 DEF Disable
<1>15. CASE Transfer
  BY <1>15 DEF Transfer
<1>16. CASE TransferFails
  BY <1>16 DEF TransferFails
<1>17. CASE Enable
  BY <1>17 DEF Enable
<1>18. CASE EndBatch
  BY <1>18 DEF EndBatch
<1>19. CASE StartFlush
  BY <1>19 DEF StartFlush
<1>20. CASE NoFlush
  BY <1>20 DEF NoFlush
<1>21. CASE Flush
  BY <1>21 DEF Flush
<1>22. CASE UNCHANGED vars
  BY <1>22 DEF vars
<1> QED
  BY <1>1, <1>2, <1>3, <1>4, <1>5, <1>6, <1>7, <1>8, <1>9, <1>10, <1>11,
     <1>12, <1>13, <1>14, <1>15, <1>16, <1>17, <1>18, <1>19, <1>20, <1>21, <1>22
     DEF Next, ClientStep, DiskMgrStep, ObtainJob, Serve, Idle

\* Every step keeps a client's place in its code and its request in step.
LEMMA PhasesStep == ASSUME UserClients PROVE IInv /\ [Next]_vars => Phases'
<1> SUFFICES ASSUME IInv, [Next]_vars PROVE Phases'
  OBVIOUS
<1> USE IoAssumption DEF IoAssumption, UserClients, IInv, listVars, clientVars, scanVars, flushVars,
   Step, At, Acquire, Release,
    TypeOK, Phases, Accounts, JobIsLive, Taken, IO_PENDING, IO_COMPLETE, IO_ERROR, Freed
<1>1. ASSUME NEW c \in Clients, EnterCrit(c) PROVE Phases'
  BY <1>1 DEF EnterCrit
<1>2. ASSUME NEW c \in Clients, IOcomplete(c) PROVE Phases'
  BY <1>2 DEF IOcomplete
<1>3. ASSUME NEW c \in Clients, CloseIO(c) PROVE Phases'
  BY <1>3 DEF CloseIO
<1>4. ASSUME NEW c \in Clients, NEW r \in Requests, CachedRequest(c, r) PROVE Phases'
  BY <1>4 DEF CachedRequest
<1>5. ASSUME NEW c \in Clients, NEW r \in Requests, QueueRequest(c, r) PROVE Phases'
  BY <1>5 DEF QueueRequest
<1>6. CASE AskFlush
  BY <1>6 DEF AskFlush
<1>7. CASE Look
  BY <1>7 DEF Look
<1>8. CASE NoJob
  BY <1>8 DEF NoJob
<1>9. CASE Scan
  BY <1>9 DEF Scan
<1>10. CASE UnlinkHead
  BY <1>10 DEF UnlinkHead
<1>11. CASE UnlinkPrev
  BY <1>11 DEF UnlinkPrev
<1>12. CASE UnlinkNext
  BY <1>12 DEF UnlinkNext
<1>13. CASE BeginBatch
  BY <1>13 DEF BeginBatch
<1>14. CASE Disable
  BY <1>14 DEF Disable
<1>15. CASE Transfer
  BY <1>15 DEF Transfer
<1>16. CASE TransferFails
  BY <1>16 DEF TransferFails
<1>17. CASE Enable
  BY <1>17 DEF Enable
<1>18. CASE EndBatch
  BY <1>18 DEF EndBatch
<1>19. CASE StartFlush
  BY <1>19 DEF StartFlush
<1>20. CASE NoFlush
  BY <1>20 DEF NoFlush
<1>21. CASE Flush
  BY <1>21 DEF Flush
<1>22. CASE UNCHANGED vars
  BY <1>22 DEF vars
<1> QED
  BY <1>1, <1>2, <1>3, <1>4, <1>5, <1>6, <1>7, <1>8, <1>9, <1>10, <1>11,
     <1>12, <1>13, <1>14, <1>15, <1>16, <1>17, <1>18, <1>19, <1>20, <1>21, <1>22
     DEF Next, ClientStep, DiskMgrStep, ObtainJob, Serve, Idle

\* Every step keeps each pending request on the list or in the disk manager's
\* hands, once, and its scan within the list.
LEMMA AccountsStep == ASSUME UserClients PROVE IInv /\ [Next]_vars => Accounts'
<1> SUFFICES ASSUME IInv, [Next]_vars PROVE Accounts'
  OBVIOUS
<1> USE IoAssumption DEF IoAssumption, UserClients, IInv, listVars, clientVars, scanVars, flushVars,
   Step, At, Acquire, Release,
    TypeOK, Phases, Accounts, JobIsLive, PendingIsAccountedFor, Taken, Links, Linked,
       Locking, Depth, InCrit, Passes, IO_PENDING, IO_COMPLETE, IO_ERROR, Freed
<1>1. ASSUME NEW c \in Clients, EnterCrit(c) PROVE Accounts'
  BY <1>1 DEF EnterCrit
<1>2. ASSUME NEW c \in Clients, IOcomplete(c) PROVE Accounts'
  BY <1>2 DEF IOcomplete
<1>3. ASSUME NEW c \in Clients, CloseIO(c) PROVE Accounts'
  BY <1>3 DEF CloseIO
<1>4. ASSUME NEW c \in Clients, NEW r \in Requests, CachedRequest(c, r) PROVE Accounts'
  BY <1>4 DEF CachedRequest
<1>5. ASSUME NEW c \in Clients, NEW r \in Requests, QueueRequest(c, r) PROVE Accounts'
  BY <1>5 DEF QueueRequest
<1>6. CASE AskFlush
  BY <1>6 DEF AskFlush
<1>7. CASE Look
  BY <1>7 DEF Look
<1>8. CASE NoJob
  BY <1>8 DEF NoJob
<1>9. CASE Scan
  BY <1>9 DEF Scan
<1>10. CASE UnlinkHead
  BY <1>10 DEF UnlinkHead
<1>11. CASE UnlinkPrev
  BY <1>11 DEF UnlinkPrev
<1>12. CASE UnlinkNext
  BY <1>12 DEF UnlinkNext
<1>13. CASE BeginBatch
  BY <1>13 DEF BeginBatch
<1>14. CASE Disable
  BY <1>14 DEF Disable
<1>15. CASE Transfer
  BY <1>15 DEF Transfer
<1>16. CASE TransferFails
  BY <1>16 DEF TransferFails
<1>17. CASE Enable
  BY <1>17 DEF Enable
<1>18. CASE EndBatch
  BY <1>18 DEF EndBatch
<1>19. CASE StartFlush
  BY <1>19 DEF StartFlush
<1>20. CASE NoFlush
  BY <1>20 DEF NoFlush
<1>21. CASE Flush
  BY <1>21 DEF Flush
<1>22. CASE UNCHANGED vars
  BY <1>22 DEF vars
<1> QED
  BY <1>1, <1>2, <1>3, <1>4, <1>5, <1>6, <1>7, <1>8, <1>9, <1>10, <1>11,
     <1>12, <1>13, <1>14, <1>15, <1>16, <1>17, <1>18, <1>19, <1>20, <1>21, <1>22
     DEF Next, ClientStep, DiskMgrStep, ObtainJob, Serve, Idle

\* Taking one node off a doubly linked list leaves the others linked.
LEMMA Removal ==
  ASSUME Nil \notin Clients,
         NEW nx \in [Clients -> Clients \cup {Nil}],
         NEW pv \in [Clients -> Clients \cup {Nil}],
         NEW Q \in SUBSET Clients, NEW h \in Clients, h \notin Q,
         NEW head \in Clients \cup {Nil},
         Linked(nx, pv, Q \cup {h}, head),
         NEW nx2, \A n \in Clients : nx2[n] = IF n = pv[h] THEN nx[h] ELSE nx[n],
         NEW pv2, \A n \in Clients : pv2[n] = IF n = nx[h] THEN pv[h] ELSE pv[n],
         NEW head2, head2 = IF head = h THEN nx[h] ELSE head
  PROVE  Linked(nx2, pv2, Q, head2)
<1>1. head2 \in Q \cup {Nil}
  BY DEF Linked
<1>2. ASSUME NEW c \in Q, nx2[c] # Nil
      PROVE  nx2[c] \in Q /\ pv2[nx2[c]] = c
  BY <1>2 DEF Linked
<1>3. ASSUME NEW c \in Q, pv2[c] # Nil
      PROVE  pv2[c] \in Q /\ nx2[pv2[c]] = c
  BY <1>3 DEF Linked
<1>4. ASSUME NEW c \in Q
      PROVE  pv2[c] = Nil <=> c = head2
  BY DEF Linked
<1> QED
  BY <1>1, <1>2, <1>3, <1>4 DEF Linked

\* Steps that leave the list, the place of the disk manager and its candidate
\* alone leave the links as they are.
LEMMA LinksFrame ==
  ASSUME Links, UNCHANGED <<IOjob, next, prev, queued, dmpc, handlecand>>
  PROVE  Links'
<1>1. OldNext' = OldNext /\ OldHead' = OldHead /\ WithJob' = WithJob
  BY DEF OldNext, OldHead, WithJob
<1> QED
  BY <1>1 DEF Links, Linked

\* Every step keeps the list linked: the pushes of dex32_requestIO and the three
\* statements of IOmgr_obtainjob that unlink a node.
LEMMA LinksStep == ASSUME UserClients PROVE IInv /\ [Next]_vars => Links'
<1> SUFFICES ASSUME IInv, [Next]_vars PROVE Links'
  OBVIOUS
<1> USE IoAssumption DEF IoAssumption, UserClients, IInv, Step, At, TypeOK, listVars, clientVars,
    scanVars, Accounts, JobIsLive, Taken, Links, Linked, WithJob, OldHead, OldNext
<1>1. ASSUME NEW c \in Clients, EnterCrit(c) PROVE Links'
  BY <1>1, LinksFrame DEF EnterCrit
<1>2. ASSUME NEW c \in Clients, IOcomplete(c) PROVE Links'
  BY <1>2, LinksFrame DEF IOcomplete
<1>3. ASSUME NEW c \in Clients, CloseIO(c) PROVE Links'
  BY <1>3 DEF CloseIO, PendingIsAccountedFor, Phases, IO_PENDING, IO_COMPLETE, IO_ERROR,
     Freed, Locking, Depth, InCrit
<1>4. ASSUME NEW c \in Clients, NEW r \in Requests, CachedRequest(c, r) PROVE Links'
  BY <1>4, LinksFrame DEF CachedRequest
<1>5. ASSUME NEW c \in Clients, NEW r \in Requests, QueueRequest(c, r) PROVE Links'
  BY <1>5 DEF QueueRequest, PendingIsAccountedFor, Phases, IO_PENDING, Freed, Locking,
     Depth, InCrit
<1>6. CASE AskFlush
  BY <1>6, LinksFrame DEF AskFlush
<1>7. CASE Look
  BY <1>7 DEF Look
<1>8. CASE NoJob
  BY <1>8 DEF NoJob
<1>9. CASE Scan
  BY <1>9 DEF Scan
<1>10. CASE UnlinkHead
  BY <1>10 DEF UnlinkHead
<1>11. CASE UnlinkPrev
  BY <1>11 DEF UnlinkPrev
<1>12. CASE UnlinkNext
  <2> DEFINE h == handlecand
  <2>1. /\ h \in Clients /\ h \notin queued /\ OldHead \in Clients \cup {Nil}
        /\ Nil \notin Clients /\ queued \in SUBSET Clients
        /\ prev \in [Clients -> Clients \cup {Nil}]
        /\ prev' = [n \in Clients |-> IF n = next[h] THEN prev[h] ELSE prev[n]]
        /\ UNCHANGED <<IOjob, next, queued>>
        /\ dmpc' \notin {"unprev", "unnext"}
    BY <1>12 DEF UnlinkNext, Accounts, JobIsLive, Taken, OldHead
  <2>2. /\ Linked(OldNext, prev, queued \cup {h}, OldHead)
        /\ prev[h] # Nil => next[prev[h]] = next[h]
        /\ prev[h] = Nil => IOjob = next[h]
        /\ OldNext[h] = next[h]
    BY <1>12 DEF UnlinkNext, Links, WithJob
  <2>3. OldNext \in [Clients -> Clients \cup {Nil}]
    BY <2>1 DEF OldNext
  <2>4. \A n \in Clients : next[n] = IF n = prev[h] THEN OldNext[h] ELSE OldNext[n]
    BY <2>1, <2>2 DEF OldNext
  <2>5. \A n \in Clients : prev'[n] = IF n = OldNext[h] THEN prev[h] ELSE prev[n]
    BY <2>1, <2>2
  <2>6. IOjob = IF OldHead = h THEN OldNext[h] ELSE OldHead
    BY <2>1, <2>2 DEF OldHead, Linked
  <2> HIDE DEF h, TypeOK, IInv, IoAssumption, Linked, OldNext, OldHead
  <2>7. Linked(next, prev', queued, IOjob)
    BY <2>1, <2>2, <2>3, <2>4, <2>5, <2>6, Removal
  <2> QED
    BY <2>1, <2>7 DEF Links
<1>13. CASE BeginBatch
  BY <1>13 DEF BeginBatch
<1>14. CASE Disable
  BY <1>14 DEF Disable
<1>15. CASE Transfer
  BY <1>15 DEF Transfer
<1>16. CASE TransferFails
  BY <1>16 DEF TransferFails
<1>17. CASE Enable
  BY <1>17 DEF Enable
<1>18. CASE EndBatch
  BY <1>18 DEF EndBatch
<1>19. CASE StartFlush
  BY <1>19 DEF StartFlush
<1>20. CASE NoFlush
  BY <1>20 DEF NoFlush
<1>21. CASE Flush
  BY <1>21 DEF Flush
<1>22. CASE UNCHANGED vars
  BY <1>22, LinksFrame DEF vars
<1> QED
  BY <1>1, <1>2, <1>3, <1>4, <1>5, <1>6, <1>7, <1>8, <1>9, <1>10, <1>11,
     <1>12, <1>13, <1>14, <1>15, <1>16, <1>17, <1>18, <1>19, <1>20, <1>21, <1>22
     DEF Next, ClientStep, DiskMgrStep, ObtainJob, Serve, Idle

\* The program starts with an empty list, a free lock and no request.
LEMMA Start == ASSUME UserClients PROVE Init => IInv
<1> SUFFICES ASSUME Init PROVE IInv
  OBVIOUS
<1> USE IoAssumption DEF IoAssumption, UserClients, Init, FreeVar
<1>1. TypeOK
  BY DEF TypeOK, Procs, Freed
<1>2. Locking
  BY DEF Locking, Depth, InCrit
<1>3. Phases
  BY DEF Phases, Freed
<1>4. Accounts
  BY DEF Accounts, JobIsLive, PendingIsAccountedFor, Taken, Freed, IO_PENDING
<1>5. Links
  BY DEF Links, Linked
<1> QED
  BY <1>1, <1>2, <1>3, <1>4, <1>5 DEF IInv

\* In every reachable state of the I/O manager the types, the ownership of the
\* lock, the phases, the accounting and the links hold together.
THEOREM Inductive == ASSUME UserClients PROVE Spec => []IInv
<1>1. IInv /\ [Next]_vars => IInv'
  BY UserClients, TypeStep, LockingStep, PhasesStep, AccountsStep, LinksStep DEF IInv
<1> QED
  BY UserClients, Start, <1>1, PTL DEF Spec

\* The variables of iosched.c keep their types, the count of the lock included.
THEOREM TypeCorrect == ASSUME UserClients PROVE Spec => []TypeOK
<1>1. IInv => TypeOK
  BY DEF IInv
<1> QED
  BY UserClients, Inductive, <1>1, PTL

\* No request is served twice, or after its owner freed it: the disk manager
\* only ever works on a pending request that it took off the list.
THEOREM LiveJob == ASSUME UserClients PROVE Spec => []JobIsLive
<1>1. IInv => JobIsLive
  BY DEF IInv, Accounts
<1> QED
  BY UserClients, Inductive, <1>1, PTL

\* No request is lost, whatever clients push while the disk manager scans and
\* unlinks: a pending one is on the list or in the disk manager's hands.
THEOREM NoneLost == ASSUME UserClients PROVE Spec => []PendingIsAccountedFor
<1>1. IInv => PendingIsAccountedFor
  BY DEF IInv, Accounts
<1> QED
  BY UserClients, Inductive, <1>1, PTL

\* While task switching is off the disk manager is in a batch, owns the lock,
\* and no client is stopped inside it.
THEOREM ExclusiveBatch == ASSUME UserClients PROVE Spec => []BatchIsExclusive
<1>1. IInv => BatchIsExclusive
  BY IoAssumption DEF IoAssumption, UserClients, IInv, Locking, Depth, InCrit, BatchIsExclusive
<1> QED
  BY UserClients, Inductive, <1>1, PTL

\* An answer stands until its owner frees the request.
THEOREM FinalAnswers == ASSUME UserClients PROVE Spec => AnswersAreFinal
<1> DEFINE Final == \A c \in Clients :
             status[c] \in {IO_COMPLETE, IO_ERROR} => status'[c] \in {status[c], Freed}
<1>1. IInv /\ [Next]_vars => [Final]_vars
  <2> SUFFICES ASSUME IInv, Next, NEW a \in Clients, status[a] \in {IO_COMPLETE, IO_ERROR}
               PROVE  status'[a] \in {status[a], Freed}
    BY DEF Final
  <2>1. \A c \in Clients : pc[c] = "requesting" => status[c] = Freed
    BY DEF IInv, Phases
  <2>2. dmpc = "serve" => handlecand \in Clients /\ status[handlecand] = IO_PENDING
    BY DEF IInv, Accounts, JobIsLive, Taken, TypeOK
  <2>3. status \in [Clients -> {IO_PENDING, IO_COMPLETE, IO_ERROR, Freed}]
    BY DEF IInv, TypeOK
  <2> QED
    BY <2>1, <2>2, <2>3 DEF Next, ClientStep, DiskMgrStep, ObtainJob, Serve, Idle,
       EnterCrit, IOcomplete, CloseIO, CachedRequest, QueueRequest, AskFlush, Look, NoJob,
       Scan, UnlinkHead, UnlinkPrev, UnlinkNext, BeginBatch, Disable, Transfer,
       TransferFails, Enable, EndBatch, StartFlush, NoFlush, Flush, Step, At, clientVars,
       IO_PENDING, IO_COMPLETE, IO_ERROR, Freed
<1>2. AnswersAreFinal <=> [][Final]_vars
  BY DEF AnswersAreFinal
<1> HIDE DEF Final
<1> QED
  BY UserClients, Inductive, <1>1, <1>2, PTL DEF Spec
------------------------------------------------------------------------------
\* The order of the list, and the service.

\* s lists the nodes of Q, each once, in the order of the forward links nx from
\* head to the null pointer.
Order(nx, Q, head, k, s) ==
  /\ \A c \in Q : \E i \in 1..k : s[i] = c
  /\ \A i, j \in 1..k : s[i] = s[j] => i = j
  /\ head = IF k = 0 THEN Nil ELSE s[1]
  /\ \A i \in 1..k : nx[s[i]] = IF i < k THEN s[i + 1] ELSE Nil

\* The links put Q in order.
Ordered(nx, Q, head) == \E k \in Nat : \E s \in [1..k -> Q] : Order(nx, Q, head, k, s)

\* Only the forward links of the nodes on the list matter to it.
LEMMA OrderedFrame ==
  ASSUME NEW nx, NEW nx2, NEW Q, NEW head,
         Ordered(nx, Q, head), \A n \in Q : nx2[n] = nx[n]
  PROVE  Ordered(nx2, Q, head)
BY DEF Ordered, Order

\* dex32_requestIO: a node pushed on the head of an ordered list comes first.
LEMMA PushOrder ==
  ASSUME NEW nx, NEW nx2, NEW Q, NEW head, NEW c, c \notin Q, 
         Ordered(nx, Q, head), nx2[c] = head, \A n \in Q : nx2[n] = nx[n]
  PROVE  Ordered(nx2, Q \cup {c}, c)
<1>0. PICK k \in Nat : \E s \in [1..k -> Q] : Order(nx, Q, head, k, s)
  BY DEF Ordered
<1>1. PICK s \in [1..k -> Q] : Order(nx, Q, head, k, s)
  BY <1>0
<1> DEFINE s2 == [i \in 1..(k + 1) |-> IF i = 1 THEN c ELSE s[i - 1]]
<1>2. s2 \in [1..(k + 1) -> Q \cup {c}]
  OBVIOUS
<1>3. \A n \in Q \cup {c} : \E i \in 1..(k + 1) : s2[i] = n
  <2>1. s2[1] = c /\ \A i \in 1..k : i + 1 \in 1..(k + 1) /\ s2[i + 1] = s[i]
    OBVIOUS
  <2> HIDE DEF s2
  <2> QED
    BY <1>1, <2>1 DEF Order
<1>4. \A i, j \in 1..(k + 1) : s2[i] = s2[j] => i = j
  <2>1. \A i \in 2..(k + 1) : i - 1 \in 1..k /\ s2[i] = s[i - 1] /\ s2[i] # c
    OBVIOUS
  <2>2. \A i, j \in 2..(k + 1) : s2[i] = s2[j] => i = j
    BY <1>1, <2>1 DEF Order
  <2>3. s2[1] = c /\ \A i \in 1..(k + 1) : i = 1 \/ i \in 2..(k + 1)
    OBVIOUS
  <2> HIDE DEF s2
  <2> QED
    BY <2>1, <2>2, <2>3
<1>5. c = IF k + 1 = 0 THEN Nil ELSE s2[1]
  OBVIOUS
<1>6. \A i \in 1..(k + 1) : nx2[s2[i]] = IF i < k + 1 THEN s2[i + 1] ELSE Nil
  <2>1. nx2[s2[1]] = IF 1 < k + 1 THEN s2[2] ELSE Nil
    BY <1>1 DEF Order
  <2>2. ASSUME NEW i \in 2..(k + 1)
        PROVE  nx2[s2[i]] = IF i < k + 1 THEN s2[i + 1] ELSE Nil
    <3>1. i - 1 \in 1..k /\ s2[i] = s[i - 1] /\ s[i - 1] \in Q
      OBVIOUS
    <3>2. nx2[s2[i]] = IF i - 1 < k THEN s[(i - 1) + 1] ELSE Nil
      BY <1>1, <3>1 DEF Order
    <3> QED
      BY <3>2
  <2>3. \A i \in 1..(k + 1) : i = 1 \/ i \in 2..(k + 1)
    OBVIOUS
  <2> HIDE DEF s2
  <2> QED
    BY <2>1, <2>2, <2>3
<1> HIDE DEF s2
<1>7. k + 1 \in Nat /\ Order(nx2, Q \cup {c}, c, k + 1, s2)
  BY <1>3, <1>4, <1>5, <1>6 DEF Order
<1> QED
  BY <1>2, <1>7 DEF Ordered

\* IOmgr_obtainjob: taking one node off leaves the others in their order.
LEMMA RemovalOrder ==
  ASSUME Nil \notin Clients,
         NEW nx \in [Clients -> Clients \cup {Nil}],
         NEW pv \in [Clients -> Clients \cup {Nil}],
         NEW Q \in SUBSET Clients, NEW h \in Clients, h \notin Q,
         NEW head \in Clients \cup {Nil},
         Linked(nx, pv, Q \cup {h}, head), Ordered(nx, Q \cup {h}, head),
         NEW nx2, \A n \in Clients : nx2[n] = IF n = pv[h] THEN nx[h] ELSE nx[n],
         NEW head2, head2 = IF head = h THEN nx[h] ELSE head
  PROVE  Ordered(nx2, Q, head2)
<1>0. PICK k \in Nat : \E s \in [1..k -> Q \cup {h}] : Order(nx, Q \cup {h}, head, k, s)
  BY DEF Ordered
<1>1. PICK s \in [1..k -> Q \cup {h}] : Order(nx, Q \cup {h}, head, k, s)
  BY <1>0
<1>2. PICK p \in 1..k : s[p] = h
  BY <1>1 DEF Order
<1>a. /\ \A i, j \in 1..k : s[i] = s[j] => i = j
      /\ head = IF k = 0 THEN Nil ELSE s[1]
      /\ \A i \in 1..k : nx[s[i]] = IF i < k THEN s[i + 1] ELSE Nil
  BY <1>1 DEF Order
<1>3. \A i \in 1..k : i # p => s[i] \in Q
  BY <1>2, <1>a
<1>4. head = h <=> p = 1
  BY <1>2, <1>a
<1>5. nx[h] = IF p < k THEN s[p + 1] ELSE Nil
  BY <1>2, <1>a
<1>6. IF p = 1 THEN pv[h] = Nil ELSE pv[h] = s[p - 1]
  <2>1. CASE p = 1
    BY <2>1, <1>4 DEF Linked
  <2>2. CASE p > 1
    <3>1. p - 1 \in 1..k /\ p - 1 < k /\ (p - 1) + 1 = p
      BY <2>2
    <3>2. nx[s[p - 1]] = h
      BY <3>1, <1>2, <1>a
    <3>3. s[p - 1] \in Q /\ h # Nil
      BY <3>1, <1>3
    <3> QED
      BY <3>2, <3>3, <2>2 DEF Linked
  <2> QED
    BY <2>1, <2>2
<1> DEFINE at(i) == IF i < p THEN i ELSE i + 1
           s2 == [i \in 1..(k - 1) |-> s[at(i)]]
<1>7. /\ k - 1 \in Nat
      /\ \A i \in 1..(k - 1) : at(i) \in 1..k /\ at(i) # p /\ s2[i] = s[at(i)]
      /\ \A i, j \in 1..(k - 1) : at(i) = at(j) => i = j
      /\ \A i \in 1..k : i # p => \E j \in 1..(k - 1) : at(j) = i
  <2>1. \A i \in 1..k : i < p => i \in 1..(k - 1) /\ at(i) = i
    OBVIOUS
  <2>2. \A i \in 1..k : i > p => i - 1 \in 1..(k - 1) /\ at(i - 1) = i
    OBVIOUS
  <2>3. \A i \in 1..k : i # p => i < p \/ i > p
    OBVIOUS
  <2>4. \A i \in 1..k : i # p => \E j \in 1..(k - 1) : at(j) = i
    <3> HIDE DEF at
    <3> QED
      BY <2>1, <2>2, <2>3
  <2> QED
    BY <2>4
<1>8. \A i \in 1..(k - 1) : /\ p = 1 => at(i) = i + 1
                            /\ i = p - 1 => at(i) + 1 = p /\ (i < k - 1 => at(i + 1) = p + 1)
                            /\ at(i) < k /\ i # p - 1 => i < k - 1 /\ at(i + 1) = at(i) + 1
                            /\ at(i) = k => i = k - 1
                            /\ i = k - 1 /\ i # p - 1 => at(i) = k
                            /\ i = p - 1 => (p < k <=> i < k - 1)
  OBVIOUS
<1>9. k > 1 => at(1) = IF p = 1 THEN 2 ELSE 1
  OBVIOUS
<1> HIDE DEF at
<1>10. s2 \in [1..(k - 1) -> Q]
  BY <1>3, <1>7
<1> HIDE DEF s2
<1>11. \A n \in Q : \E i \in 1..(k - 1) : s2[i] = n
  <2> TAKE n \in Q
  <2>1. PICK i \in 1..k : s[i] = n
    BY <1>1 DEF Order
  <2>2. PICK j \in 1..(k - 1) : at(j) = i
    BY <2>1, <1>2, <1>7
  <2> QED
    BY <2>1, <2>2, <1>7
<1>12. \A i, j \in 1..(k - 1) : s2[i] = s2[j] => i = j
  BY <1>7, <1>a
<1>13. head2 = IF k - 1 = 0 THEN Nil ELSE s2[1]
  <2>1. CASE k = 1
    BY <2>1, <1>2, <1>4, <1>5
  <2>2. CASE k > 1
    <3>1. 1 \in 1..(k - 1) /\ s2[1] = s[at(1)]
      BY <2>2, <1>7
    <3> QED
      BY <2>2, <1>4, <1>5, <1>9, <1>a, <3>1
  <2> QED
    BY <2>1, <2>2
<1>14. ASSUME NEW i \in 1..(k - 1)
       PROVE  nx2[s2[i]] = IF i < k - 1 THEN s2[i + 1] ELSE Nil
  <2>1. at(i) \in 1..k /\ s2[i] = s[at(i)] /\ s2[i] \in Clients
    BY <1>7, <1>10
  <2>2. CASE i = p - 1
    <3>1. s2[i] = pv[h]
      BY <2>1, <2>2, <1>6, <1>8
    <3>2. nx2[s2[i]] = IF p < k THEN s[p + 1] ELSE Nil
      BY <3>1, <2>1, <1>5
    <3>3. i < k - 1 => i + 1 \in 1..(k - 1) /\ s2[i + 1] = s[p + 1]
      <4>1. i < k - 1 => i + 1 \in 1..(k - 1) /\ at(i + 1) = p + 1
        BY <2>2, <1>8
      <4> QED
        BY <4>1, <1>7
    <3> QED
      BY <3>2, <3>3, <2>2, <1>8
  <2>3. CASE i # p - 1
    <3>1. s2[i] # pv[h]
      <4>1. CASE p = 1
        BY <4>1, <1>6, <1>10
      <4>2. CASE p # 1
        <5>1. pv[h] = s[p - 1] /\ p - 1 \in 1..k /\ at(i) # p - 1
          BY <4>2, <2>3, <1>6, <1>8, <2>1 DEF at
        <5> QED
          BY <5>1, <2>1, <1>a
      <4> QED
        BY <4>1, <4>2
    <3>2. nx2[s2[i]] = IF at(i) < k THEN s[at(i) + 1] ELSE Nil
      BY <3>1, <2>1, <1>a
    <3>3. i < k - 1 => i + 1 \in 1..(k - 1) /\ s2[i + 1] = s[at(i + 1)]
      BY <1>7
    <3> QED
      BY <3>2, <3>3, <2>1, <2>3, <1>8
  <2> QED
    BY <2>2, <2>3
<1>15. Order(nx2, Q, head2, k - 1, s2)
  BY <1>11, <1>12, <1>13, <1>14 DEF Order
<1> QED
  BY <1>7, <1>10, <1>15 DEF Ordered

\* The least-number principle for a set of natural numbers: what an induction
\* over a recursive function needs, without an operator for its hypothesis.
LEMMA LessThanWellFounded == IsWellFoundedOn({ss \in Nat \X Nat : ss[1] < ss[2]}, Nat)
  BY NatLessThanWellFounded DEF OpToRel

\* A nonempty set of natural numbers has a least element.
LEMMA LeastNumber == 
  ASSUME NEW T \in SUBSET Nat, T # {}
  PROVE \E m \in T : \A k \in T : m <= k
<1> DEFINE R == {ss \in Nat \X Nat : ss[1] < ss[2]}
<1>1. \A x, y \in Nat : <<y, x>> \in R <=> y < x
  OBVIOUS
<1>2. \E x \in T : \A y \in T : ~(<<y, x>> \in R)
  <2> HIDE DEF R
  <2> QED BY LessThanWellFounded, WFMin DEF R
<1>3. PICK x \in T : \A y \in T : ~(<<y, x>> \in R)
  BY <1>2
<1>4. \A y \in T : x \in Nat /\ y \in Nat /\ ~(y < x)
  BY <1>1, <1>3
<1>5. \A y \in T : x <= y
  BY <1>4
<1> QED BY <1>5

\* The hops from IOjob, as many as there are clients, visit an ordered list to
\* its end: the recursive function of Reached is the list and the null pointer.
LEMMA ReachedInOrder ==
  ASSUME IsFiniteSet(Clients), Nil \notin Clients, queued \in SUBSET Clients,
         Ordered(next, queued, IOjob)
  PROVE  Reached \ {Nil} = queued /\ Nil \in Reached
<1> DEFINE N == Cardinality(Clients)
           hops(g) == g = [n \in 0..N |->
                             IF n = 0 THEN IOjob
                             ELSE IF g[n - 1] = Nil THEN Nil ELSE next[g[n - 1]]]
           hop == CHOOSE g : hops(g)
<1>1. Reached = {hop[n] : n \in DOMAIN hop}
  BY DEF Reached
<1>2. N \in Nat
  BY FS_CardinalityType
<1> HIDE DEF N
<1>3. PICK k \in Nat : \E s \in [1..k -> queued] : Order(next, queued, IOjob, k, s)
  BY DEF Ordered
<1>4. PICK s \in [1..k -> queued] : Order(next, queued, IOjob, k, s)
  BY <1>3
<1>5. k <= N
  <2>1. s \in Injection(1..k, Clients)
    BY <1>4 DEF Order, Injection, IsInjective
  <2>2. Cardinality(1..k) = k
    BY FS_Interval
  <2> QED
    BY <2>1, <2>2, FS_Injection DEF N
<1> DEFINE f == [n \in 0..N |-> IF n < k THEN s[n + 1] ELSE Nil]
<1>6. hops(f)
  <2>1. \A n \in 0..N : n < k => f[n] = s[n + 1] /\ n + 1 \in 1..k
    BY <1>2
  <2>2. \A n \in 0..N : n < k => f[n] # Nil
    BY <2>1
  <2>3. f[0] = IOjob
    BY <1>2, <1>4, <2>1 DEF Order
  <2>4. ASSUME NEW n \in 0..N, n # 0
        PROVE  f[n] = IF f[n - 1] = Nil THEN Nil ELSE next[f[n - 1]]
    <3>1. n - 1 \in 0..N
      BY <1>2, <2>4
    <3>2. CASE n - 1 < k
      <4>1. f[n - 1] # Nil /\ f[n - 1] = s[n] /\ n \in 1..k
        BY <2>1, <2>2, <2>4, <3>1, <3>2
      <4>2. next[s[n]] = IF n < k THEN s[n + 1] ELSE Nil
        BY <1>4, <4>1 DEF Order
      <4> QED
        BY <4>1, <4>2
    <3>3. CASE ~(n - 1 < k)
      BY <3>1, <3>3, <1>2
    <3> QED
      BY <3>2, <3>3
  <2>5. f = [n \in 0..N |-> f[n]]
    OBVIOUS
  <2> HIDE DEF f
  <2> QED
    BY <2>3, <2>4, <2>5
<1>7. hops(hop)
  <2> HIDE DEF hops
  <2> QED
    BY <1>6
<1>8. \A n \in 0..N : hop[n] = f[n]
  <2> DEFINE T == {n \in 0..N : hop[n] # f[n]}
  <2>1. SUFFICES ASSUME T # {} PROVE FALSE
    OBVIOUS
  <2>2. T \in SUBSET Nat
    BY <1>2
  <2>3. PICK m \in T : \A n \in T : m <= n
    <3> HIDE DEF T
    <3> QED
      BY <2>1, <2>2, LeastNumber
  <2> HIDE DEF f, hop
  <2>4. m # 0
    BY <1>6, <1>7, <1>2
  <2>5. m - 1 \in 0..N /\ hop[m - 1] = f[m - 1]
    BY <2>3, <2>4, <1>2
  <2> QED
    BY <1>6, <1>7, <2>4, <2>5
<1>9. DOMAIN hop = 0..N
  <2> HIDE DEF hop
  <2> QED
    BY <1>7
<1>10. Reached = {f[n] : n \in 0..N}
  <2> HIDE DEF hop, f, hops
  <2> QED
    BY <1>1, <1>8, <1>9
<1>11. \A c \in queued : \E n \in 0..N : f[n] = c
  <2> TAKE c \in queued
  <2>1. PICK i \in 1..k : s[i] = c
    BY <1>4 DEF Order
  <2>2. i - 1 \in 0..N /\ f[i - 1] = c
    BY <2>1, <1>2, <1>5
  <2> QED
    BY <2>2
<1>12. \A n \in 0..N : f[n] \in queued \cup {Nil}
  BY <1>2
<1>13. f[k] = Nil /\ k \in 0..N
  BY <1>2, <1>5
<1> HIDE DEF f
<1> QED
  BY <1>10, <1>11, <1>12, <1>13

\* The list, or the old one while a node is taken off, is in order: it has no
\* cycle and loses no node, which the inverse links alone do not say.
Chain ==
  /\ dmpc \notin {"unprev", "unnext"} => Ordered(next, queued, IOjob)
  /\ dmpc = "unprev" => Ordered(next, WithJob, OldHead)
  /\ dmpc = "unnext" => Ordered(OldNext, WithJob, OldHead)

\* Steps that leave the list and the disk manager's place alone keep the order ...
LEMMA ChainFrame ==
  ASSUME Chain, UNCHANGED <<IOjob, next, prev, queued, dmpc, handlecand>>
  PROVE  Chain'
<1>1. OldNext' = OldNext /\ OldHead' = OldHead /\ WithJob' = WithJob
  BY DEF OldNext, OldHead, WithJob
<1>2. Chain' = Chain
  BY <1>1 DEF Chain, Ordered, Order
<1> QED
  BY <1>2

\* ... and so do those outside the unlinking that leave the list alone.
LEMMA ChainOutside ==
  ASSUME Chain, UNCHANGED <<IOjob, next, queued>>,
         dmpc \notin {"unprev", "unnext"}, dmpc' \notin {"unprev", "unnext"}
  PROVE  Chain'
BY DEF Chain, Ordered, Order

\* Every step keeps the list in order, the three statements of the unlinking
\* and a push or a free by a client between two scans included.
LEMMA ChainStep ==
  ASSUME UserClients PROVE IInv /\ Chain /\ [Next]_vars => Chain'
<1> SUFFICES ASSUME IInv, Chain, [Next]_vars PROVE Chain'
  OBVIOUS
<1> USE DEF Step, At, listVars, clientVars, scanVars
<1>1. ASSUME NEW c \in Clients, EnterCrit(c) PROVE Chain'
  BY <1>1, ChainFrame DEF EnterCrit
<1>2. ASSUME NEW c \in Clients, IOcomplete(c) PROVE Chain'
  BY <1>2, ChainFrame DEF IOcomplete
<1>3. ASSUME NEW c \in Clients, CloseIO(c) PROVE Chain'
  <2>1. c \notin queued /\ dmpc \notin {"unprev", "unnext"}
    BY <1>3, IoAssumption DEF CloseIO, IInv, TypeOK, Accounts, PendingIsAccountedFor, Phases,
       IO_PENDING, IO_COMPLETE, IO_ERROR, Freed, Locking, Depth, InCrit, IoAssumption
  <2>2. /\ \A n \in queued : next'[n] = next[n]
        /\ UNCHANGED <<IOjob, queued, dmpc>> /\ Ordered(next, queued, IOjob)
    BY <1>3, <2>1 DEF CloseIO, IInv, TypeOK, Chain
  <2>3. Ordered(next', queued, IOjob)
    BY <2>2, OrderedFrame
  <2> QED
    BY <2>1, <2>2, <2>3 DEF Chain
<1>4. ASSUME NEW c \in Clients, NEW r \in Requests, CachedRequest(c, r) PROVE Chain'
  BY <1>4, ChainFrame DEF CachedRequest
<1>5. ASSUME NEW c \in Clients, NEW r \in Requests, QueueRequest(c, r) PROVE Chain'
  <2>1. c \notin queued /\ dmpc \notin {"unprev", "unnext"}
    BY <1>5, IoAssumption DEF QueueRequest, IInv, TypeOK, Accounts, PendingIsAccountedFor, Phases,
       IO_PENDING, Freed, Locking, Depth, InCrit, IoAssumption
  <2>2. /\ \A n \in queued : next'[n] = next[n]
        /\ next'[c] = IOjob /\ IOjob' = c /\ queued' = queued \cup {c} /\ dmpc' = dmpc
        /\ Ordered(next, queued, IOjob)
    BY <1>5, <2>1 DEF QueueRequest, IInv, TypeOK, Chain
  <2>3. Ordered(next', queued \cup {c}, c)
    BY <2>1, <2>2, PushOrder
  <2> QED
    BY <2>1, <2>2, <2>3 DEF Chain
<1>6. CASE AskFlush
  BY <1>6, ChainFrame DEF AskFlush
<1>7. CASE Look
  BY <1>7, ChainOutside DEF Look
<1>8. CASE NoJob
  BY <1>8, ChainOutside DEF NoJob
<1>9. CASE Scan
  BY <1>9, ChainOutside DEF Scan
<1>10. CASE UnlinkHead
  <2>1. handlecand \in queued /\ Linked(next, prev, queued, IOjob)
    BY <1>10 DEF UnlinkHead, IInv, Accounts, Links
  <2>2. WithJob' = queued /\ UNCHANGED <<next, prev, handlecand>> /\ dmpc' = "unprev"
    BY <1>10, <2>1 DEF UnlinkHead, WithJob
  <2>3. OldHead' = IOjob
    BY <1>10, <2>1, <2>2 DEF UnlinkHead, OldHead, Linked
  <2>4. Ordered(next, queued, IOjob)
    BY <1>10 DEF UnlinkHead, Chain
  <2> QED
    BY <2>2, <2>3, <2>4 DEF Chain
<1>11. CASE UnlinkPrev
  <2>1. /\ UNCHANGED <<IOjob, prev, handlecand, queued>> /\ dmpc' = "unnext"
        /\ next' = [n \in Clients |-> IF n = prev[handlecand] THEN next[handlecand] ELSE next[n]]
        /\ Linked(next, prev, WithJob, OldHead) /\ Ordered(next, WithJob, OldHead)
        /\ next \in [Clients -> Clients \cup {Nil}]
    BY <1>11 DEF UnlinkPrev, IInv, Links, Chain, TypeOK
  <2>2. prev[handlecand] \in Clients => next[prev[handlecand]] = handlecand
    BY <2>1, IoAssumption DEF Linked, WithJob, IoAssumption
  <2>3. OldNext' = next
    BY <2>1, <2>2 DEF OldNext
  <2>4. WithJob' = WithJob /\ OldHead' = OldHead
    BY <2>1 DEF WithJob, OldHead
  <2> QED
    BY <2>1, <2>3, <2>4 DEF Chain
<1>12. CASE UnlinkNext
  <2> DEFINE h == handlecand
  <2>1. /\ h \in Clients /\ h \notin queued /\ OldHead \in Clients \cup {Nil}
        /\ Nil \notin Clients /\ queued \in SUBSET Clients
        /\ prev \in [Clients -> Clients \cup {Nil}]
        /\ OldNext \in [Clients -> Clients \cup {Nil}]
        /\ UNCHANGED <<IOjob, next, queued>>
        /\ dmpc' \notin {"unprev", "unnext"}
    BY <1>12, IoAssumption DEF UnlinkNext, IInv, TypeOK, Accounts, JobIsLive, Taken, OldHead,
       OldNext, IoAssumption
  <2>2. /\ Linked(OldNext, prev, queued \cup {h}, OldHead)
        /\ Ordered(OldNext, queued \cup {h}, OldHead)
        /\ prev[h] # Nil => next[prev[h]] = next[h]
        /\ prev[h] = Nil => IOjob = next[h]
        /\ OldNext[h] = next[h]
    BY <1>12 DEF UnlinkNext, IInv, Links, Chain, WithJob
  <2>3. \A n \in Clients : next[n] = IF n = prev[h] THEN OldNext[h] ELSE OldNext[n]
    BY <2>1, <2>2 DEF OldNext
  <2>4. IOjob = IF OldHead = h THEN OldNext[h] ELSE OldHead
    BY <2>1, <2>2 DEF OldHead, Linked
  <2> HIDE DEF h
  <2>5. Ordered(next, queued, IOjob)
    BY <2>1, <2>2, <2>3, <2>4, RemovalOrder
  <2>6. Ordered(next', queued', IOjob')
    BY <2>1, <2>5
  <2> QED
    BY <2>1, <2>6 DEF Chain
<1>13. CASE BeginBatch
  BY <1>13, ChainOutside DEF BeginBatch
<1>14. CASE Disable
  BY <1>14, ChainOutside DEF Disable
<1>15. CASE Transfer
  BY <1>15, ChainOutside DEF Transfer
<1>16. CASE TransferFails
  BY <1>16, ChainOutside DEF TransferFails
<1>17. CASE Enable
  BY <1>17, ChainOutside DEF Enable
<1>18. CASE EndBatch
  BY <1>18, ChainOutside DEF EndBatch
<1>19. CASE StartFlush
  BY <1>19, ChainOutside DEF StartFlush
<1>20. CASE NoFlush
  BY <1>20, ChainOutside DEF NoFlush
<1>21. CASE Flush
  BY <1>21, ChainOutside DEF Flush
<1>22. CASE UNCHANGED vars
  BY <1>22, ChainFrame DEF vars
<1> QED
  BY <1>1, <1>2, <1>3, <1>4, <1>5, <1>6, <1>7, <1>8, <1>9, <1>10, <1>11,
     <1>12, <1>13, <1>14, <1>15, <1>16, <1>17, <1>18, <1>19, <1>20, <1>21, <1>22
     DEF Next, ClientStep, DiskMgrStep, ObtainJob, Serve, Idle

\* Whatever clients push and the disk manager unlinks, the nodes reached from
\* IOjob are exactly the requests queued, and the back links are the inverse of
\* the forward links.
THEOREM QueueInOrder ==
  ASSUME UserClients, IsFiniteSet(Clients) PROVE Spec => []ListIsQueue
<1>1. Init => Chain
  <2> SUFFICES ASSUME Init PROVE Ordered(next, queued, IOjob)
    BY DEF Init, Chain
  <2> DEFINE s == [i \in 1..0 |-> Nil]
  <2>1. s \in [1..0 -> queued] /\ Order(next, queued, IOjob, 0, s)
    BY DEF Init, Order
  <2> HIDE DEF s
  <2> QED
    BY <2>1 DEF Ordered
<1>2. IInv /\ Chain => ListIsQueue
  <2> SUFFICES ASSUME IInv, Chain, dmpc \notin {"unprev", "unnext"}
               PROVE  /\ Reached \ {Nil} = queued /\ Nil \in Reached
                      /\ \A c \in queued : IF c = IOjob THEN prev[c] = Nil
                                           ELSE prev[c] # Nil /\ next[prev[c]] = c
    BY DEF ListIsQueue
  <2>1. Linked(next, prev, queued, IOjob) /\ Ordered(next, queued, IOjob)
    BY DEF IInv, Links, Chain
  <2>2. Nil \notin Clients /\ queued \in SUBSET Clients
    BY IoAssumption DEF IInv, TypeOK, IoAssumption
  <2>3. Reached \ {Nil} = queued /\ Nil \in Reached
    BY <2>1, <2>2, ReachedInOrder
  <2> QED
    BY <2>1, <2>3 DEF Linked
<1> QED
  BY UserClients, Inductive, ChainStep, <1>1, <1>2, PTL DEF Spec

\* The safety half of what iosched.c promises: every step of the clients and of
\* the disk manager submits, answers or closes one request as IoService allows, or
\* leaves all as they are.
THEOREM KeepsService ==
  ASSUME UserClients PROVE Spec => Service!Init /\ [][Service!Next]_Stage
<1>1. Init => Service!Init
  BY DEF Init, Service!Init, Stage, Freed, IO_PENDING
<1>2. IInv /\ [Next]_vars => [Service!Next]_Stage
  <2> SUFFICES ASSUME IInv, [Next]_vars PROVE [Service!Next]_Stage
    OBVIOUS
  <2> USE DEF Step, At, clientVars
  <2>1. ASSUME UNCHANGED status PROVE UNCHANGED Stage
    BY <2>1 DEF Stage
  <2> DEFINE of(v) == IF v = Freed THEN "none"
                      ELSE IF v = IO_PENDING THEN "submitted" ELSE "answered"
  <2>2. Stage = [c \in Clients |-> of(status[c])]
    BY DEF Stage, Freed, IO_PENDING
  <2>3. /\ status \in [Clients -> {IO_PENDING, IO_COMPLETE, IO_ERROR, Freed}]
        /\ of(Freed) = "none" /\ of(IO_PENDING) = "submitted"
        /\ of(IO_COMPLETE) = "answered" /\ of(IO_ERROR) = "answered"
    BY DEF IInv, TypeOK, Freed, IO_PENDING, IO_COMPLETE, IO_ERROR
  <2>4. ASSUME NEW c \in Clients, NEW v \in {Freed, IO_PENDING, IO_COMPLETE, IO_ERROR},
               status' = [status EXCEPT ![c] = v]
        PROVE  Stage[c] = of(status[c]) /\ Stage' = [Stage EXCEPT ![c] = of(v)]
    <3>1. Stage' = [n \in Clients |-> of(status'[n])]
      BY DEF Stage, Freed, IO_PENDING
    <3> HIDE DEF of
    <3> QED
      BY <2>2, <2>3, <2>4, <3>1
  <2> HIDE DEF of
  <2>5. dmpc = "serve" => handlecand \in Clients /\ status[handlecand] = IO_PENDING
    BY DEF IInv, Accounts, JobIsLive, Taken, TypeOK
  <2>6. ASSUME NEW c \in Clients, EnterCrit(c) PROVE UNCHANGED status
    BY <2>6 DEF EnterCrit
  <2>7. ASSUME NEW c \in Clients, IOcomplete(c) PROVE UNCHANGED status
    BY <2>7 DEF IOcomplete
  <2>8. ASSUME NEW c \in Clients, CloseIO(c) PROVE Service!Close(c)
    <3>1. status[c] \in {IO_COMPLETE, IO_ERROR} /\ status' = [status EXCEPT ![c] = Freed]
      BY <2>8 DEF CloseIO, IInv, Phases
    <3>2. Stage[c] = of(status[c]) /\ Stage' = [Stage EXCEPT ![c] = of(Freed)]
      BY <3>1, <2>4
    <3>3. Stage[c] = "answered" /\ Stage' = [Stage EXCEPT ![c] = "none"]
      BY <3>1, <3>2, <2>3
    <3> QED
      BY <3>3 DEF Service!Close, Service!Move
  <2>9. ASSUME NEW c \in Clients, NEW r \in Requests, CachedRequest(c, r)
        PROVE  Service!Immediate(c)
    <3>1. status[c] = Freed /\ status' = [status EXCEPT ![c] = IO_COMPLETE]
      BY <2>9 DEF CachedRequest, IInv, Phases
    <3>2. Stage[c] = of(status[c]) /\ Stage' = [Stage EXCEPT ![c] = of(IO_COMPLETE)]
      BY <3>1, <2>4
    <3>3. Stage[c] = "none" /\ Stage' = [Stage EXCEPT ![c] = "answered"]
      BY <3>1, <3>2, <2>3
    <3> QED
      BY <3>3 DEF Service!Immediate, Service!Move
  <2>10. ASSUME NEW c \in Clients, NEW r \in Requests, QueueRequest(c, r)
         PROVE  Service!Submit(c)
    <3>1. status[c] = Freed /\ status' = [status EXCEPT ![c] = IO_PENDING]
      BY <2>10 DEF QueueRequest, IInv, Phases
    <3>2. Stage[c] = of(status[c]) /\ Stage' = [Stage EXCEPT ![c] = of(IO_PENDING)]
      BY <3>1, <2>4
    <3>3. Stage[c] = "none" /\ Stage' = [Stage EXCEPT ![c] = "submitted"]
      BY <3>1, <3>2, <2>3
    <3> QED
      BY <3>3 DEF Service!Submit, Service!Move
  <2>11. CASE Transfer \/ TransferFails
    <3>1. PICK v \in {IO_COMPLETE, IO_ERROR} : status' = [status EXCEPT ![handlecand] = v]
      BY <2>11 DEF Transfer, TransferFails
    <3>2. handlecand \in Clients /\ status[handlecand] = IO_PENDING
      BY <2>11, <2>5 DEF Transfer, TransferFails
    <3>3. /\ Stage[handlecand] = of(status[handlecand])
          /\ Stage' = [Stage EXCEPT ![handlecand] = of(v)]
      BY <3>1, <3>2, <2>4
    <3>4. Stage[handlecand] = "submitted" /\ Stage' = [Stage EXCEPT ![handlecand] = "answered"]
      BY <3>2, <3>3, <2>3
    <3> QED
      BY <3>2, <3>4 DEF Service!Next, Service!Answer, Service!Move
  <2>12. CASE AskFlush \/ ObtainJob \/ Idle \/ BeginBatch \/ Disable \/ Enable \/ EndBatch
    BY <2>12, <2>1 DEF AskFlush, ObtainJob, Idle, Look, NoJob, Scan, UnlinkHead, UnlinkPrev,
       UnlinkNext, StartFlush, NoFlush, Flush, BeginBatch, Disable, Enable, EndBatch
  <2>13. CASE UNCHANGED vars
    BY <2>13, <2>1 DEF vars
  <2> QED
    BY <2>1, <2>6, <2>7, <2>8, <2>9, <2>10, <2>11, <2>12, <2>13
       DEF Next, ClientStep, DiskMgrStep, Serve, Service!Next
<1> QED
  BY UserClients, Inductive, <1>1, <1>2, PTL DEF Spec
==============================================================================
