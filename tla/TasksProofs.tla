----------------------------- MODULE TasksProofs -----------------------------
(***************************************************************************)
(* The process manager for any set of processes: the ring of control       *)
(* blocks stays whole, the CPU only goes to blocks on it, and a caller of   *)
(* get_processlist copies the blocks it has counted, but for those who get *)
(* past the lock it holds.                                                 *)
(***************************************************************************)
EXTENDS Tasks, TLAPS, FiniteSetTheorems

\* RingIsWhole, of any links nx and bf and any set R of blocks.
Linked(nx, bf, R) ==
  \A p \in R : nx[p] \in R /\ bf[nx[p]] = p /\ bf[p] \in R /\ nx[bf[p]] = p
OneRing(nx, R) ==
  \A S \in SUBSET R : S # {} /\ (\A p \in S : nx[p] \in S) => Kernel \in S
Whole(nx, bf, R) == Kernel \in R /\ Linked(nx, bf, R) /\ OneRing(nx, R)

\* The block behind the one that ran last is on the ring, even if that one
\* has just been taken off.
BehindLast == cpu = "message" => next[current_process] \in Ready

\* Who is inside the critical section, and how often it was entered.  The
\* kernel process holds nothing: its pid is that of a free lock.
Within == {p \in Procs : pc[p] \in {"hold", "leave", "list"}}
Locking ==
  /\ \A p \in Within \ {Kernel} : processmgr_busy.busy = p
  /\ processmgr_busy.busy # NoPid => processmgr_busy.wait > 0
  /\ processmgr_busy.wait = (IF Kernel \in Within THEN 1 ELSE 0)
                            + (IF Within \subseteq {Kernel} THEN 0 ELSE 1)

\* The process that is waiting for the loader.
Loading == pc[Kernel] = "load" => pc[arg[Kernel]] = "exec"

IInv == /\ TypeOK
        /\ Whole(next, before, Ready)
        /\ CpuToLive /\ BehindLast
        /\ CreatedOnce /\ Loading
        /\ Locking
        /\ ListIsWhole

------------------------------------------------------------------------------
\* The ring.

\* Inserting a block behind the head keeps the ring whole.
LEMMA EnqueueKeepsRing ==
  ASSUME NEW nx \in [Procs -> Procs], NEW bf \in [Procs -> Procs],
         NEW R \in SUBSET Procs, NEW q \in Procs, q \notin R,
         Whole(nx, bf, R),
         NEW nx2, nx2 = [nx EXCEPT ![q] = nx[Kernel], ![Kernel] = q],
         NEW bf2, bf2 = [bf EXCEPT ![nx[Kernel]] = q, ![q] = Kernel]
  PROVE  Whole(nx2, bf2, R \cup {q})
<1>1. /\ Kernel \in R /\ nx[Kernel] \in R /\ nx[Kernel] # q /\ q # Kernel
  BY DEF Whole, Linked
<1>2. \A x \in Procs : nx2[x] = IF x = Kernel THEN q ELSE IF x = q THEN nx[Kernel] ELSE nx[x]
  BY <1>1
<1>3. \A x \in Procs : bf2[x] = IF x = q THEN Kernel ELSE IF x = nx[Kernel] THEN q ELSE bf[x]
  BY <1>1
<1>4. Linked(nx2, bf2, R \cup {q})
  BY <1>1, <1>2, <1>3 DEF Whole, Linked
<1>5. OneRing(nx2, R \cup {q})
  <2> SUFFICES ASSUME NEW S \in SUBSET (R \cup {q}), S # {}, \A x \in S : nx2[x] \in S,
                      Kernel \notin S
               PROVE  FALSE
    BY DEF OneRing
  <2>1. q \notin S \/ nx[Kernel] \in S
    BY <1>1, <1>2
  <2>2. \A x \in S \ {q} : nx[x] \in S \ {q}
    BY <1>1, <1>2 DEF Whole, Linked
  <2>3. S \ {q} # {}
    BY <1>1, <2>1
  <2> QED
    BY <2>2, <2>3 DEF Whole, OneRing
<1> QED
  BY <1>1, <1>4, <1>5 DEF Whole

\* A block other than the head is followed by another one.
LEMMA NotAlone ==
  ASSUME NEW nx \in [Procs -> Procs], NEW bf \in [Procs -> Procs],
         NEW R \in SUBSET Procs, NEW q \in R, q # Kernel,
         Whole(nx, bf, R)
  PROVE  nx[q] # q /\ bf[q] # q
<1>1. nx[q] # q
  <2> SUFFICES ASSUME nx[q] = q PROVE FALSE
    OBVIOUS
  <2>1. {q} \in SUBSET R /\ {q} # {} /\ \A x \in {q} : nx[x] \in {q}
    OBVIOUS
  <2> QED
    BY <2>1 DEF Whole, OneRing
<1> QED
  BY <1>1 DEF Whole, Linked

\* Taking a block other than the head off keeps the ring whole.
LEMMA DequeueKeepsRing ==
  ASSUME NEW nx \in [Procs -> Procs], NEW bf \in [Procs -> Procs],
         NEW R \in SUBSET Procs, NEW q \in R, q # Kernel,
         Whole(nx, bf, R),
         NEW nx2, nx2 = [nx EXCEPT ![bf[q]] = nx[q]],
         NEW bf2, bf2 = [bf EXCEPT ![nx[q]] = bf[q]]
  PROVE  Whole(nx2, bf2, R \ {q})
<1>1. /\ nx[q] \in R /\ bf[q] \in R /\ nx[q] # q /\ bf[q] # q
      /\ bf[nx[q]] = q /\ nx[bf[q]] = q
  BY NotAlone DEF Whole, Linked
<1>2. \A x \in Procs : nx2[x] = IF x = bf[q] THEN nx[q] ELSE nx[x]
  BY <1>1
<1>3. \A x \in Procs : bf2[x] = IF x = nx[q] THEN bf[q] ELSE bf[x]
  BY <1>1
<1>4. Linked(nx2, bf2, R \ {q})
  BY <1>1, <1>2, <1>3 DEF Whole, Linked
<1>5. OneRing(nx2, R \ {q})
  <2> SUFFICES ASSUME NEW S \in SUBSET (R \ {q}), S # {}, \A x \in S : nx2[x] \in S
               PROVE  Kernel \in S
    BY DEF OneRing
  <2>1. CASE bf[q] \in S
    <3> DEFINE T == S \cup {q}
    <3>1. T \in SUBSET R /\ T # {}
      OBVIOUS
    <3>2. nx[q] \in T
      BY <1>1, <1>2, <2>1
    <3>3. \A x \in T : nx[x] \in T
      BY <1>1, <1>2, <3>2
    <3>4. Kernel \in T
      BY <3>1, <3>3 DEF Whole, OneRing
    <3> QED
      BY <3>4
  <2>2. CASE bf[q] \notin S
    <3>1. \A x \in S : nx[x] \in S
      BY <1>2, <2>2
    <3> QED
      BY <3>1 DEF Whole, OneRing
  <2> QED
    BY <2>1, <2>2
<1> QED
  BY <1>4, <1>5 DEF Whole
------------------------------------------------------------------------------
\* Every step keeps the types.
LEMMA TypeStep == IInv /\ [Next]_vars => TypeOK'
<1> SUFFICES ASSUME IInv, [Next]_vars PROVE TypeOK'
  OBVIOUS
<1> USE TasksAssumption DEF TasksAssumption, IInv, TypeOK, ringVars, blockVars, waitVars,
    cpuVars, sigVars, lockVars, listVars, Step, Runs, Kernel
<1>0. ASSUME NEW p \in Procs PROVE Entered(processmgr_busy, p) \in SyncVars(Procs)
  BY DEF Entered, SyncVars
<1>0a. ASSUME NEW b \in SyncVars(Procs) PROVE Left(b) \in SyncVars(Procs)
  BY DEF Left, SyncVars
<1>0b. ASSUME SpinForGood PROVE TypeOK'
  BY <1>0b DEF SpinForGood
<1>1. ASSUME NEW p \in Procs, EnterCrit(p) PROVE TypeOK'
  BY <1>1, <1>0, <1>0a, <1>0b DEF EnterCrit
<1>2. ASSUME NEW p \in Procs, Enqueue(p) PROVE TypeOK'
  BY <1>2, <1>0, <1>0a, <1>0b DEF sched_enqueue, Enqueue, Intrudes
<1>3. ASSUME NEW p \in Procs, LeaveCrit(p) PROVE TypeOK'
  BY <1>3, <1>0, <1>0a, <1>0b DEF LeaveCrit
<1>4. ASSUME NEW p \in Procs, WaitPid(p) PROVE TypeOK'
  BY <1>4, <1>0, <1>0a, <1>0b DEF Forget, WaitPid
<1>4a. ASSUME NEW p \in Procs, CountList(p) PROVE TypeOK'
  <2>1. Cardinality(Ready) \in Nat
    BY FS_Subset, FS_CardinalityType DEF Ready
  <2> QED
    BY <1>4a, <1>0, <2>1 DEF CountList
<1>5. ASSUME NEW p \in Procs, KillPicked(p) PROVE TypeOK'
  BY <1>5, <1>0, <1>0a, <1>0b DEF Forget, KillPicked
<1>6. ASSUME NEW p \in Procs, ShowPicked(p) PROVE TypeOK'
  BY <1>6, <1>0, <1>0a, <1>0b DEF Forget, ShowPicked
<1>7. ASSUME NEW p \in Procs, NEW q \in Procs, LeaveList(p, q) PROVE TypeOK'
  BY <1>7, <1>0, <1>0a, <1>0b DEF LeaveList
<1>8. ASSUME NEW p \in Procs, addmodule(p) PROVE TypeOK'
  BY <1>8, <1>0, <1>0a, <1>0b DEF addmodule
<1>9. ASSUME NEW p \in Procs, Dispatch(p) PROVE TypeOK'
  BY <1>9, <1>0, <1>0a, <1>0b DEF Dispatch
<1>10. ASSUME NEW p \in Procs, dex32_setservice(p) PROVE TypeOK'
  BY <1>10, <1>0, <1>0a, <1>0b DEF PassThrough, dex32_setservice
<1>11. ASSUME NEW p \in Procs, dex32_wait(p) PROVE TypeOK'
  BY <1>11, <1>0, <1>0a, <1>0b DEF dex32_wait
<1>12. ASSUME NEW p \in Procs, exit(p) PROVE TypeOK'
  BY <1>12, <1>0, <1>0a, <1>0b DEF exit
<1>13. ASSUME NEW p \in Procs, NEW q \in Procs, createkthread(p, q) PROVE TypeOK'
  BY <1>13, <1>0, <1>0a, <1>0b DEF createkthread
<1>14. ASSUME NEW p \in Procs, NEW q \in Procs, ps_user_kill(p, q) PROVE TypeOK'
  BY <1>14, <1>0, <1>0a, <1>0b DEF ps_user_kill
<1>15. ASSUME NEW p \in Procs, NEW q \in Procs, createuthread(p, q) PROVE TypeOK'
  BY <1>15, <1>0, <1>0a, <1>0b DEF sched_enqueue, createuthread, Intrudes
<1>16. ASSUME NEW p \in Procs, NEW val \in 1 .. MaxSleep, sleep(p, val) PROVE TypeOK'
  BY <1>16, <1>0, <1>0a, <1>0b DEF sleep
<1>17. CASE LoadFails
  BY <1>17, <1>0, <1>0a, <1>0b DEF Forget, LoadFails
<1>18. ASSUME NEW q \in Procs, createprocess(q) PROVE TypeOK'
  BY <1>18, <1>0, <1>0a, <1>0b DEF createprocess
<1>19. CASE signal_foreground
  BY <1>19, <1>0, <1>0a, <1>0b DEF signal_foreground
<1>20. ASSUME NEW q \in Procs, kill_foreground(q) PROVE TypeOK'
  BY <1>20, <1>0, <1>0a, <1>0b DEF kill_foreground
<1>21. ASSUME NEW q \in Procs, console_new(q) PROVE TypeOK'
  <2>1. CASE ~SpinForGood
    <3>1. processmgr_busy' \in SyncVars(Procs)
      BY <1>21, <2>1, <1>0, <1>0a DEF PassThrough, console_new
    <3>2. next' \in [Procs -> Procs] /\ before' \in [Procs -> Procs]
      BY <1>21, <2>1 DEF sched_enqueue, console_new
    <3>3. /\ pcb' = [pcb EXCEPT ![q] = "ready"]
          /\ owner' = [owner EXCEPT ![q] = current_process]
      BY <1>21, <2>1 DEF console_new
    <3>4. pcb' \in [Procs -> {"none", "made", "ready", "freed"}]
      BY <3>3
    <3>5. owner' \in [Procs -> Procs]
      BY <3>3
    <3>6. UNCHANGED <<waitVars, pc, arg, total, cpuVars, sigVars>> /\ changed' \subseteq Procs
      BY <1>21, <2>1 DEF console_new, Intrudes
    <3> QED
      BY <3>1, <3>2, <3>4, <3>5, <3>6
  <2>2. CASE SpinForGood
    BY <2>2, <1>0b
  <2> QED
    BY <1>21, <2>1, <2>2 DEF console_new
<1>22. CASE Timer
  BY <1>22, <1>0, <1>0a, <1>0b DEF Timer
<1>23. CASE Terminate
  <2>1. CASE sigterm = NoPid
    BY <1>23, <2>1, <1>0b DEF Terminate
  <2>2. CASE SpinForGood
    BY <2>2, <1>0b
  <2>3. CASE sigterm # NoPid /\ ~SpinForGood
    <3>1. /\ kill_process(sigterm) /\ PassThrough(current_process)
          /\ sigterm' = NoPid /\ cpu' = "message"
          /\ UNCHANGED <<owner, waiting, pc, arg, total, current_process, ptr, sched_sysmes>>
      BY <1>23, <2>3 DEF Terminate
    <3>2. processmgr_busy' \in SyncVars(Procs)
      BY <3>1, <1>0, <1>0a DEF PassThrough
    <3>3. CASE UNCHANGED <<ringVars, pcb, childwait, changed>>
      BY <3>1, <3>2, <3>3
    <3>4. CASE sched_dequeue(sigterm) /\ Intrudes({current_process, Kernel})
               /\ pcb' = [pcb EXCEPT ![sigterm] = "freed"]
               /\ childwait' = [childwait EXCEPT ![owner[sigterm]] =
                    IF Kind[sigterm] = "user" /\ owner[sigterm] \in Ready THEN 0 ELSE @]
      <4>1. next' \in [Procs -> Procs] /\ before' \in [Procs -> Procs]
        BY <3>4 DEF sched_dequeue
      <4>2. /\ pcb' \in [Procs -> {"none", "made", "ready", "freed"}]
            /\ childwait' \in [Procs -> Nat] /\ changed' \subseteq Procs
        BY <3>4 DEF Intrudes
      <4> QED
        BY <3>1, <3>2, <4>1, <4>2
    <3> QED
      BY <3>1, <3>3, <3>4 DEF kill_process
  <2> QED
    BY <2>1, <2>2, <2>3
<1>24. CASE SendMessage
  <2>1. CASE cpu' = "pick" /\ sched_sysmes' = FALSE /\ ptr' = next[current_process]
    BY <1>24, <2>1 DEF SendMessage, SpinForGood
  <2>2. CASE SpinForGood
    BY <2>2, <1>0b
  <2> QED
    BY <1>24, <2>1, <2>2 DEF SendMessage
<1>25. CASE PassOver
  BY <1>25, <1>0, <1>0a, <1>0b DEF PassOver
<1>26. CASE SwitchTo
  BY <1>26, <1>0, <1>0a, <1>0b DEF SwitchTo
<1>27. CASE Spin
  BY <1>27 DEF Spin, vars
<1>28. CASE UNCHANGED vars
  BY <1>28 DEF vars
<1> QED
  BY <1>1, <1>2, <1>3, <1>4, <1>4a, <1>5, <1>6, <1>7, <1>8, <1>9, <1>10, <1>11, <1>12,
     <1>13, <1>14, <1>15, <1>16, <1>17, <1>18, <1>19, <1>20, <1>21, <1>22, <1>23, <1>24,
     <1>25, <1>26, <1>27, <1>28
     DEF Next, KernelCode, Request, Loader, Keyboard, Switcher

------------------------------------------------------------------------------
\* The steps that put a block on the ring ...
Puts(q) ==
  \/ \E p \in Procs : Enqueue(p) /\ q = arg[p]
  \/ \E p \in Procs : createuthread(p, q)
  \/ console_new(q) /\ ~SpinForGood

\* ... do it with a block that is not there yet,
LEMMA PutStep ==
  ASSUME IInv, NEW q \in Procs, Puts(q)
  PROVE  q \notin Ready /\ sched_enqueue(q) /\ Ready' = Ready \cup {q}
<1> USE DEF IInv, TypeOK
<1>1. ASSUME NEW p \in Procs, Enqueue(p), q = arg[p]
      PROVE  pcb[q] = "made" /\ sched_enqueue(q) /\ pcb' = [pcb EXCEPT ![q] = "ready"]
  BY <1>1 DEF Enqueue, CreatedOnce, Creating, Step
<1>2. ASSUME NEW p \in Procs, createuthread(p, q)
      PROVE  pcb[q] = "none" /\ sched_enqueue(q) /\ pcb' = [pcb EXCEPT ![q] = "ready"]
  BY <1>2 DEF createuthread
<1>3. ASSUME console_new(q), ~SpinForGood
      PROVE  pcb[q] = "none" /\ sched_enqueue(q) /\ pcb' = [pcb EXCEPT ![q] = "ready"]
  BY <1>3 DEF console_new
<1>4. /\ pcb[q] \in {"none", "made"} /\ sched_enqueue(q)
      /\ pcb' = [pcb EXCEPT ![q] = "ready"]
  BY <1>1, <1>2, <1>3 DEF Puts
<1> QED
  BY <1>4 DEF Ready

\* the task switcher takes a block off that is on it, and not the kernel's,
Takes(q) ==
  /\ Terminate /\ q = sigterm /\ q \in Ready \ {Kernel}
  /\ sched_dequeue(q) /\ Ready' = Ready \ {q} /\ pcb' = [pcb EXCEPT ![q] = "freed"]
  /\ Free(current_process) /\ PassThrough(current_process)
  /\ Intrudes({current_process, Kernel})
  /\ cpu' = "message" /\ current_process' = current_process

Quiet == UNCHANGED <<next, before>> /\ Ready' = Ready

\* The task switcher's kill takes the process off the ring, or does nothing to it,
LEMMA TerminateStep ==
  ASSUME IInv, Terminate
  PROVE  Takes(sigterm) \/ (Quiet /\ UNCHANGED pcb)
<1> USE DEF IInv, TypeOK, Quiet, Ready
<1>1. CASE SpinForGood
  BY <1>1 DEF SpinForGood, ringVars, blockVars
<1>2. CASE ~SpinForGood /\ sigterm = NoPid
  BY <1>2 DEF Terminate, ringVars, blockVars, kill_process
<1>3. CASE ~SpinForGood /\ sigterm # NoPid
  <2>1. /\ Free(current_process) /\ kill_process(sigterm) /\ PassThrough(current_process)
        /\ cpu' = "message" /\ current_process' = current_process
    BY <1>3 DEF Terminate
  <2>2. CASE sigterm \notin Ready \/ Kind[sigterm] = "sys"
    BY <2>1, <2>2 DEF kill_process, ringVars
  <2>3. CASE ~(sigterm \notin Ready \/ Kind[sigterm] = "sys")
    <3>1. /\ sched_dequeue(sigterm) /\ pcb' = [pcb EXCEPT ![sigterm] = "freed"]
          /\ Intrudes({current_process, Kernel})
      BY <2>1, <2>3 DEF kill_process
    <3>2. Ready' = Ready \ {sigterm}
      BY <3>1
    <3> QED
      BY <1>3, <2>1, <2>3, <3>1, <3>2 DEF Takes, Kernel
  <2> QED
    BY <2>2, <2>3
<1> QED
  BY <1>1, <1>2, <1>3

\* and every other step leaves the ring alone.
LEMMA RingSteps ==
  ASSUME IInv, [Next]_vars
  PROVE  (\E q \in Procs : Puts(q) \/ Takes(q)) \/ Quiet
<1>0. Terminate => (\E q \in Procs : Takes(q)) \/ Quiet
  <2>1. sigterm \in Procs
    BY DEF IInv, TypeOK
  <2> QED
    BY <2>1, TerminateStep
<1> USE DEF IInv, TypeOK, Quiet, Ready, ringVars, blockVars
<1>1. ASSUME NEW p \in Procs, KernelCode(p) PROVE (\E q \in Procs : Puts(q)) \/ Quiet
  BY <1>1 DEF KernelCode, Puts, EnterCrit, CountList, LeaveCrit, WaitPid,
     KillPicked, ShowPicked, LeaveList
<1>2. ASSUME NEW p \in Procs, Request(p) PROVE (\E q \in Procs : Puts(q)) \/ Quiet
  BY <1>2 DEF Request, Puts, addmodule, Dispatch, dex32_setservice, dex32_wait, exit,
     createkthread, ps_user_kill, sleep, SpinForGood
<1>3. CASE Loader
  BY <1>3 DEF Loader, LoadFails, createprocess
<1>4. CASE Keyboard
  BY <1>4 DEF Keyboard, Puts, signal_foreground, kill_foreground, console_new, SpinForGood
<1>5. CASE Switcher
  <2>1. CASE Terminate
    BY <1>0, <2>1
  <2>2. CASE ~Terminate
    BY <1>5, <2>2 DEF Switcher, Timer, SendMessage, PassOver, SwitchTo, Spin,
       SpinForGood, vars
  <2> QED
    BY <2>1, <2>2
<1>6. CASE UNCHANGED vars
  BY <1>6 DEF vars
<1> QED
  BY <1>1, <1>2, <1>3, <1>4, <1>5, <1>6 DEF Next

\* So every step keeps the ring whole.
LEMMA RingStep == IInv /\ [Next]_vars => Whole(next, before, Ready)'
<1> SUFFICES ASSUME IInv, [Next]_vars PROVE Whole(next', before', Ready')
  BY DEF Whole, Linked, OneRing
<1>0. /\ next \in [Procs -> Procs] /\ before \in [Procs -> Procs] /\ Ready \in SUBSET Procs
      /\ Whole(next, before, Ready)
  BY DEF IInv, TypeOK, Ready
<1>1. ASSUME NEW q \in Procs, Puts(q) PROVE Whole(next', before', Ready')
  BY <1>0, <1>1, PutStep, EnqueueKeepsRing DEF sched_enqueue
<1>2. ASSUME NEW q \in Procs, Takes(q) PROVE Whole(next', before', Ready')
  BY <1>0, <1>2, DequeueKeepsRing DEF Takes, sched_dequeue
<1>3. CASE Quiet
  BY <1>0, <1>3 DEF Quiet
<1> QED
  BY <1>1, <1>2, <1>3, RingSteps

------------------------------------------------------------------------------
\* The CPU and the scheduler's pointer stay on the ring.
LEMMA CpuStep == IInv /\ [Next]_vars => CpuToLive' /\ BehindLast'
<1> SUFFICES ASSUME IInv, [Next]_vars PROVE CpuToLive' /\ BehindLast'
  OBVIOUS
<1> USE DEF CpuToLive, BehindLast
<1>0. /\ next \in [Procs -> Procs] /\ before \in [Procs -> Procs] /\ current_process \in Procs
      /\ Kernel \in Ready /\ Linked(next, before, Ready) /\ Ready \in SUBSET Procs
      /\ CpuToLive /\ BehindLast
  BY DEF IInv, TypeOK, Ready, Whole
<1>1. ASSUME NEW q \in Procs, Puts(q) PROVE CpuToLive' /\ BehindLast'
  <2>1. cpu = "task" /\ UNCHANGED <<cpu, current_process>>
    BY <1>1 DEF Puts, Enqueue, createuthread, console_new, Step, Runs, cpuVars
  <2> QED
    BY <1>0, <1>1, <2>1, PutStep
<1>2. ASSUME NEW q \in Procs, Takes(q) PROVE CpuToLive' /\ BehindLast'
  <2>1. cpu' = "message" /\ current_process' = current_process /\ Ready' = Ready \ {q}
    BY <1>2 DEF Takes
  <2>2. q \in Ready /\ q # Kernel /\ Whole(next, before, Ready) /\ current_process \in Ready
    BY <1>0, <1>2 DEF IInv, Takes, Terminate
  <2>3. next[q] \in Ready \ {q} /\ before[q] \in Ready \ {q}
    BY <1>0, <2>2, NotAlone DEF Linked
  <2>4. \A x \in Procs : next'[x] = IF x = before[q] THEN next[q] ELSE next[x]
    BY <1>0, <1>2 DEF Takes, sched_dequeue
  <2>5. next'[current_process] \in Ready \ {q}
    BY <1>0, <2>2, <2>3, <2>4 DEF Linked
  <2> QED
    BY <2>1, <2>5
<1>3. CASE Quiet
  <2>1. ASSUME Terminate PROVE CpuToLive' /\ BehindLast'
    BY <1>0, <1>3, <2>1 DEF Terminate, SpinForGood, Quiet, Linked
  <2>2. ASSUME SendMessage PROVE CpuToLive' /\ BehindLast'
    BY <1>0, <1>3, <2>2 DEF SendMessage, SpinForGood, Quiet
  <2>3. ASSUME PassOver \/ SwitchTo PROVE CpuToLive' /\ BehindLast'
    BY <1>0, <1>3, <2>3 DEF PassOver, SwitchTo, Quiet, Linked
  <2>4. ASSUME Timer \/ Keyboard \/ Loader PROVE CpuToLive' /\ BehindLast'
    BY <1>0, <1>3, <2>4 DEF Timer, Keyboard, Loader, signal_foreground, kill_foreground,
       console_new, LoadFails, createprocess, SpinForGood, Quiet, cpuVars, Step, Runs
  <2>5. ASSUME NEW p \in Procs, KernelCode(p) PROVE CpuToLive' /\ BehindLast'
    BY <1>0, <1>3, <2>5 DEF KernelCode, EnterCrit, CountList, Enqueue, LeaveCrit, WaitPid,
       KillPicked, ShowPicked, LeaveList, Quiet, cpuVars, Step, Runs
  <2>6. ASSUME NEW p \in Procs, Request(p) PROVE CpuToLive' /\ BehindLast'
    BY <1>0, <1>3, <2>6 DEF Request, addmodule, Dispatch, dex32_setservice, dex32_wait, exit,
       createkthread, ps_user_kill, createuthread, sleep, SpinForGood, Quiet, cpuVars, Step, Runs
  <2>7. ASSUME Spin \/ UNCHANGED vars PROVE CpuToLive' /\ BehindLast'
    BY <1>0, <1>3, <2>7 DEF Spin, vars, cpuVars, Quiet
  <2> QED
    BY <2>1, <2>2, <2>3, <2>4, <2>5, <2>6, <2>7 DEF Next, Switcher
<1> QED
  BY <1>1, <1>2, <1>3, RingSteps

\* A block being created stays in the hands of one process.
LEMMA CreatedStep == IInv /\ [Next]_vars => CreatedOnce'
<1> SUFFICES ASSUME IInv, [Next]_vars PROVE CreatedOnce'
  OBVIOUS
<1> USE DEF IInv, TypeOK, CreatedOnce, Creating
<1>1. ASSUME NEW p \in Procs, NEW q \in Procs, createkthread(p, q) PROVE CreatedOnce'
  BY <1>1 DEF createkthread, Step
<1>2. ASSUME NEW q \in Procs, createprocess(q) PROVE CreatedOnce'
  BY <1>2, TasksAssumption DEF createprocess, Step, TasksAssumption
<1>3. ASSUME NEW p \in Procs, Enqueue(p) PROVE CreatedOnce'
  BY <1>3 DEF Enqueue, Step
<1>4. ASSUME NEW p \in Procs, EnterCrit(p) PROVE CreatedOnce'
  BY <1>4 DEF EnterCrit, Step, blockVars
<1>4a. ASSUME NEW p \in Procs, CountList(p) PROVE CreatedOnce'
  BY <1>4a DEF CountList, Step, blockVars
<1>5. ASSUME NEW p \in Procs, LeaveCrit(p) PROVE CreatedOnce'
  BY <1>5 DEF LeaveCrit, blockVars
<1>6. ASSUME NEW p \in Procs, WaitPid(p) \/ KillPicked(p) \/ ShowPicked(p) PROVE CreatedOnce'
  <2>1. /\ pc' = [pc EXCEPT ![p] = "run"] /\ arg' = [arg EXCEPT ![p] = Kernel] /\ pcb' = pcb
    BY <1>6 DEF WaitPid, KillPicked, ShowPicked, Step, Forget, blockVars
  <2> QED
    BY <2>1
<1>7. ASSUME NEW p \in Procs, NEW q \in Procs, LeaveList(p, q) PROVE CreatedOnce'
  BY <1>7 DEF LeaveList, Step, blockVars
<1>8. ASSUME NEW p \in Procs, addmodule(p) \/ Dispatch(p) \/ exit(p) PROVE CreatedOnce'
  <2>1. CASE addmodule(p) \/ exit(p)
    BY <2>1 DEF addmodule, exit, Step, blockVars
  <2>2. CASE Dispatch(p)
    <3>1. Kernel \in Procs
      BY TasksAssumption DEF TasksAssumption
    <3> QED
      BY <2>2, <3>1 DEF Dispatch, Step, blockVars
  <2> QED
    BY <1>8, <2>1, <2>2
<1>9. CASE LoadFails
  BY <1>9, TasksAssumption DEF LoadFails, Forget, Runs, blockVars, TasksAssumption
<1>10. ASSUME UNCHANGED <<pcb, pc, arg>> PROVE CreatedOnce'
  BY <1>10
<1>11. ASSUME NEW q \in Procs, pcb[q] \in {"none", "ready"},
              \E st \in {"ready", "freed"} : pcb' = [pcb EXCEPT ![q] = st],
              UNCHANGED <<pc, arg>>
       PROVE  CreatedOnce'
  BY <1>11
<1>12. ASSUME NEW p \in Procs, NEW q \in Procs, createuthread(p, q) PROVE CreatedOnce'
  BY <1>11, <1>12 DEF createuthread
<1>13. ASSUME NEW q \in Procs, console_new(q) PROVE CreatedOnce'
  BY <1>10, <1>11, <1>13 DEF console_new, SpinForGood, blockVars
<1>14. CASE Terminate
  <2>1. UNCHANGED <<pc, arg>>
    BY <1>14 DEF Terminate, SpinForGood
  <2> QED
    BY <1>10, <1>11, <1>14, <2>1, TerminateStep DEF Takes, Ready
<1>15. ASSUME NEW p \in Procs, NEW q \in Procs, dex32_setservice(p) \/ dex32_wait(p)
              \/ ps_user_kill(p, q) \/ kill_foreground(q)
       PROVE  CreatedOnce'
  BY <1>10, <1>15 DEF dex32_setservice, dex32_wait, ps_user_kill, kill_foreground, SpinForGood, blockVars
<1>16. ASSUME NEW p \in Procs, NEW val \in 1 .. MaxSleep, sleep(p, val) PROVE CreatedOnce'
  BY <1>10, <1>16 DEF sleep, blockVars
<1>17. CASE signal_foreground \/ Timer \/ SendMessage \/ PassOver \/ SwitchTo \/ Spin
           \/ UNCHANGED vars
  BY <1>10, <1>17 DEF signal_foreground, Timer, SendMessage, PassOver, SwitchTo, Spin,
     SpinForGood, blockVars, vars
<1> QED
  BY <1>1, <1>2, <1>3, <1>4, <1>4a, <1>5, <1>6, <1>7, <1>8, <1>9, <1>12, <1>13, <1>14,
     <1>15, <1>16, <1>17 DEF Next, KernelCode, Request, Loader, Keyboard, Switcher

------------------------------------------------------------------------------
\* Who is inside, and what the lock says about it, move together.
Keeps == UNCHANGED processmgr_busy /\ Within' = Within
Passing == Within' = Within /\ \E p \in Procs : Free(p) /\ PassThrough(p)
Enters(p) == /\ p \notin Within /\ Within' = Within \cup {p}
             /\ Free(p) /\ processmgr_busy' = Entered(processmgr_busy, p)
Leaves(p) == /\ p \in Within /\ Within' = Within \ {p}
             /\ processmgr_busy' = Left(processmgr_busy)

\* A step that enters, leaves or passes by the lock keeps it with who is within.
LEMMA LockMoves ==
  ASSUME IInv,
         Keeps \/ Passing \/ \E p \in Procs : Enters(p) \/ Leaves(p)
  PROVE  Locking'
<1> USE DEF Locking
<1>0. /\ processmgr_busy \in SyncVars(Procs) /\ Kernel \in Procs
      /\ Within \subseteq Procs /\ Locking
  BY TasksAssumption DEF TasksAssumption, IInv, TypeOK, Within
<1>1. CASE Keeps
  BY <1>0, <1>1 DEF Keeps
<1>2. ASSUME NEW p \in Procs, Within' = Within, Free(p), PassThrough(p) PROVE Locking'
  BY <1>0, <1>2 DEF Free, PassThrough, Passes, Entered, Left, SyncVars, Kernel
<1>3. ASSUME NEW p \in Procs, Enters(p) PROVE Locking'
  BY <1>0, <1>3 DEF Enters, Free, Passes, Entered, SyncVars, Kernel
<1>4. ASSUME NEW p \in Procs, Leaves(p) PROVE Locking'
  BY <1>0, <1>4 DEF Leaves, Left, SyncVars, Kernel
<1> QED
  BY <1>1, <1>2, <1>3, <1>4 DEF Passing

\* Every step keeps the lock with who is inside.
LEMMA LockingStep == IInv /\ [Next]_vars => Locking'
<1> SUFFICES ASSUME IInv, [Next]_vars
             PROVE  Keeps \/ Passing \/ \E p \in Procs : Enters(p) \/ Leaves(p)
  BY LockMoves
<1>0. pc \in [Procs -> {"run", "exec", "child", "load", "create", "hold", "leave",
                       "list", "picked", "exited"}] /\ current_process \in Procs
      /\ Kernel \in Procs
  BY TasksAssumption DEF TasksAssumption, IInv, TypeOK
<1>1. ASSUME NEW p \in Procs, EnterCrit(p) PROVE Enters(p)
  BY <1>0, <1>1 DEF EnterCrit, Enters, Step, Within
<1>1a. ASSUME NEW p \in Procs, CountList(p) PROVE Enters(p)
  BY <1>0, <1>1a DEF CountList, Enters, Step, Within
<1>2. ASSUME NEW p \in Procs, Enqueue(p) PROVE Keeps
  BY <1>0, <1>2 DEF Enqueue, Keeps, Step, Within
<1>3. ASSUME NEW p \in Procs, LeaveCrit(p) PROVE Leaves(p)
  BY <1>0, <1>3 DEF LeaveCrit, Leaves, Within
<1>4. ASSUME NEW p \in Procs, NEW q \in Procs, LeaveList(p, q) PROVE Leaves(p)
  BY <1>0, <1>4 DEF LeaveList, Leaves, Step, Within
<1>5. ASSUME NEW p \in Procs, WaitPid(p) \/ KillPicked(p) \/ ShowPicked(p) PROVE Keeps
  BY <1>0, <1>5 DEF WaitPid, KillPicked, ShowPicked, Keeps, lockVars, Step, Within
<1>6. ASSUME NEW p \in Procs, addmodule(p) \/ Dispatch(p) \/ exit(p) PROVE Keeps
  BY <1>0, <1>6 DEF addmodule, Dispatch, exit, Keeps, lockVars, Step, Within
<1>7. ASSUME NEW p \in Procs, NEW q \in Procs, createkthread(p, q) \/ createprocess(q)
      PROVE  Keeps
  BY <1>0, <1>7 DEF createkthread, createprocess, Keeps, lockVars, Step, Within
<1>8. CASE LoadFails
  BY <1>0, <1>8 DEF LoadFails, IInv, TypeOK, Loading, Keeps, lockVars, Within
<1>9. UNCHANGED <<pc, processmgr_busy>> => Keeps
  BY DEF Keeps, Within
<1>10. SpinForGood => Keeps
  BY <1>9 DEF SpinForGood, lockVars
<1>11. ASSUME NEW p \in Procs, UNCHANGED pc, Free(p), PassThrough(p) PROVE Passing
  BY <1>11 DEF Passing, Within
<1>12. ASSUME NEW p \in Procs, dex32_setservice(p) PROVE Keeps \/ Passing
  BY <1>10, <1>11, <1>12 DEF dex32_setservice
<1>13. ASSUME NEW q \in Procs, console_new(q) PROVE Keeps \/ Passing
  BY <1>0, <1>10, <1>11, <1>13 DEF console_new
<1>14. CASE Terminate
  BY <1>0, <1>9, <1>10, <1>11, <1>14 DEF Terminate, lockVars
<1>15. ASSUME NEW p \in Procs, NEW q \in Procs, dex32_wait(p) \/ ps_user_kill(p, q)
              \/ createuthread(p, q) \/ kill_foreground(q)
       PROVE  Keeps
  BY <1>9, <1>10, <1>15 DEF dex32_wait, ps_user_kill, createuthread, kill_foreground, lockVars
<1>16. ASSUME NEW p \in Procs, NEW val \in 1 .. MaxSleep, sleep(p, val) PROVE Keeps
  BY <1>9, <1>16 DEF sleep, lockVars
<1>17. CASE signal_foreground \/ Timer \/ SendMessage \/ PassOver \/ SwitchTo \/ Spin
           \/ UNCHANGED vars
  BY <1>9, <1>10, <1>17 DEF signal_foreground, Timer, SendMessage, PassOver, SwitchTo, Spin, vars, lockVars
<1> QED
  BY <1>1, <1>1a, <1>2, <1>3, <1>4, <1>5, <1>6, <1>7, <1>8, <1>12, <1>13, <1>14,
     <1>15, <1>16, <1>17 DEF Next, KernelCode, Request, Loader, Keyboard, Switcher

------------------------------------------------------------------------------
\* A process that asked for another one waits until it is answered.
LEMMA LoadingStep == IInv /\ [Next]_vars => Loading'
<1> SUFFICES ASSUME IInv, [Next]_vars PROVE Loading'
  OBVIOUS
<1> USE DEF Loading
<1>0. pc \in [Procs -> {"run", "exec", "child", "load", "create", "hold", "leave",
                       "list", "picked", "exited"}]
      /\ arg \in [Procs -> Procs] /\ Kernel \in Procs /\ Loading
  BY TasksAssumption DEF TasksAssumption, IInv, TypeOK
<1>1. UNCHANGED <<pc, arg>> => Loading'
  BY <1>0
<1>2. SpinForGood => Loading'
  BY <1>1 DEF SpinForGood
<1>3. ASSUME NEW p \in Procs, KernelCode(p) PROVE Loading'
  BY <1>0, <1>3 DEF KernelCode, EnterCrit, Enqueue, LeaveCrit, WaitPid, KillPicked,
     CountList, ShowPicked, LeaveList, Step, Forget
<1>4. ASSUME NEW p \in Procs, NEW q \in Procs,
             addmodule(p) \/ Dispatch(p) \/ exit(p) \/ createkthread(p, q)
      PROVE  Loading'
  BY <1>0, <1>4 DEF addmodule, Dispatch, exit, createkthread, Step
<1>5. ASSUME NEW q \in Procs, LoadFails \/ createprocess(q) PROVE Loading'
  BY <1>0, <1>5 DEF LoadFails, createprocess, Step
<1>6. ASSUME NEW p \in Procs, NEW q \in Procs,
             \/ dex32_setservice(p) \/ dex32_wait(p) \/ ps_user_kill(p, q)
             \/ createuthread(p, q) \/ kill_foreground(q) \/ console_new(q)
      PROVE  Loading'
  BY <1>1, <1>2, <1>6 DEF dex32_setservice, dex32_wait, ps_user_kill, createuthread,
     kill_foreground, console_new
<1>7. ASSUME NEW p \in Procs, NEW val \in 1 .. MaxSleep, sleep(p, val) PROVE Loading'
  BY <1>1, <1>7 DEF sleep
<1>8. CASE signal_foreground \/ Timer \/ Terminate \/ SendMessage \/ PassOver \/ SwitchTo
          \/ Spin \/ UNCHANGED vars
  BY <1>1, <1>2, <1>8 DEF signal_foreground, Timer, Terminate, SendMessage, PassOver,
     SwitchTo, Spin, vars
<1> QED
  BY <1>0, <1>3, <1>4, <1>5, <1>6, <1>7, <1>8
     DEF Next, KernelCode, Request, Loader, Keyboard, Switcher

------------------------------------------------------------------------------
\* Who looks at the list has just counted it, or goes on with the same count.
LEMMA Lister ==
  ASSUME IInv, [Next]_vars, NEW p \in Procs, pc'[p] = "list"
  PROVE  \/ CountList(p)
         \/ pc[p] = "list" /\ total'[p] = total[p] /\ (p \in changed => p \in changed')
<1> USE DEF lockVars, listVars
<1>0. pc \in [Procs -> {"run", "exec", "child", "load", "create", "hold", "leave",
                       "list", "picked", "exited"}]
      /\ total \in [Procs -> Nat] /\ Kernel \in Procs /\ arg \in [Procs -> Procs]
  BY TasksAssumption DEF TasksAssumption, IInv, TypeOK
<1> DEFINE Goes == pc[p] = "list" /\ total'[p] = total[p] /\ (p \in changed => p \in changed')
<1>1. UNCHANGED <<pc, total>> /\ changed \subseteq changed' => Goes
  OBVIOUS
<1>2. SpinForGood => Goes
  BY <1>1 DEF SpinForGood
<1>3. ASSUME NEW r \in Procs, CountList(r) PROVE CountList(p) \/ Goes
  BY <1>0, <1>3 DEF CountList, Step
<1>4. ASSUME NEW r \in Procs,
             \/ EnterCrit(r) \/ Enqueue(r) \/ LeaveCrit(r) \/ WaitPid(r) \/ KillPicked(r)
             \/ ShowPicked(r) \/ \E q \in Procs : LeaveList(r, q)
      PROVE  Goes
  BY <1>0, <1>4 DEF EnterCrit, Enqueue, LeaveCrit, WaitPid, KillPicked, ShowPicked, LeaveList,
     Step, Intrudes
<1>5. ASSUME NEW r \in Procs, NEW q \in Procs,
             addmodule(r) \/ Dispatch(r) \/ exit(r) \/ createkthread(r, q)
      PROVE  Goes
  BY <1>0, <1>5 DEF addmodule, Dispatch, exit, createkthread, Step
<1>6. ASSUME NEW q \in Procs, LoadFails \/ createprocess(q) PROVE Goes
  BY <1>0, <1>6 DEF LoadFails, createprocess, Step
<1>7. ASSUME NEW r \in Procs, NEW q \in Procs,
             \/ dex32_setservice(r) \/ dex32_wait(r) \/ ps_user_kill(r, q)
             \/ createuthread(r, q) \/ kill_foreground(q) \/ console_new(q)
      PROVE  Goes
  BY <1>1, <1>2, <1>7 DEF dex32_setservice, dex32_wait, ps_user_kill, createuthread,
     kill_foreground, console_new, Intrudes
<1>8. ASSUME NEW r \in Procs, NEW val \in 1 .. MaxSleep, sleep(r, val) PROVE Goes
  BY <1>1, <1>8 DEF sleep
<1>9. CASE Terminate
  BY <1>1, <1>2, <1>9 DEF Terminate, kill_process, Intrudes
<1>10. CASE signal_foreground \/ Timer \/ SendMessage \/ PassOver \/ SwitchTo \/ Spin
           \/ UNCHANGED vars
  BY <1>1, <1>2, <1>10 DEF signal_foreground, Timer, SendMessage, PassOver, SwitchTo, Spin, vars
<1> QED
  BY <1>3, <1>4, <1>5, <1>6, <1>7, <1>8, <1>9, <1>10
     DEF Next, KernelCode, Request, Loader, Keyboard, Switcher

\* Whoever changes the ring is let by the lock a lister holds.
LEMMA ListStep == IInv /\ [Next]_vars => ListIsWhole'
<1> SUFFICES ASSUME IInv, [Next]_vars, NEW p \in Procs, p \notin changed', pc'[p] = "list"
             PROVE  total'[p] = Cardinality(Ready')
  BY DEF ListIsWhole
<1>1. /\ ListIsWhole /\ Locking
      /\ total \in [Procs -> Nat]
      /\ pc[p] = "list" => p \in Within
  BY DEF IInv, TypeOK, Within
<1>2. CASE CountList(p)
  <2>1. Ready' = Ready
    BY <1>2 DEF CountList, Ready, blockVars
  <2>2. total' = [total EXCEPT ![p] = Cardinality(Ready)]
    BY <1>2 DEF CountList
  <2> QED
    BY <1>1, <2>1, <2>2
<1>3. CASE ~CountList(p)
  <2>1. pc[p] = "list" /\ total'[p] = total[p] /\ p \notin changed
    BY <1>3, Lister
  <2>2. total[p] = Cardinality(Ready)
    BY <1>1, <2>1 DEF ListIsWhole
  <2>3. p # Kernel => processmgr_busy.busy = p
    BY <1>1, <2>1 DEF Locking
  <2>4. ~(Free(current_process) /\ Intrudes({current_process, Kernel}))
    BY <2>1, <2>3 DEF Free, Passes, Intrudes, Kernel
  <2>5. ASSUME NEW r \in Procs, Enqueue(r) PROVE FALSE
    <3>1. pc[r] = "hold" /\ r \in Within
      BY <2>5 DEF Enqueue, Step, Within
    <3>2. r # Kernel /\ p # Kernel
      BY <2>1, <2>5 DEF Enqueue, Intrudes
    <3> QED
      BY <1>1, <2>1, <2>3, <3>1, <3>2 DEF Locking
  <2>6. ASSUME NEW r \in Procs, NEW q \in Procs, createuthread(r, q) PROVE FALSE
    BY <2>1, <2>6 DEF createuthread, Intrudes
  <2>7. ASSUME NEW q \in Procs, console_new(q), ~SpinForGood PROVE FALSE
    BY <2>4, <2>7 DEF console_new
  <2>8. ASSUME NEW q \in Procs PROVE ~Puts(q) /\ ~Takes(q)
    BY <2>4, <2>5, <2>6, <2>7 DEF Puts, Takes
  <2> QED
    BY <2>1, <2>2, <2>8, RingSteps DEF Quiet
<1> QED
  BY <1>2, <1>3

------------------------------------------------------------------------------
\* The system starts with the invariant.
LEMMA Start == Init => IInv
<1> SUFFICES ASSUME Init PROVE IInv
  OBVIOUS
<1>1. TypeOK
  <2>1. Kernel \in Procs /\ NoPid \in Procs /\ MaxSleep \in Nat
    BY TasksAssumption DEF TasksAssumption, Kernel
  <2>2. /\ next \in [Procs -> Procs] /\ before \in [Procs -> Procs]
        /\ owner \in [Procs -> Procs]
        /\ arg \in [Procs -> Procs]
    BY <2>1 DEF Init
  <2>3. /\ childwait \in [Procs -> Nat] /\ waiting \in [Procs -> 0..MaxSleep]
        /\ processmgr_busy \in SyncVars(Procs)
    BY <2>1 DEF Init, FreeVar, SyncVars
  <2> QED
    BY <2>1, <2>2, <2>3 DEF Init, TypeOK
<1>2. Ready = {Kernel} /\ Kernel \in Procs
  BY TasksAssumption DEF TasksAssumption, Init, Ready
<1>3. Whole(next, before, Ready)
  BY <1>2 DEF Init, Whole, Linked, OneRing
<1>4. CpuToLive /\ BehindLast /\ CreatedOnce /\ Loading
  BY <1>2 DEF Init, CpuToLive, BehindLast, CreatedOnce, Creating, Loading
<1>5. Within = {}
  BY DEF Init, Within
<1>6. Locking /\ ListIsWhole
  BY <1>5 DEF Init, Locking, ListIsWhole, FreeVar
<1> QED
  BY <1>1, <1>3, <1>4, <1>6 DEF IInv

\* The invariant, in every reachable state.
THEOREM Inductive == Spec => []IInv
<1>1. IInv /\ [Next]_vars => IInv'
  BY TypeStep, RingStep, CpuStep, CreatedStep, LoadingStep, LockingStep, ListStep DEF IInv
<1> QED
  BY <1>1, Start, PTL DEF Spec

\* Links, states and counts keep their types: in particular no sleep counts
\* below zero (scheduler).
THEOREM TypeCorrect == Spec => []TypeOK
<1>1. IInv => TypeOK
  BY DEF IInv
<1> QED
  BY <1>1, Inductive, PTL

\* Whatever is created and terminated, and whenever, the blocks on the ring
\* are linked both ways and make one ring with the kernel on it.
THEOREM WholeRing == Spec => []RingIsWhole
<1>1. IInv => RingIsWhole
  BY DEF IInv, Whole, Linked, OneRing, RingIsWhole
<1> QED
  BY <1>1, Inductive, PTL

\* The CPU and scheduler()'s pointer only go to blocks on the ring.
THEOREM LiveCpu == Spec => []CpuToLive
<1>1. IInv => CpuToLive
  BY DEF IInv
<1> QED
  BY <1>1, Inductive, PTL

\* A block being created is in the hands of one process and on no list.
THEOREM OnceCreated == Spec => []CreatedOnce
<1>1. IInv => CreatedOnce
  BY DEF IInv
<1> QED
  BY <1>1, Inductive, PTL

\* Whoever copies the list of processes finds the blocks it has counted, whatever is
\* created and killed meanwhile, until one who is let past its lock changes the ring.
THEOREM WholeList == Spec => []ListIsWhole
<1>1. IInv => ListIsWhole
  BY DEF IInv
<1> QED
  BY <1>1, Inductive, PTL
==============================================================================
