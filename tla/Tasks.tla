-------------------------------- MODULE Tasks --------------------------------
(***************************************************************************)
(* The process manager of process/process.c with the round-robin scheduler *)
(* of process/scheduler.c: the ring of process control blocks, the         *)
(* creation of kernel threads, user processes and user threads, the        *)
(* requests to terminate one, and the task switcher that carries them out  *)
(* and gives the CPU to the next block of the ring.                        *)
(*                                                                         *)
(* The kernel's own processes run with interrupts on and are preempted     *)
(* anywhere; the system calls of user processes come through an interrupt  *)
(* gate and run with interrupts off, like the task switcher.  Who finds    *)
(* processmgr_busy taken in that state spins for good ("spin"): only its   *)
(* owner could leave it, and it does not get the CPU.                      *)
(***************************************************************************)
EXTENDS SyncVar, FiniteSets

CONSTANTS Procs,        \* the control blocks; the name of one is its pid
          Kind,         \* "sys": kernel thread; "user": user process; "thread"
          MaxSleep      \* the longest sleep (bounds the model)

Kernel == NoPid         \* sPCB, the first process: its pid is 0

ASSUME TasksAssumption ==
  /\ IsFiniteSet(Procs) /\ Kernel \in Procs
  /\ Kind \in [Procs -> {"sys", "user", "thread"}] /\ Kind[Kernel] = "sys"
  /\ MaxSleep \in Nat

VARIABLES
  next, before,     \* the links of each block
  pcb,              \* none yet, allocated ("made"), on the ring ("ready"), freed
  owner, childwait, waiting,
  pc, arg,          \* where each process is, and the process it deals with
  processmgr_busy,
  total,            \* get_processlist: how many blocks the caller has counted
  changed,          \* auxiliary: the callers whose ring was changed since, see ListIsWhole
  current_process,
  cpu,              \* "task", or what the task switcher is about
  ptr,              \* scheduler(): the block looked at (Kernel when it is not at work)
  sigterm,          \* the process to terminate (NoPid: none)
  sched_sysmes      \* a message of the keyboard handler is to be sent

ringVars == <<next, before>>
blockVars == <<pcb, owner>>
waitVars == <<childwait, waiting>>
listVars == <<total, changed>>
lockVars == <<processmgr_busy, listVars>>
cpuVars == <<current_process, cpu, ptr>>
sigVars == <<sigterm, sched_sysmes>>
vars == <<ringVars, blockVars, waitVars, pc, arg, lockVars, cpuVars, sigVars>>

Init ==
  /\ next = [p \in Procs |-> p] /\ before = [p \in Procs |-> p]
  /\ pcb = [p \in Procs |-> IF p = Kernel THEN "ready" ELSE "none"]
  /\ owner = [p \in Procs |-> Kernel]
  /\ childwait = [p \in Procs |-> 0] /\ waiting = [p \in Procs |-> 0]
  /\ pc = [p \in Procs |-> "run"] /\ arg = [p \in Procs |-> Kernel]
  /\ processmgr_busy = FreeVar
  /\ total = [p \in Procs |-> 0] /\ changed = {}
  /\ current_process = Kernel /\ cpu = "task" /\ ptr = Kernel
  /\ sigterm = NoPid /\ sched_sysmes = FALSE

------------------------------------------------------------------------------
\* The running process.

Ready == {p \in Procs : pcb[p] = "ready"}
Runs(p) == cpu = "task" /\ current_process = p
Step(p, from, to) == Runs(p) /\ pc[p] = from /\ pc' = [pc EXCEPT ![p] = to]

\* The ring changes under the callers of get_processlist who are among these.
Intrudes(on) == changed' = changed \cup {p \in on : pc[p] = "list"}

\* A local variable that is dead holds Kernel.
Forget(p) == arg' = [arg EXCEPT ![p] = Kernel]

\* The test of sync_justwait and sync_entercrit ...
Free(p) == Passes(processmgr_busy, p)
\* ... an entry and its exit without the timer in between ...
PassThrough(p) == processmgr_busy' = Left(Entered(processmgr_busy, p))
\* ... and the loop that never ends, entered with interrupts off.
SpinForGood ==
  /\ cpu' = "spin"
  /\ UNCHANGED <<ringVars, blockVars, waitVars, pc, arg, lockVars,
                 current_process, ptr, sigVars>>

\* Mutant: the block after the head is not linked back to the new one.
PushForward(q) ==
  /\ next' = [next EXCEPT ![q] = next[Kernel], ![Kernel] = q]
  /\ before' = [before EXCEPT ![q] = Kernel]

\* Insert after the head, under stopints().
sched_enqueue(q) ==
  /\ next' = [next EXCEPT ![q] = next[Kernel], ![Kernel] = q]
  /\ before' = [before EXCEPT ![next[Kernel]] = q, ![q] = Kernel]

\* Mutant: the block after the removed one keeps its link to it.
sched_dequeue_forward(q) ==
  /\ next' = [next EXCEPT ![before[q]] = next[q]]
  /\ before' = before

\* Mutant: the links of the removed block are cleared.
sched_dequeue_clear(q) ==
  /\ next' = [next EXCEPT ![before[q]] = next[q], ![q] = q]
  /\ before' = [before EXCEPT ![next[q]] = before[q], ![q] = q]

sched_dequeue(q) ==
  /\ next' = [next EXCEPT ![before[q]] = next[q]]
  /\ before' = [before EXCEPT ![next[q]] = before[q]]

\* The beginning of createkthread, up to its sync_entercrit.
createkthread(p, q) ==
  /\ Kind[p] = "sys" /\ Kind[q] = "sys" /\ pcb[q] = "none"
  /\ Step(p, "run", "create")
  /\ pcb' = [pcb EXCEPT ![q] = "made"]
  /\ owner' = [owner EXCEPT ![q] = p]
  /\ arg' = [arg EXCEPT ![p] = q]
  /\ UNCHANGED <<ringVars, waitVars, lockVars, cpuVars, sigVars>>

\* A console asks the dispatcher for a process (user_execp), one at a time.
addmodule(p) ==
  /\ Kind[p] = "sys" /\ p # Kernel
  /\ \A r \in Procs : pc[r] # "exec"
  /\ Step(p, "run", "exec")
  /\ UNCHANGED <<ringVars, blockVars, waitVars, arg, lockVars, cpuVars, sigVars>>

\* process_dispatcher, in the kernel process, finds the process that asked ...
Dispatch(p) ==
  /\ pc[p] = "exec"
  /\ Step(Kernel, "run", "load")
  /\ arg' = [arg EXCEPT ![Kernel] = p]
  /\ UNCHANGED <<ringVars, blockVars, waitVars, lockVars, cpuVars, sigVars>>

\* Mutant: the console is not told.
LoadFailsSilently ==
  /\ Step(Kernel, "load", "run") /\ Forget(Kernel)
  /\ UNCHANGED <<ringVars, blockVars, waitVars, lockVars, cpuVars, sigVars>>

\* ... the loader refuses the file ...
LoadFails ==
  /\ Runs(Kernel) /\ pc[Kernel] = "load"
  /\ pc' = [pc EXCEPT ![Kernel] = "run", ![arg[Kernel]] = "run"]
  /\ Forget(Kernel)
  /\ UNCHANGED <<ringVars, blockVars, waitVars, lockVars, cpuVars, sigVars>>

\* ... or calls createprocess: its beginning, up to the sync_entercrit.
createprocess(q) ==
  /\ Kind[q] = "user" /\ pcb[q] = "none"
  /\ Step(Kernel, "load", "create")
  /\ pcb' = [pcb EXCEPT ![q] = "made"]
  /\ owner' = [owner EXCEPT ![q] = arg[Kernel]]
  /\ childwait' = [childwait EXCEPT ![arg[Kernel]] = @ + 1]
  /\ arg' = [arg EXCEPT ![Kernel] = q]
  /\ UNCHANGED <<ringVars, waiting, lockVars, cpuVars, sigVars>>

\* sync_entercrit(&processmgr_busy) with interrupts on.
EnterCrit(p) ==
  /\ Step(p, "create", "hold")
  /\ Free(p) /\ processmgr_busy' = Entered(processmgr_busy, p)
  /\ UNCHANGED <<ringVars, blockVars, waitVars, arg, listVars, cpuVars, sigVars>>

\* dex32_stopints() ... ps_enqueue(temp) ... dex32_restoreints()
\* The kernel process, whose pid is that of a free lock, is inside beside others.
Enqueue(p) ==
  /\ Step(p, "hold", "leave")
  /\ sched_enqueue(arg[p])
  /\ pcb' = [pcb EXCEPT ![arg[p]] = "ready"]
  /\ Intrudes(IF p = Kernel THEN Procs ELSE {Kernel})
  /\ UNCHANGED <<owner, waitVars, arg, processmgr_busy, total, cpuVars, sigVars>>

\* sync_leavecrit at the end of createkthread and createprocess; the console
\* that asked for the process learns its pid (pd_ok).
LeaveCrit(p) ==
  LET asked == {r \in Procs : pc[r] = "exec" /\ p = Kernel /\ owner[arg[p]] = r}
  IN  /\ Runs(p) /\ pc[p] = "leave"
      /\ pc' = [r \in Procs |-> IF r = p THEN "run"
                                ELSE IF r \in asked THEN "child" ELSE pc[r]]
      /\ arg' = [r \in Procs |-> IF r = p THEN Kernel
                                 ELSE IF r \in asked THEN arg[p] ELSE arg[r]]
      /\ processmgr_busy' = Left(processmgr_busy)
      /\ UNCHANGED <<ringVars, blockVars, waitVars, listVars, cpuVars, sigVars>>

\* dex32_waitpid in user_execp: polls until ps_findprocess finds no such block.
WaitPid(p) ==
  /\ Free(p) /\ arg[p] \notin Ready
  /\ Step(p, "child", "run") /\ Forget(p)
  /\ UNCHANGED <<ringVars, blockVars, waitVars, lockVars, cpuVars, sigVars>>

\* get_processlist enters and counts the blocks ...
CountList(p) ==
  /\ Kind[p] = "sys" /\ Step(p, "run", "list")
  /\ Free(p) /\ processmgr_busy' = Entered(processmgr_busy, p)
  /\ total' = [total EXCEPT ![p] = Cardinality(Ready)]
  /\ UNCHANGED <<ringVars, blockVars, waitVars, arg, changed, cpuVars, sigVars>>

\* ... and, after a malloc, copies so many of them and leaves; interrupts are on, but
\* not while it counts or copies.  q is an entry its caller looks at: of a block on the
\* ring, or of what malloc left in the buffer when there are fewer by now.
LeaveList(p, q) ==
  /\ Step(p, "list", "picked")
  /\ q \in Ready \/ Cardinality(Ready) < total[p]
  /\ arg' = [arg EXCEPT ![p] = q]
  /\ processmgr_busy' = Left(processmgr_busy)
  /\ total' = [total EXCEPT ![p] = 0] /\ changed' = changed \ {p}
  /\ UNCHANGED <<ringVars, blockVars, waitVars, cpuVars, sigVars>>

\* dex32_killkthread_name asks for the process of that entry to be terminated.
KillPicked(p) ==
  /\ arg[p] # Kernel
  /\ Step(p, "picked", "run") /\ Forget(p)
  /\ sigterm' = arg[p]
  /\ UNCHANGED <<ringVars, blockVars, waitVars, lockVars, cpuVars, sched_sysmes>>

\* The other callers of get_processlist only show the copy.
ShowPicked(p) ==
  /\ Step(p, "picked", "run") /\ Forget(p)
  /\ UNCHANGED <<ringVars, blockVars, waitVars, lockVars, cpuVars, sigVars>>

\* ps_user_kill, by a console or as a system call.
ps_user_kill(p, q) ==
  /\ Runs(p) /\ pc[p] = "run"
  /\ \/ /\ Free(p) /\ q \in Ready
        /\ sigterm' = q
        /\ cpu' = "terminate"
        /\ UNCHANGED <<ringVars, blockVars, waitVars, pc, arg, lockVars,
                       current_process, ptr, sched_sysmes>>
     \/ Kind[p] # "sys" /\ ~Free(p) /\ SpinForGood

\* createuthread: a system call that takes no lock, interrupts being off.
createuthread(p, q) ==
  /\ Kind[p] # "sys" /\ Kind[q] = "thread" /\ pcb[q] = "none"
  /\ Runs(p) /\ pc[p] = "run"
  /\ sched_enqueue(q)
  /\ pcb' = [pcb EXCEPT ![q] = "ready"]
  /\ owner' = [owner EXCEPT ![q] = p]
  /\ childwait' = [childwait EXCEPT ![p] = @ + 1]
  /\ Intrudes(Procs)
  /\ UNCHANGED <<waiting, pc, arg, processmgr_busy, total, cpuVars, sigVars>>

\* dex32_setservice: the parent no longer waits for this process.
dex32_setservice(p) ==
  /\ Kind[p] # "sys" /\ Runs(p) /\ pc[p] = "run"
  /\ \/ /\ Free(p) /\ PassThrough(p)
        /\ childwait' = [childwait EXCEPT ![owner[p]] =
                           IF owner[p] \in Ready THEN 0 ELSE @]
        /\ UNCHANGED <<ringVars, blockVars, waiting, pc, arg, listVars, cpuVars, sigVars>>
     \/ ~Free(p) /\ SpinForGood

\* dex32_wait returns if there is nobody to wait for, or loops with
\* interrupts off.
dex32_wait(p) ==
  /\ Kind[p] # "sys" /\ Runs(p) /\ pc[p] = "run"
  /\ childwait[p] # 0
  /\ SpinForGood

sleep(p, val) ==
  /\ Kind[p] # "sys" /\ Runs(p) /\ pc[p] = "run"
  /\ waiting' = [waiting EXCEPT ![p] = val]
  /\ UNCHANGED <<ringVars, blockVars, childwait, pc, arg, lockVars, cpuVars, sigVars>>

\* Mutant: the caller is not named.
exit_unnamed(p) ==
  /\ p # Kernel
  /\ Runs(p) /\ pc[p] = "run"
  /\ pc' = [pc EXCEPT ![p] = "exited"]
  /\ cpu' = "terminate"
  /\ UNCHANGED <<ringVars, blockVars, waitVars, arg, lockVars,
                 current_process, ptr, sigVars>>

\* exit: sigterm names the caller and the task switcher is called; should it
\* return, the caller loops.
exit(p) ==
  /\ p # Kernel
  /\ Runs(p) /\ pc[p] = "run"
  /\ pc' = [pc EXCEPT ![p] = "exited"]
  /\ sigterm' = p
  /\ cpu' = "terminate"
  /\ UNCHANGED <<ringVars, blockVars, waitVars, arg, lockVars,
                 current_process, ptr, sched_sysmes>>

------------------------------------------------------------------------------
\* The keyboard interrupt, while a process runs with interrupts on.

\* kill_foreground and signal_foreground; the keyboard may still be assigned
\* to a user process that has ended.
kill_foreground(q) ==
  /\ cpu = "task" /\ Kind[q] = "user" /\ pcb[q] \in {"ready", "freed"}
  /\ sigterm' = q
  /\ UNCHANGED <<ringVars, blockVars, waitVars, pc, arg, lockVars, cpuVars, sched_sysmes>>

signal_foreground ==
  /\ cpu = "task"
  /\ sched_sysmes' = TRUE
  /\ UNCHANGED <<ringVars, blockVars, waitVars, pc, arg, lockVars, cpuVars, sigterm>>

\* console_new calls createkthread in the handler, in the name of the process
\* it interrupted, whom the lock lets in again.
console_new(q) ==
  /\ cpu = "task" /\ Kind[q] = "sys" /\ pcb[q] = "none"
  /\ \/ /\ Free(current_process) /\ PassThrough(current_process)
        /\ sched_enqueue(q)
        /\ pcb' = [pcb EXCEPT ![q] = "ready"]
        /\ owner' = [owner EXCEPT ![q] = current_process]
        /\ Intrudes({current_process, Kernel})
        /\ UNCHANGED <<waitVars, pc, arg, total, cpuVars, sigVars>>
     \/ ~Free(current_process) /\ SpinForGood

------------------------------------------------------------------------------
\* The task switcher, interrupts off.

\* int 0x20: the timer, or taskswitch().
Timer ==
  /\ cpu = "task"
  /\ cpu' = "terminate"
  /\ UNCHANGED <<ringVars, blockVars, waitVars, pc, arg, lockVars,
                 current_process, ptr, sigVars>>

\* kill_process(q) once it is inside the lock, in the name of the process that ran last.
\* A kernel thread is left alone: dex32_killkthread gets a pointer for a pid.  A user
\* thread is taken off the ring.  A user process frees its memory too, and its parent's
\* wait ends.  kill_children finds no block that owns itself, and kills nothing.
kill_process(q) ==
  IF q \notin Ready \/ Kind[q] = "sys"
  THEN UNCHANGED <<ringVars, pcb, childwait, changed>>
  ELSE /\ sched_dequeue(q)
       /\ Intrudes({current_process, Kernel})
       /\ pcb' = [pcb EXCEPT ![q] = "freed"]
       /\ childwait' = [childwait EXCEPT ![owner[q]] =
            IF Kind[q] = "user" /\ owner[q] \in Ready THEN 0 ELSE @]

\* Mutant: kill_process does not enter the critical section.
TerminateAnyway ==
  /\ cpu = "terminate"
  /\ kill_process(sigterm) /\ PassThrough(current_process)
  /\ sigterm' = NoPid
  /\ cpu' = "message"
  /\ UNCHANGED <<owner, waiting, pc, arg, total, current_process, ptr, sched_sysmes>>

\* if (sigterm && !flushing) kill_process(sigterm): flushing is never set.
Terminate ==
  /\ cpu = "terminate"
  /\ \/ /\ sigterm = NoPid
        /\ cpu' = "message"
        /\ UNCHANGED <<ringVars, blockVars, waitVars, pc, arg, lockVars,
                       current_process, ptr, sigVars>>
     \/ /\ sigterm # NoPid /\ Free(current_process)
        /\ kill_process(sigterm) /\ PassThrough(current_process)
        /\ sigterm' = NoPid
        /\ cpu' = "message"
        /\ UNCHANGED <<owner, waiting, pc, arg, total, current_process, ptr, sched_sysmes>>
     \/ sigterm # NoPid /\ ~Free(current_process) /\ SpinForGood

\* if (sched_sysmes[0]) sendmessage(...), which waits for the lock to be free;
\* then scheduler(current_process) starts behind the block that ran last, even
\* if that has just been freed.
SendMessage ==
  /\ cpu = "message"
  /\ \/ /\ sched_sysmes => Free(current_process)
        /\ sched_sysmes' = FALSE
        /\ cpu' = "pick"
        /\ ptr' = next[current_process]
        /\ UNCHANGED <<ringVars, blockVars, waitVars, pc, arg, lockVars,
                       current_process, sigterm>>
     \/ sched_sysmes /\ ~Free(current_process) /\ SpinForGood

\* The loop of scheduler(): a waiting block is passed over, and the NEXT one
\* has waited one turn more.
PassOver ==
  /\ cpu = "pick" /\ waiting[ptr] # 0
  /\ ptr' = next[ptr]
  /\ waiting' = [waiting EXCEPT ![next[ptr]] = IF @ = 0 THEN 0 ELSE @ - 1]
  /\ UNCHANGED <<ringVars, blockVars, childwait, pc, arg, lockVars,
                 current_process, cpu, sigVars>>

\* Mutant: the scheduler starts over at the head of the ring.
SwitchToHead ==
  /\ cpu = "pick" /\ waiting[ptr] = 0
  /\ current_process' = Kernel
  /\ ptr' = Kernel
  /\ cpu' = "task"
  /\ UNCHANGED <<ringVars, blockVars, waitVars, pc, arg, lockVars, sigVars>>

\* current_process = readyprocess; ps_switchto(readyprocess);
SwitchTo ==
  /\ cpu = "pick" /\ waiting[ptr] = 0
  /\ current_process' = ptr
  /\ ptr' = Kernel
  /\ cpu' = "task"
  /\ UNCHANGED <<ringVars, blockVars, waitVars, pc, arg, lockVars, sigVars>>

\* The machine spins with interrupts off.
Spin == cpu = "spin" /\ UNCHANGED vars

------------------------------------------------------------------------------
KernelCode(p) ==
  \/ EnterCrit(p) \/ CountList(p) \/ Enqueue(p) \/ LeaveCrit(p) \/ WaitPid(p)
  \/ KillPicked(p) \/ ShowPicked(p)
  \/ \E q \in Procs : LeaveList(p, q)

Request(p) ==
  \/ addmodule(p) \/ Dispatch(p) \/ dex32_setservice(p) \/ dex32_wait(p) \/ exit(p)
  \/ \E q \in Procs : createkthread(p, q) \/ ps_user_kill(p, q) \/ createuthread(p, q)
  \/ \E val \in 1..MaxSleep : sleep(p, val)

Keyboard == signal_foreground \/ \E q \in Procs : kill_foreground(q) \/ console_new(q)
Loader == LoadFails \/ \E q \in Procs : createprocess(q)
Switcher == Timer \/ Terminate \/ SendMessage \/ PassOver \/ SwitchTo \/ Spin

Next == (\E p \in Procs : KernelCode(p) \/ Request(p)) \/ Loader \/ Keyboard \/ Switcher

\* The timer interrupts whoever runs, the task switcher goes on, and what the
\* kernel has begun it continues when it has the CPU: a slice is long enough
\* for some instructions.
Fairness ==
  /\ WF_vars(Switcher) /\ SF_vars(Loader)
  /\ \A p \in Procs : SF_vars(KernelCode(p) /\ pc[p] # "run") /\ SF_vars(Dispatch(p))

Spec == Init /\ [][Next]_vars /\ Fairness

------------------------------------------------------------------------------
TypeOK ==
  /\ next \in [Procs -> Procs] /\ before \in [Procs -> Procs]
  /\ pcb \in [Procs -> {"none", "made", "ready", "freed"}]
  /\ owner \in [Procs -> Procs]
  /\ childwait \in [Procs -> Nat] /\ waiting \in [Procs -> 0..MaxSleep]
  /\ pc \in [Procs -> {"run", "exec", "child", "load", "create", "hold", "leave",
                       "list", "picked", "exited"}]
  /\ arg \in [Procs -> Procs]
  /\ processmgr_busy \in SyncVars(Procs)
  /\ total \in [Procs -> Nat] /\ changed \subseteq Procs
  /\ current_process \in Procs /\ ptr \in Procs
  /\ cpu \in {"task", "terminate", "message", "pick", "spin"}
  /\ sigterm \in Procs /\ sched_sysmes \in BOOLEAN

\* The blocks on the ring are linked both ways, and there is one ring, with
\* the kernel on it: the links lead out of every set of others.
\* The scheduler relies on it to reach every process, and to stop.
RingIsWhole ==
  LET ring == Ready IN
  /\ Kernel \in ring
  /\ \A p \in ring : /\ next[p] \in ring /\ before[next[p]] = p
                     /\ before[p] \in ring /\ next[before[p]] = p
  /\ \A S \in SUBSET (ring \ {Kernel}) : S # {} => \E p \in S : next[p] \notin S

\* The CPU, and the scheduler's pointer, only go to blocks on the ring,
\* although the scheduler may start from one that was just freed.
CpuToLive ==
  /\ cpu \in {"task", "terminate"} => current_process \in Ready
  /\ cpu = "pick" => ptr \in Ready

\* A block that is being created is in the hands of one process, and of no
\* list: it is put on the ring once.
Creating(p) == pc[p] \in {"create", "hold"}
CreatedOnce ==
  \A p \in Procs : Creating(p) =>
    /\ pcb[arg[p]] = "made"
    /\ \A r \in Procs \ {p} : Creating(r) => arg[r] # arg[p]

\* Between get_processlist's two looks at the ring it stays as it was counted, so that
\* the copy has every process and nothing else, but for what the lock lets by: a kill or
\* a new console in the name of the caller, to whom the lock is open; the kernel process
\* as caller or creator, whose pid reads as a free lock; and createuthread, which does
\* not ask.  Creations and kills of anybody else wait.
ListIsWhole ==
  \A p \in Procs \ changed : pc[p] = "list" => total[p] = Cardinality(Ready)

NoSpin == [](cpu # "spin")

\* As long as nobody spins with interrupts off, every process that is awake
\* gets the CPU or is terminated: creations put new blocks in front of it,
\* terminations take the block it was to follow away.
NoStarvation ==
  NoSpin => \A p \in Procs :
    (p \in Ready /\ waiting[p] = 0) ~> (current_process = p \/ p \notin Ready)

\* ... a user process or thread that exits is taken off the ring ...
ExitEnds ==
  NoSpin => \A p \in Procs :
    (pc[p] = "exited" /\ Kind[p] # "sys") ~> p \notin Ready

\* ... and a console that asked for a process is answered, and goes on when
\* that process has ended.
ConsoleGoesOn ==
  NoSpin => \A p \in Procs :
    /\ pc[p] = "exec" ~> pc[p] \in {"child", "run"}
    /\ (pc[p] = "child" /\ arg[p] \notin Ready) ~> pc[p] = "run"

\* "If sigeterm is non-zero the taskswitcher terminates the process with pid
\* equal to sigterm" (process.c): a request to terminate is dealt with.
KillIsServed == sigterm # NoPid ~> sigterm = NoPid

\* "puts the current process to sleep for a desired amount of time"
\* (process.c): a process that sleeps wakes up, unless it is terminated.
SleepersWake ==
  NoSpin => \A p \in Procs : waiting[p] # 0 ~> (waiting[p] = 0 \/ p \notin Ready)
==============================================================================
