--------------------------- MODULE SyncLockProofs ---------------------------
(***************************************************************************)
(* The lock and the clock, which the rest of the kernel uses.              *)
(*                                                                         *)
(* Exclusion of the lock of process/sync.c, for any set of processes and   *)
(* any nesting: as long as no store of busy hits an owner's pid, at most   *)
(* one process is inside, and the count is the owner's nesting.            *)
(* So until then it is the lock that the other modules take in one step:   *)
(* every instruction enters or leaves it once, or changes nothing in it.   *)
(*                                                                         *)
(* The clock of stdlib/time.c follows the chip, for any rate of the timer  *)
(* and any lengths of a second, a minute, an hour and a day.  In ticks the *)
(* clock loses the same with every second it shows; it is set when a full  *)
(* second of the handler ends, always at the same phase of the chip's, and *)
(* between two settings it shows at most the seconds of the minutes out of *)
(* which it is not set.                                                    *)
(***************************************************************************)
EXTENDS SyncLock, Clock, TLAPS

\* Entries and exits are paired: a process that is entering has room for one
\* more level, one that is leaving has a level to give back.
Paired ==
  \A p \in Procs :
    /\ pc[p] \in {"spin", "own", "load", "store"} => depth[p] < MaxDepth
    /\ pc[p] \in {"dec", "iszero", "clear"} => depth[p] > 0

Typed == TypeOK /\ Paired

\* A process holds the lock from its store of busy to the store that clears it.
Holds(p) == depth[p] > 0 \/ pc[p] \in {"load", "store"}

\* What wait and the loaded copy are at each instruction of the holder.
CountAt(p) ==
  /\ pc[p] \in {"run", "spin", "own", "load"} => var.wait = depth[p]
  /\ pc[p] \in {"store", "dec"} => var.wait = depth[p] /\ reg[p] = depth[p]
  /\ pc[p] \in {"iszero", "clear"} => var.wait = depth[p] - 1
  /\ pc[p] = "clear" => depth[p] = 1

Ownership ==
  /\ \A p \in Procs : Holds(p) <=> var.busy = p
  /\ \A p \in Procs : Holds(p) => CountAt(p)
  /\ var.busy = NoPid => var.wait = 0

IInv == Typed /\ (~stolen => Ownership)

\* The state of the lock keeps its types.
THEOREM TypeCorrect == Spec => []Typed
<1>1. ASSUME Init PROVE Typed
  <2>1. var \in SyncVars(Procs)
    BY <1>1 DEF Init, FreeVar, SyncVars
  <2>2. pc \in [Procs -> {"run", "spin", "own", "load", "store", "dec",
                         "iszero", "clear"}]
    BY <1>1 DEF Init
  <2>4. reg \in [Procs -> Int]
    BY <1>1 DEF Init
  <2>6. stolen \in BOOLEAN
    BY <1>1 DEF Init
  <2>5. depth \in [Procs -> 0..MaxDepth]
    BY <1>1, LockAssumption DEF LockAssumption, Init
  <2>3. Paired
    BY <1>1 DEF Init, Paired
  <2> QED
    BY <2>1, <2>2, <2>3, <2>4, <2>5, <2>6 DEF Typed, TypeOK
<1>2. Typed /\ [Next]_vars => Typed'
  <2> SUFFICES ASSUME Typed, [Next]_vars
               PROVE  Typed'
    OBVIOUS
  <2> USE LockAssumption DEF LockAssumption, Typed, TypeOK, Paired, SyncVars, Goto
  <2>1. ASSUME NEW p \in Procs, Call(p) PROVE Typed'
    BY <2>1 DEF Call
  <2>2. ASSUME NEW p \in Procs, Test(p) PROVE Typed'
    BY <2>2 DEF Test
  <2>3. ASSUME NEW p \in Procs, Own(p) PROVE Typed'
    BY <2>3 DEF Own
  <2>4. ASSUME NEW p \in Procs, LoadForEnter(p) PROVE Typed'
    BY <2>4 DEF LoadForEnter
  <2>5. ASSUME NEW p \in Procs, StoreForEnter(p) PROVE Typed'
    BY <2>5 DEF StoreForEnter
  <2>6. ASSUME NEW p \in Procs, LoadForLeave(p) PROVE Typed'
    BY <2>6 DEF LoadForLeave
  <2>7. ASSUME NEW p \in Procs, StoreForLeave(p) PROVE Typed'
    BY <2>7 DEF StoreForLeave
  <2>8. ASSUME NEW p \in Procs, Release(p) PROVE Typed'
    BY <2>8 DEF Release
  <2>9. ASSUME NEW p \in Procs, Clear(p) PROVE Typed'
    BY <2>9 DEF Clear
  <2>10. CASE UNCHANGED vars
    BY <2>10 DEF vars
  <2> QED
    BY <2>1, <2>2, <2>3, <2>4, <2>5, <2>6, <2>7, <2>8, <2>9, <2>10
       DEF Next, Enter, Leave
<1> QED
  BY <1>1, <1>2, PTL DEF Spec

\* While nobody has stolen the lock, the process busy names is the one that
\* holds it, and no other does.
THEOREM Owned == Spec => []IInv
<1>1. Init /\ Typed => IInv
  BY LockAssumption
     DEF LockAssumption, Init, IInv, Ownership, Holds, CountAt, FreeVar
<1>2. IInv /\ Typed' /\ [Next]_vars => IInv'
  <2> SUFFICES ASSUME Typed, Typed', [Next]_vars, ~stolen', ~stolen => Ownership
               PROVE  Ownership'
    BY DEF IInv
  <2> USE LockAssumption
      DEF LockAssumption, Typed, TypeOK, Paired, SyncVars, Goto, Holds, CountAt, Ownership
  <2>1. ASSUME NEW p \in Procs, Call(p) PROVE Ownership'
    BY <2>1 DEF Call
  <2>2. ASSUME NEW p \in Procs, Test(p) PROVE Ownership'
    BY <2>2 DEF Test
  <2>3. ASSUME NEW p \in Procs, Own(p) PROVE Ownership'
    <3>1. ~stolen /\ Passes(var, p)
      BY <2>3, ZenonT(20) DEF Own
    <3>2. Ownership
      BY <3>1
    <3>3. /\ pc[p] = "own" /\ pc' = [pc EXCEPT ![p] = "load"]
          /\ var'.busy = p /\ var'.wait = var.wait
          /\ reg' = reg /\ depth' = depth
      BY <2>3 DEF Own
    <3> QED
      BY <3>1, <3>2, <3>3 DEF Passes
  <2>4. ASSUME NEW p \in Procs, LoadForEnter(p) PROVE Ownership'
    BY <2>4 DEF LoadForEnter
  <2>5. ASSUME NEW p \in Procs, StoreForEnter(p) PROVE Ownership'
    BY <2>5 DEF StoreForEnter
  <2>6. ASSUME NEW p \in Procs, LoadForLeave(p) PROVE Ownership'
    BY <2>6 DEF LoadForLeave
  <2>7. ASSUME NEW p \in Procs, StoreForLeave(p) PROVE Ownership'
    BY <2>7 DEF StoreForLeave
  <2>8. ASSUME NEW p \in Procs, Release(p) PROVE Ownership'
    BY <2>8 DEF Release
  <2>9. ASSUME NEW p \in Procs, Clear(p) PROVE Ownership'
    BY <2>9 DEF Clear
  <2>10. CASE UNCHANGED vars
    BY <2>10 DEF vars
  <2> QED
    BY <2>1, <2>2, <2>3, <2>4, <2>5, <2>6, <2>7, <2>8, <2>9, <2>10
       DEF Next, Enter, Leave
<1> QED
  BY <1>1, <1>2, TypeCorrect, PTL DEF Spec, IInv

\* Two processes are inside together only after a theft.
THEOREM Exclusion == Spec => []ExclusionUnlessStolen
<1>1. IInv => ExclusionUnlessStolen
  BY DEF IInv, Ownership, Holds, ExclusionUnlessStolen, MutualExclusion, Inside
<1> QED
  BY <1>1, Owned, PTL

\* The count of a process that is between two calls is its nesting, and a lock
\* that nobody holds is free with its count back to zero.
THEOREM Counting == Spec => []CountIsSound
<1>1. IInv => CountIsNesting
  BY DEF IInv, Typed, TypeOK, Ownership, Holds, CountAt, CountIsNesting, Inside
<1>2. IInv => QuiescentIsFree
  BY DEF IInv, Typed, TypeOK, SyncVars, Ownership, Holds, QuiescentIsFree, FreeVar
<1>3. IInv => CountIsSound
  BY <1>1, <1>2 DEF CountIsSound
<1> QED
  BY <1>3, Owned, PTL

\* The lock as the modules see it that enter and leave in one step (Entered and Left of
\* SyncVar): it is taken from the store of busy on, and given back with the last
\* instruction of the exit.
SeenLock ==
  [busy |-> var.busy,
   wait |-> IF var.busy = NoPid THEN 0
            ELSE depth[var.busy] + (IF pc[var.busy] \in {"load", "store"} THEN 1 ELSE 0)]

\* What these modules allow: p enters a lock that is free or its own, or leaves its own.
OneStep ==
  \E p \in Procs :
    \/ Passes(SeenLock, p) /\ SeenLock' = Entered(SeenLock, p)
    \/ SeenLock.busy = p /\ SeenLock' = Left(SeenLock)

\* The two are the same lock: when no instruction of sync.c is under way in the owner.
LEMMA SeenIsVar ==
  ASSUME IInv, ~stolen, \A p \in Procs : pc[p] \in {"run", "spin", "own"}
  PROVE  SeenLock = var
<1>1. var \in [busy : Procs \cup {NoPid}, wait : Int]
  BY DEF IInv, Typed, TypeOK, SyncVars
<1>2. SeenLock.wait = var.wait
  <2>1. CASE var.busy = NoPid
    BY <2>1 DEF IInv, Ownership, SeenLock
  <2>2. CASE var.busy \in Procs
    <3>1. PICK p \in Procs : p = var.busy
      BY <2>2
    <3>2. Holds(p) /\ CountAt(p) /\ depth[p] \in Int /\ pc[p] \in {"run", "spin", "own"}
      BY <3>1 DEF IInv, Ownership, Typed, TypeOK
    <3>3. var.wait = depth[p]
      BY <3>2 DEF CountAt
    <3>4. p # NoPid
      BY LockAssumption DEF LockAssumption
    <3>5. QED BY <3>1, <3>2, <3>3, <3>4 DEF SeenLock
  <2>3. QED BY <2>1, <2>2, <1>1
<1>3. QED BY <1>1, <1>2 DEF SeenLock

\* Until a theft, sync_entercrit and sync_leavecrit are what the rest of the models takes
\* them for: whatever is preempted where, every instruction enters or leaves the lock as
\* a whole, once, or changes nothing that another process can tell.
THEOREM LockInOneStep ==
  Spec => SeenLock = FreeVar /\ [][~stolen' => OneStep \/ UNCHANGED SeenLock]_vars
<1>1. Init => SeenLock = FreeVar
  BY DEF Init, SeenLock, FreeVar
<1>2. IInv /\ IInv' /\ [Next]_vars => [~stolen' => OneStep \/ UNCHANGED SeenLock]_vars
  <2> SUFFICES ASSUME IInv, IInv', Next, ~stolen'
               PROVE  OneStep \/ UNCHANGED SeenLock
    BY DEF vars
  <2>1. PICK p \in Procs : Enter(p) \/ Leave(p)
    BY DEF Next
  <2>2. ~stolen
    BY <2>1, ZenonT(30) DEF Enter, Leave, Call, Test, Own, LoadForEnter, StoreForEnter,
       LoadForLeave, StoreForLeave, Release, Clear
  <2>3. /\ pc \in [Procs -> {"run", "spin", "own", "load", "store", "dec", "iszero", "clear"}]
        /\ depth \in [Procs -> Nat] /\ var \in [busy : Procs \cup {NoPid}, wait : Int]
        /\ NoPid \notin Procs
    BY LockAssumption DEF LockAssumption, IInv, Typed, TypeOK, SyncVars
  <2>4. /\ \A q \in Procs : Holds(q) <=> var.busy = q
        /\ Holds(p) => CountAt(p)
        /\ \A q \in Procs : Holds(q)' <=> var'.busy = q
        /\ Holds(p)' => CountAt(p)'
        /\ pc[p] \in {"dec", "iszero", "clear"} => depth[p] > 0
    BY <2>2 DEF IInv, Ownership, Typed, Paired
  <2>5. ASSUME var'.busy = var.busy, depth' = depth,
               pc'[p] \in {"load", "store"} <=> pc[p] \in {"load", "store"},
               \A q \in Procs \ {p} : pc'[q] = pc[q]
        PROVE  UNCHANGED SeenLock
    <3>1. CASE var.busy = NoPid
      BY <3>1, <2>5 DEF SeenLock
    <3>2. CASE var.busy \in Procs
      <4>1. PICK q \in Procs : q = var.busy
        BY <3>2
      <4>2. pc'[q] \in {"load", "store"} <=> pc[q] \in {"load", "store"}
        BY <2>5
      <4>3. QED BY <4>1, <4>2, <2>5 DEF SeenLock
    <3>3. QED BY <3>1, <3>2, <2>3
  <2>6. ASSUME Call(p) \/ Test(p) PROVE UNCHANGED SeenLock
    BY <2>3, <2>5, <2>6 DEF Call, Test, Goto
  <2>7. ASSUME LoadForEnter(p) \/ LoadForLeave(p) PROVE UNCHANGED SeenLock
    BY <2>3, <2>5, <2>7 DEF LoadForEnter, LoadForLeave, Goto
  <2>8. ASSUME Own(p) PROVE OneStep
    <3>1. Passes(var, p)
      BY <2>8, ZenonT(30) DEF Own
    <3>2. /\ pc[p] = "own" /\ pc' = [pc EXCEPT ![p] = "load"] /\ depth' = depth
          /\ var'.busy = p
      BY <2>3, <2>8 DEF Own, Goto
    <3>3. PICK d \in Nat : d = depth[p]
      BY <2>3
    <3>4. SeenLock' = [busy |-> p, wait |-> d + 1]
      BY <2>3, <3>2, <3>3 DEF SeenLock
    <3>5. SeenLock.busy \in {NoPid, p} /\ SeenLock.wait = d
      <4>1. CASE var.busy = NoPid
        <5>1. ~ Holds(p)
          BY <4>1, <2>3, <2>4
        <5>2. d = 0
          BY <5>1, <3>3 DEF Holds
        <5>3. QED BY <4>1, <5>2 DEF SeenLock
      <4>2. CASE var.busy = p
        BY <4>2, <2>3, <3>2, <3>3 DEF SeenLock
      <4>3. QED BY <3>1, <4>1, <4>2 DEF Passes
    <3>6. Passes(SeenLock, p) /\ SeenLock' = Entered(SeenLock, p)
      BY <3>4, <3>5 DEF Passes, Entered
    <3>7. QED BY <3>6 DEF OneStep
  <2>9. ASSUME StoreForEnter(p) PROVE UNCHANGED SeenLock
    <3>1. /\ pc[p] = "store" /\ pc' = [pc EXCEPT ![p] = "run"]
          /\ depth' = [depth EXCEPT ![p] = @ + 1] /\ var'.busy = var.busy
      BY <2>3, <2>9 DEF StoreForEnter, Goto
    <3>2. var.busy = p
      BY <2>4, <3>1 DEF Holds
    <3>3. PICK d \in Nat : d = depth[p]
      BY <2>3
    <3>4. SeenLock = [busy |-> p, wait |-> d + 1]
      BY <2>3, <3>1, <3>2, <3>3 DEF SeenLock
    <3>5. SeenLock' = [busy |-> p, wait |-> (d + 1) + 0]
      BY <2>3, <3>1, <3>2, <3>3 DEF SeenLock
    <3>6. QED BY <3>4, <3>5
  <2>10. ASSUME StoreForLeave(p) PROVE UNCHANGED SeenLock
    BY <2>3, <2>5, <2>10 DEF StoreForLeave, Goto
  <2>11. ASSUME Release(p) PROVE OneStep \/ UNCHANGED SeenLock
    <3>1. CASE var.wait = 0
      <4>1. /\ var'.busy = var.busy /\ depth' = depth
            /\ pc[p] = "iszero" /\ pc' = [pc EXCEPT ![p] = "clear"]
        BY <2>11, <3>1 DEF Release
      <4>2. QED BY <2>3, <2>5, <4>1
    <3>2. CASE var.wait # 0
      <4>1. /\ var'.busy = var.busy /\ depth' = [depth EXCEPT ![p] = @ - 1]
            /\ pc[p] = "iszero" /\ pc' = [pc EXCEPT ![p] = "run"]
        BY <2>11, <3>2 DEF Release
      <4>2. depth[p] > 0 /\ var.busy = p /\ var.wait = depth[p] - 1
        BY <2>4, <4>1 DEF Holds, CountAt
      <4>3. PICK d \in Nat : d = depth[p] /\ d # 0 /\ d # 1
        BY <2>3, <3>2, <4>2
      <4>4. SeenLock = [busy |-> p, wait |-> d + 0]
        BY <2>3, <4>1, <4>2, <4>3 DEF SeenLock
      <4>5. SeenLock' = [busy |-> p, wait |-> (d - 1) + 0]
        BY <2>3, <4>1, <4>2, <4>3 DEF SeenLock
      <4>6. SeenLock.busy = p /\ SeenLock' = Left(SeenLock)
        BY <4>3, <4>4, <4>5 DEF Left
      <4>7. QED BY <4>6 DEF OneStep
    <3>3. QED BY <3>1, <3>2
  <2>12. ASSUME Clear(p) PROVE OneStep
    <3>1. pc[p] = "clear" /\ var'.busy = NoPid
      BY <2>3, <2>12 DEF Clear, Goto
    <3>2. depth[p] = 1 /\ var.busy = p
      BY <2>4, <3>1 DEF Holds, CountAt
    <3>3. SeenLock = [busy |-> p, wait |-> 1]
      BY <2>3, <3>1, <3>2 DEF SeenLock
    <3>4. SeenLock' = [busy |-> NoPid, wait |-> 0]
      BY <3>1 DEF SeenLock
    <3>5. SeenLock.busy = p /\ SeenLock' = Left(SeenLock)
      BY <3>3, <3>4 DEF Left
    <3>6. QED BY <3>5 DEF OneStep
  <2>13. QED
    BY <2>1, <2>6, <2>7, <2>8, <2>9, <2>10, <2>11, <2>12 DEF Enter, Leave
<1>3. QED
  BY <1>1, <1>2, Owned, PTL DEF Spec

------------------------------------------------------------------------------

\* The clock (stdlib/time.c): the times of the calendar.
IsTime(t) ==
  /\ t \in [sec : 0 .. Minute - 1, min : 0 .. Hour - 1, hour : 0 .. Day - 1,
            day : 1 .. 31, month : 1 .. 12, year : Nat]
  /\ t.day <= MonthLength(t.year, t.month)

\* What time() counts of the days, without the one too many, and of the day.
DaysTo(t) ==
  (t.year - 1970) * 365
  + (IF Leap(t.year) /\ t.month <= 2 THEN t.year \div 4 - 1 ELSE t.year \div 4)
  + time_monthdays[t.month] + t.day
OfDay(t) == (t.hour * Hour + t.min) * Minute + t.sec

\* The table of the days before each month.
LEMMA MonthDays ==
  ASSUME NEW m \in 1 .. 12
  PROVE  time_monthdays[m] \in Nat /\ time_monthdays[m] <= 334
<1>1. CASE m <= 6
  BY <1>1 DEF time_monthdays
<1>2. CASE m > 6
  BY <1>2 DEF time_monthdays
<1>3. QED BY <1>1, <1>2

\* The length of each month is what the table grows by, but for the leap day.
LEMMA MonthGrows ==
  ASSUME NEW m \in 1 .. 11, NEW y \in Nat
  PROVE  time_monthdays[m + 1] =
           time_monthdays[m] + MonthLength(y, m) - (IF m = 2 /\ Leap(y) THEN 1 ELSE 0)
<1>1. CASE m = 1 BY <1>1 DEF time_monthdays, MonthLength
<1>2. CASE m = 2 BY <1>2 DEF time_monthdays, MonthLength
<1>3. CASE m = 3 BY <1>3 DEF time_monthdays, MonthLength
<1>4. CASE m = 4 BY <1>4 DEF time_monthdays, MonthLength
<1>5. CASE m = 5 BY <1>5 DEF time_monthdays, MonthLength
<1>6. CASE m = 6 BY <1>6 DEF time_monthdays, MonthLength
<1>7. CASE m = 7 BY <1>7 DEF time_monthdays, MonthLength
<1>8. CASE m = 8 BY <1>8 DEF time_monthdays, MonthLength
<1>9. CASE m = 9 BY <1>9 DEF time_monthdays, MonthLength
<1>10. CASE m = 10 BY <1>10 DEF time_monthdays, MonthLength
<1>11. CASE m = 11 BY <1>11 DEF time_monthdays, MonthLength
<1>12. QED
  BY <1>1, <1>2, <1>3, <1>4, <1>5, <1>6, <1>7, <1>8, <1>9, <1>10, <1>11

\* A month has between 28 and 31 days, December 31.
LEMMA MonthLengths ==
  ASSUME NEW m \in 1 .. 12, NEW y \in Nat
  PROVE  MonthLength(y, m) \in 28 .. 31 /\ (m = 12 => MonthLength(y, m) = 31)
BY DEF MonthLength

\* The constants, one by one.
LEMMA ClockConstants ==
  /\ context_switch_rate \in Nat \ {0} /\ Parts \in Nat \ {0} /\ Minute \in Nat \ {0}
  /\ Hour \in Nat \ {0} /\ Day \in Nat \ {0} /\ Sync \in Nat \ {0}
  /\ DayLength \in Nat \ {0} /\ LastSecond \in Nat /\ LastSecond <= 365 * DayLength
<1>1. /\ context_switch_rate \in Nat \ {0} /\ Parts \in Nat \ {0} /\ Minute \in Nat \ {0}
      /\ Hour \in Nat \ {0} /\ Day \in Nat \ {0} /\ Sync \in Nat \ {0}
  BY ClockAssumption
<1>2. Day * Hour \in Nat \ {0}
  BY <1>1
<1>3. DayLength \in Nat \ {0}
  BY <1>1, <1>2 DEF DayLength
<1>4. LastSecond \in Nat /\ LastSecond <= 365 * DayLength
  BY <1>3, ClockAssumption
<1>5. QED BY <1>1, <1>3, <1>4

\* How time() counts: in days, and in the day.
LEMMA CountsDays ==
  ASSUME NEW t, IsTime(t)
  PROVE  DaysTo(t) \in Int /\ OfDay(t) \in 0 .. DayLength - 1
         /\ Uncounted(t) = DaysTo(t) * DayLength + OfDay(t)
<1>1. PICK y \in Nat : y = t.year
  BY DEF IsTime
<1>2. PICK mo \in 1 .. 12 : mo = t.month
  BY DEF IsTime
<1>3. PICK d \in Nat : d = t.day
  BY DEF IsTime
<1>4. PICK h \in 0 .. Day - 1 : h = t.hour
  BY DEF IsTime
<1>5. PICK m \in 0 .. Hour - 1 : m = t.min
  BY DEF IsTime
<1>6. PICK s \in 0 .. Minute - 1 : s = t.sec
  BY DEF IsTime
<1>7. PICK b \in Nat : b = time_monthdays[mo]
  BY MonthDays
<1>8. PICK w \in Int : 
        w = (y - 1970) * 365 + (IF Leap(y) /\ mo <= 2 THEN y \div 4 - 1 ELSE y \div 4) + b + d
  <2>1. y \div 4 \in Int BY <1>1
  <2>2. QED BY <2>1, <1>1, <1>7, <1>3
<1>9. DaysTo(t) = w
  BY <1>1, <1>2, <1>3, <1>7, <1>8 DEF DaysTo
<1>10. PICK e \in {0, 1} : e = (IF Leap(y) /\ mo > 2 THEN 1 ELSE 0)
  OBVIOUS
<1>11. time(t) = (((w + e) * Day + h) * Hour + m) * Minute + s
  <2>1. y \div 4 \in Int BY <1>1
  <2>2. (y - 1970) * 365 + (IF y % 4 # 0 \/ mo > 2 THEN y \div 4 ELSE y \div 4 - 1)
          + (IF mo > 2 /\ y % 4 = 0 THEN 1 ELSE 0) + b + d = w + e
    BY <2>1, <1>1, <1>2, <1>3, <1>7, <1>8, <1>10 DEF Leap
  <2>3. QED BY <2>2, <1>1, <1>2, <1>3, <1>4, <1>5, <1>6, <1>7 DEF time
<1>12. PICK D \in Nat : D = Day BY ClockConstants
<1>13. PICK H \in Nat : H = Hour BY ClockConstants
<1>14. PICK M \in Nat : M = Minute BY ClockConstants
<1>15. PICK HM \in Nat : HM = H * M OBVIOUS
<1>16. DayLength = D * HM
  <2>1. D * H * M = D * (H * M) OBVIOUS
  <2>2. QED BY <2>1, <1>12, <1>13, <1>14, <1>15 DEF DayLength
<1>17. OfDay(t) = h * HM + m * M + s
  <2>1. h \in Int /\ m \in Int /\ s \in Int BY ClockConstants
  <2>2. (h * H + m) * M = h * H * M + m * M BY <2>1
  <2>3. h * H * M = h * (H * M) BY <2>1
  <2>4. QED BY <2>2, <2>3, <1>4, <1>5, <1>6, <1>13, <1>14, <1>15 DEF OfDay
<1>18. \A n \in Int : ((n * D + h) * H + m) * M + s = n * DayLength + OfDay(t)
  <2> TAKE n \in Int
  <2>1. h \in Int /\ m \in Int /\ s \in Int BY ClockConstants
  <2>2. PICK nD \in Int : nD = n * D OBVIOUS
  <2>3. ((nD + h) * H + m) * M = (nD + h) * H * M + m * M BY <2>1
  <2>4. (nD + h) * H * M = (nD + h) * (H * M) BY <2>1
  <2>5. (nD + h) * HM = nD * HM + h * HM BY <2>1
  <2>6. nD * HM = n * (D * HM) BY <2>2
  <2>7. QED BY <2>1, <2>2, <2>3, <2>4, <2>5, <2>6, <1>15, <1>16, <1>17
<1>19. OfDay(t) \in 0 .. DayLength - 1
  <2>1. h \in Nat /\ m \in Nat /\ s \in Nat /\ h + 1 <= D /\ m + 1 <= H /\ s + 1 <= M
    BY <1>12, <1>13, <1>14, ClockConstants
  <2>2. m * M + M <= HM
    <3>1. m * M + M = (m + 1) * M BY <2>1
    <3>2. (m + 1) * M <= H * M BY <2>1
    <3>3. QED BY <3>1, <3>2, <1>15
  <2>3. h * HM + HM <= D * HM
    <3>1. h * HM + HM = (h + 1) * HM BY <2>1
    <3>2. (h + 1) * HM <= D * HM BY <2>1
    <3>3. QED BY <3>1, <3>2
  <2>4. PICK mM \in Nat : mM = m * M BY <2>1
  <2>5. PICK hH \in Nat : hH = h * HM BY <2>1
  <2>6. PICK DL \in Nat : DL = D * HM OBVIOUS
  <2>7. hH + mM + s \in Nat /\ hH + mM + s < DL BY <2>1, <2>2, <2>3, <2>4, <2>5, <2>6
  <2>8. QED BY <2>4, <2>5, <2>6, <2>7, <1>16, <1>17
<1>20. Uncounted(t) = w * DayLength + OfDay(t)
  <2>1. time(t) = (w + e) * DayLength + OfDay(t)
    <3>1. w + e \in Int BY <1>10
    <3>2. ((((w + e) * D + h) * H) + m) * M + s = (w + e) * DayLength + OfDay(t)
      BY <3>1, <1>18
    <3>3. QED BY <3>2, <1>11, <1>12, <1>13, <1>14
  <2>2. (w + e) * DayLength = w * DayLength + e * DayLength BY <1>10, ClockConstants
  <2>3. PICK wL \in Int : wL = w * DayLength BY ClockConstants
  <2>4. PICK O \in Int : O = OfDay(t) BY <1>19, ClockConstants
  <2>5. PICK L \in Nat : L = DayLength BY ClockConstants
  <2>6. Uncounted(t) = time(t) - (IF Leap(y) /\ mo > 2 THEN L ELSE 0)
    BY <1>1, <1>2, <2>5 DEF Uncounted
  <2>7. CASE e = 0
    BY <2>7, <2>1, <2>2, <2>3, <2>4, <2>5, <2>6, <1>10
  <2>8. CASE e = 1
    BY <2>8, <2>1, <2>2, <2>3, <2>4, <2>5, <2>6, <1>10
  <2>9. QED BY <2>7, <2>8, <1>10
<1>21. QED BY <1>9, <1>19, <1>20

\* A record of the six fields, put together again.
LEMMA TimeOfFields ==
  ASSUME NEW t, IsTime(t)
  PROVE  t = [sec |-> t.sec, min |-> t.min, hour |-> t.hour, day |-> t.day,
              month |-> t.month, year |-> t.year]
BY DEF IsTime

\* The day after is one on, and a date of the calendar.
LEMMA DayAfterCounts ==
  ASSUME NEW t, IsTime(t)
  PROVE  IsTime(DayAfter(t)) /\ DaysTo(DayAfter(t)) = DaysTo(t) + 1
         /\ OfDay(DayAfter(t)) = OfDay(t)
<1>1. PICK y \in Nat : y = t.year
  BY DEF IsTime
<1>2. PICK mo \in 1 .. 12 : mo = t.month
  BY DEF IsTime
<1>3. PICK d \in 1 .. 31 : d = t.day
  BY DEF IsTime
<1>4. PICK len \in 28 .. 31 : len = MonthLength(y, mo)
  BY MonthLengths
<1>5. d <= len
  BY <1>1, <1>2, <1>3, <1>4 DEF IsTime
<1>6. PICK b \in Nat : b = time_monthdays[mo]
  BY MonthDays
<1>7. y \div 4 \in Int
  BY <1>1
<1>8. DaysTo(t) = (y - 1970) * 365
                  + (IF Leap(y) /\ mo <= 2 THEN y \div 4 - 1 ELSE y \div 4) + b + d
  BY <1>1, <1>2, <1>3, <1>6 DEF DaysTo
<1>9. CASE d < len
  <2>1. DayAfter(t) = [t EXCEPT !.day = @ + 1]
    BY <1>9, <1>1, <1>2, <1>3, <1>4 DEF DayAfter
  <2>2. d + 1 \in 1 .. 31 /\ d + 1 <= MonthLength(y, mo)
    BY <1>3, <1>4, <1>9
  <2>3. IsTime([t EXCEPT !.day = @ + 1])
    BY <2>2, <1>1, <1>2, <1>3 DEF IsTime
  <2>4. DaysTo([t EXCEPT !.day = @ + 1]) = DaysTo(t) + 1
    <3> DEFINE u == [t EXCEPT !.day = @ + 1]
    <3>1. u.year = y /\ u.month = mo /\ u.day = d + 1
      BY <1>1, <1>2, <1>3 DEF IsTime
    <3>2. DaysTo(u) = (y - 1970) * 365
                      + (IF Leap(y) /\ mo <= 2 THEN y \div 4 - 1 ELSE y \div 4) + b + (d + 1)
      BY <3>1, <1>6 DEF DaysTo
    <3>3. QED BY <3>2, <1>8, <1>7, <1>1, <1>3, <1>6
  <2>5. OfDay([t EXCEPT !.day = @ + 1]) = OfDay(t)
    BY DEF OfDay, IsTime
  <2>6. QED BY <2>1, <2>3, <2>4, <2>5
<1>10. CASE d = len /\ mo < 12
  <2>1. DayAfter(t) = [t EXCEPT !.day = 1, !.month = @ + 1]
    <3>1. t.day = len /\ MonthLength(t.year, t.month) = len
      BY <1>10, <1>1, <1>2, <1>3, <1>4
    <3>2. ~ (t.day < MonthLength(t.year, t.month))
      BY <3>1
    <3>3. t.month < 12
      BY <1>10, <1>2
    <3>4. QED BY <3>2, <3>3 DEF DayAfter
  <2>2. mo + 1 \in 1 .. 12 /\ MonthLength(y, mo + 1) >= 28
    <3>1. mo + 1 \in 1 .. 12
      BY <1>10
    <3>2. MonthLength(y, mo + 1) \in 28 .. 31
      BY <3>1, MonthLengths
    <3>3. QED BY <3>1, <3>2
  <2>3. IsTime([t EXCEPT !.day = 1, !.month = @ + 1])
    <3>1. MonthLength(y, mo + 1) \in 28 .. 31
      BY <2>2, MonthLengths
    <3> DEFINE u == [t EXCEPT !.day = 1, !.month = @ + 1]
    <3>2. u.year = y /\ u.month = mo + 1 /\ u.day = 1
      BY <1>1, <1>2 DEF IsTime
    <3>3. u.day <= MonthLength(u.year, u.month)
      BY <3>1, <3>2
    <3>4. u \in [sec : 0 .. Minute - 1, min : 0 .. Hour - 1, hour : 0 .. Day - 1,
                 day : 1 .. 31, month : 1 .. 12, year : Nat]
      <4>1. 1 \in 1 .. 31 /\ t.month + 1 \in 1 .. 12
        BY <2>2, <1>2
      <4>2. QED BY <4>1 DEF IsTime
    <3>5. QED BY <3>3, <3>4 DEF IsTime
  <2>4. DaysTo([t EXCEPT !.day = 1, !.month = @ + 1]) = DaysTo(t) + 1
    <3> DEFINE u == [t EXCEPT !.day = 1, !.month = @ + 1]
    <3>1. u.year = y /\ u.month = mo + 1 /\ u.day = 1
      BY <1>1, <1>2, <1>3 DEF IsTime
    <3>2. DaysTo(u) = (y - 1970) * 365
                        + (IF Leap(y) /\ mo + 1 <= 2 THEN y \div 4 - 1 ELSE y \div 4)
                        + time_monthdays[mo + 1] + 1
      BY <3>1 DEF DaysTo
    <3>3. time_monthdays[mo + 1] = b + len - (IF mo = 2 /\ Leap(y) THEN 1 ELSE 0)
      <4>1. mo \in 1 .. 11
        BY <1>10
      <4>2. QED BY <4>1, MonthGrows, <1>1, <1>4, <1>6
    <3>4. QED BY <3>2, <3>3, <1>10, <1>8, <1>7, <1>1, <1>3, <1>6
  <2>5. OfDay([t EXCEPT !.day = 1, !.month = @ + 1]) = OfDay(t)
    BY DEF OfDay, IsTime
  <2>6. QED BY <2>1, <2>3, <2>4, <2>5
<1>11. CASE d = len /\ mo = 12
  <2>1. DayAfter(t) = [t EXCEPT !.day = 1, !.month = 1, !.year = @ + 1]
    <3>1. t.day = len /\ MonthLength(t.year, t.month) = len
      BY <1>11, <1>1, <1>2, <1>3, <1>4
    <3>2. ~ (t.day < MonthLength(t.year, t.month))
      BY <3>1
    <3>3. ~ (t.month < 12)
      BY <1>11, <1>2
    <3>4. QED BY <3>2, <3>3 DEF DayAfter
  <2>2. MonthLength(y + 1, 1) = 31 /\ len = 31
    <3>1. MonthLength(y + 1, 1) = 31
      BY DEF MonthLength
    <3>2. MonthLength(y, 12) = 31
      BY DEF MonthLength
    <3>3. QED BY <3>1, <3>2, <1>4, <1>11
  <2>3. IsTime([t EXCEPT !.day = 1, !.month = 1, !.year = @ + 1])
    <3> DEFINE u == [t EXCEPT !.day = 1, !.month = 1, !.year = @ + 1]
    <3>2. u.year = y + 1 /\ u.month = 1 /\ u.day = 1
      BY <1>1, <1>2 DEF IsTime
    <3>3. u.day <= MonthLength(u.year, u.month)
      BY <2>2, <3>2
    <3>4. u \in [sec : 0 .. Minute - 1, min : 0 .. Hour - 1, hour : 0 .. Day - 1,
                 day : 1 .. 31, month : 1 .. 12, year : Nat]
      <4>1. 1 \in 1 .. 31 /\ 1 \in 1 .. 12 /\ t.year + 1 \in Nat
        BY <1>1
      <4>2. QED BY <4>1 DEF IsTime
    <3>5. QED BY <3>3, <3>4 DEF IsTime
  <2>4. DaysTo([t EXCEPT !.day = 1, !.month = 1, !.year = @ + 1]) = DaysTo(t) + 1
    <3> DEFINE u == [t EXCEPT !.day = 1, !.month = 1, !.year = @ + 1]
    <3>1. u.year = y + 1 /\ u.month = 1 /\ u.day = 1
      BY <1>1, <1>2, <1>3 DEF IsTime
    <3>2. DaysTo(u) = (y + 1 - 1970) * 365
                        + (IF Leap(y + 1) THEN (y + 1) \div 4 - 1 ELSE (y + 1) \div 4)
                        + time_monthdays[1] + 1
      BY <3>1 DEF DaysTo
    <3>3. time_monthdays[1] = 0 /\ time_monthdays[12] = 334
      BY DEF time_monthdays
    <3>4. (IF (y + 1) % 4 = 0 THEN (y + 1) \div 4 - 1 ELSE (y + 1) \div 4) = y \div 4
      BY <1>1
    <3>5. DaysTo(u) = (y + 1 - 1970) * 365 + y \div 4 + 0 + 1
      BY <3>2, <3>3, <3>4 DEF Leap
    <3>6. DaysTo(t) = (y - 1970) * 365 + y \div 4 + 334 + 31
      BY <1>8, <3>3, <1>6, <1>11, <2>2
    <3>7. QED BY <3>5, <3>6, <1>7, <1>1
  <2>5. OfDay([t EXCEPT !.day = 1, !.month = 1, !.year = @ + 1]) = OfDay(t)
    BY DEF OfDay, IsTime
  <2>6. QED BY <2>1, <2>3, <2>4, <2>5
<1>12. QED BY <1>5, <1>9, <1>10, <1>11, <1>3, <1>4

\* What a second more makes of the time of the day: one more, or midnight.
LEMMA SecondOn ==
  ASSUME NEW t, IsTime(t)
  PROVE  /\ t.sec + 1 < Minute => OfDay([t EXCEPT !.sec = @ + 1]) = OfDay(t) + 1
         /\ t.sec + 1 = Minute =>
              OfDay([t EXCEPT !.sec = 0, !.min = @ + 1]) = OfDay(t) + 1
         /\ t.sec + 1 = Minute /\ t.min + 1 = Hour =>
              OfDay([t EXCEPT !.sec = 0, !.min = 0, !.hour = @ + 1]) = OfDay(t) + 1
         /\ t.sec + 1 = Minute /\ t.min + 1 = Hour /\ t.hour + 1 = Day =>
              /\ OfDay(t) = DayLength - 1
              /\ OfDay([t EXCEPT !.sec = 0, !.min = 0, !.hour = 0]) = 0
<1>1. PICK h \in Nat : h = t.hour
  BY ClockConstants DEF IsTime
<1>2. PICK m \in Nat : m = t.min
  BY ClockConstants DEF IsTime
<1>3. PICK s \in Nat : s = t.sec
  BY ClockConstants DEF IsTime
<1>4. PICK D \in Nat \ {0} : D = Day
  BY ClockConstants
<1>5. PICK H \in Nat \ {0} : H = Hour
  BY ClockConstants
<1>6. PICK M \in Nat \ {0} : M = Minute
  BY ClockConstants
<1>7. OfDay(t) = (h * H + m) * M + s
  BY <1>1, <1>2, <1>3, <1>5, <1>6 DEF OfDay
<1>8. (h * H + (m + 1)) * M = (h * H + m) * M + M
  OBVIOUS
<1>9. PICK A \in Nat : A = (h * H + m) * M
  OBVIOUS
<1>10. ASSUME s + 1 < M
       PROVE  OfDay([t EXCEPT !.sec = @ + 1]) = OfDay(t) + 1
  <2>1. OfDay([t EXCEPT !.sec = @ + 1]) = (h * H + m) * M + (s + 1)
    BY <1>1, <1>2, <1>3, <1>5, <1>6 DEF OfDay, IsTime
  <2>2. QED BY <2>1, <1>7, <1>9
<1>11. ASSUME s + 1 = M
       PROVE  OfDay([t EXCEPT !.sec = 0, !.min = @ + 1]) = OfDay(t) + 1
  <2>1. OfDay([t EXCEPT !.sec = 0, !.min = @ + 1]) = (h * H + (m + 1)) * M + 0
    BY <1>1, <1>2, <1>3, <1>5, <1>6 DEF OfDay, IsTime
  <2>2. QED BY <2>1, <1>7, <1>8, <1>9, <1>11
<1>12. ASSUME s + 1 = M, m + 1 = H
       PROVE  OfDay([t EXCEPT !.sec = 0, !.min = 0, !.hour = @ + 1]) = OfDay(t) + 1
  <2>1. OfDay([t EXCEPT !.sec = 0, !.min = 0, !.hour = @ + 1]) = ((h + 1) * H + 0) * M + 0
    BY <1>1, <1>2, <1>3, <1>5, <1>6 DEF OfDay, IsTime
  <2>2. (h + 1) * H = h * H + H
    OBVIOUS
  <2>3. h * H \in Nat
    OBVIOUS
  <2>4. (h + 1) * H + 0 = h * H + (m + 1)
    BY <2>2, <2>3, <1>12
  <2>5. OfDay([t EXCEPT !.sec = 0, !.min = 0, !.hour = @ + 1]) = (h * H + (m + 1)) * M + 0
    BY <2>1, <2>4
  <2>6. QED BY <2>5, <1>7, <1>8, <1>9, <1>12
<1>13. ASSUME s + 1 = M, m + 1 = H, h + 1 = D
       PROVE  /\ OfDay(t) = DayLength - 1
              /\ OfDay([t EXCEPT !.sec = 0, !.min = 0, !.hour = 0]) = 0
  <2>1. OfDay([t EXCEPT !.sec = 0, !.min = 0, !.hour = 0]) = (0 * H + 0) * M + 0
    BY <1>5, <1>6 DEF OfDay, IsTime
  <2>2. h * H \in Nat /\ (h + 1) * H = h * H + H
    OBVIOUS
  <2>3. h * H + m + 1 = D * H
    BY <2>2, <1>13
  <2>4. PICK DH \in Nat : DH = D * H
    OBVIOUS
  <2>5. h * H + m = DH - 1
    BY <2>2, <2>3, <2>4
  <2>6. (DH - 1) * M = DH * M - M
    BY <2>4
  <2>7. PICK L \in Nat : L = DH * M
    BY <2>4
  <2>8. DayLength = L
    BY <2>4, <2>7, <1>4, <1>5, <1>6 DEF DayLength
  <2>9. QED BY <2>1, <2>5, <2>6, <2>7, <2>8, <1>7, <1>13
<1>14. QED BY <1>10, <1>11, <1>12, <1>13, <1>1, <1>2, <1>3, <1>4, <1>5, <1>6

\* The next second of the chip is one more, and a time of the calendar.
LEMMA SecondAfterCounts ==
  ASSUME NEW t, IsTime(t)
  PROVE  IsTime(SecondAfter(t)) /\ Uncounted(SecondAfter(t)) = Uncounted(t) + 1
<1>1. PICK L \in Nat : L = DayLength
  BY ClockConstants
<1>2. PICK D \in Int : D = DaysTo(t)
  BY CountsDays
<1>3. PICK O \in Int : O = OfDay(t)
  BY CountsDays, ClockConstants
<1>4. Uncounted(t) = D * L + O
  BY CountsDays, <1>1, <1>2, <1>3
<1>5. PICK DL \in Int : DL = D * L
  OBVIOUS
<1>6. /\ t.sec \in 0 .. Minute - 1 /\ t.min \in 0 .. Hour - 1 /\ t.hour \in 0 .. Day - 1
      /\ Minute \in Nat /\ Hour \in Nat /\ Day \in Nat
  BY ClockConstants DEF IsTime
<1>7. ASSUME NEW u, IsTime(u), DaysTo(u) = D, OfDay(u) = O + 1
      PROVE  IsTime(u) /\ Uncounted(u) = Uncounted(t) + 1
  <2>1. Uncounted(u) = D * L + (O + 1)
    BY <1>7, CountsDays, <1>1
  <2>2. QED BY <2>1, <1>4, <1>5, <1>3, <1>7
<1>8. CASE t.sec + 1 < Minute
  <2> DEFINE u == [t EXCEPT !.sec = @ + 1]
  <2>1. SecondAfter(t) = u
    BY <1>8 DEF SecondAfter
  <2>2. IsTime(u)
    BY <1>6, <1>8 DEF IsTime
  <2>3. DaysTo(u) = D
    BY <1>2 DEF DaysTo, IsTime
  <2>4. OfDay(u) = O + 1
    BY SecondOn, <1>8, <1>3
  <2> HIDE DEF u
  <2>5. QED BY <2>1, <2>2, <2>3, <2>4, <1>7
<1>9. CASE t.sec + 1 = Minute /\ t.min + 1 < Hour
  <2> DEFINE u == [t EXCEPT !.sec = 0, !.min = @ + 1]
  <2>1. SecondAfter(t) = u
    BY <1>9, <1>6 DEF SecondAfter
  <2>2. IsTime(u)
    <3>1. 0 \in 0 .. Minute - 1 /\ t.min + 1 \in 0 .. Hour - 1
      BY <1>6, <1>9
    <3>2. u.day = t.day /\ u.month = t.month /\ u.year = t.year
      BY DEF IsTime
    <3>3. u \in [sec : 0 .. Minute - 1, min : 0 .. Hour - 1, hour : 0 .. Day - 1,
                 day : 1 .. 31, month : 1 .. 12, year : Nat]
      BY <3>1 DEF IsTime
    <3>4. QED BY <3>2, <3>3 DEF IsTime
  <2>3. DaysTo(u) = D
    BY <1>2 DEF DaysTo, IsTime
  <2>4. OfDay(u) = O + 1
    BY SecondOn, <1>9, <1>3
  <2> HIDE DEF u
  <2>5. QED BY <2>1, <2>2, <2>3, <2>4, <1>7
<1>10. CASE t.sec + 1 = Minute /\ t.min + 1 = Hour /\ t.hour + 1 < Day
  <2> DEFINE u == [t EXCEPT !.sec = 0, !.min = 0, !.hour = @ + 1]
  <2>1. SecondAfter(t) = u
    BY <1>10, <1>6 DEF SecondAfter
  <2>2. IsTime(u)
    <3>1. 0 \in 0 .. Minute - 1 /\ 0 \in 0 .. Hour - 1 /\ t.hour + 1 \in 0 .. Day - 1
      BY <1>6, <1>10
    <3>2. u.day = t.day /\ u.month = t.month /\ u.year = t.year
      BY DEF IsTime
    <3>3. u \in [sec : 0 .. Minute - 1, min : 0 .. Hour - 1, hour : 0 .. Day - 1,
                 day : 1 .. 31, month : 1 .. 12, year : Nat]
      BY <3>1 DEF IsTime
    <3>4. QED BY <3>2, <3>3 DEF IsTime
  <2>3. DaysTo(u) = D
    BY <1>2 DEF DaysTo, IsTime
  <2>4. OfDay(u) = O + 1
    BY SecondOn, <1>10, <1>3
  <2> HIDE DEF u
  <2>5. QED BY <2>1, <2>2, <2>3, <2>4, <1>7
<1>11. CASE t.sec + 1 = Minute /\ t.min + 1 = Hour /\ t.hour + 1 = Day
  <2> DEFINE v == [t EXCEPT !.sec = 0, !.min = 0, !.hour = 0]
  <2>1. SecondAfter(t) = DayAfter(v)
    BY <1>11, <1>6 DEF SecondAfter
  <2>2. IsTime(v)
    <3>1. 0 \in 0 .. Minute - 1 /\ 0 \in 0 .. Hour - 1 /\ 0 \in 0 .. Day - 1
      BY <1>6, <1>11
    <3>2. v.day = t.day /\ v.month = t.month /\ v.year = t.year
      BY DEF IsTime
    <3>3. v \in [sec : 0 .. Minute - 1, min : 0 .. Hour - 1, hour : 0 .. Day - 1,
                 day : 1 .. 31, month : 1 .. 12, year : Nat]
      BY <3>1 DEF IsTime
    <3>4. QED BY <3>2, <3>3 DEF IsTime
  <2>3. DaysTo(v) = D
    BY <1>2 DEF DaysTo, IsTime
  <2>4. O = L - 1 /\ OfDay(v) = 0
    BY SecondOn, <1>11, <1>3, <1>1
  <2> HIDE DEF v
  <2>5. IsTime(DayAfter(v)) /\ DaysTo(DayAfter(v)) = D + 1 /\ OfDay(DayAfter(v)) = 0
    BY <2>2, <2>3, <2>4, DayAfterCounts
  <2>6. Uncounted(DayAfter(v)) = (D + 1) * L + 0
    BY <2>5, CountsDays, <1>1
  <2>7. (D + 1) * L = D * L + L
    OBVIOUS
  <2>8. Uncounted(DayAfter(v)) = DL + L
    BY <2>6, <2>7, <1>5
  <2>9. Uncounted(t) = DL + (L - 1)
    BY <2>4, <1>4, <1>5
  <2>10. Uncounted(DayAfter(v)) = Uncounted(t) + 1
    BY <2>8, <2>9
  <2>11. QED BY <2>1, <2>5, <2>10
<1>12. QED BY <1>6, <1>8, <1>9, <1>10, <1>11

\* A number survives BCD.
LEMMA BcdReadsBack ==
  ASSUME NEW n \in Nat
  PROVE  bcdtobinary(Bcd(n)) = n
BY DEF bcdtobinary, Bcd

\* What is read of a register is what the chip has there, between 2000 and 2079.
LEMMA RegisterReadsBack ==
  ASSUME NEW t, IsTime(t), t.year \in 2000 .. 2079, NEW i \in DOMAIN Registers
  PROVE  Decoded(Registers[i], Register(t, Registers[i])) = t[Registers[i]]
<1>1. Minute \in Nat /\ Hour \in Nat /\ Day \in Nat
  BY ClockConstants
<1>2. CASE Registers[i] = "year"
  <2>1. PICK y \in 2000 .. 2079 : y = t.year
    OBVIOUS
  <2>2. y % 100 \in Nat /\ (y % 100) + 2000 = y /\ y % 100 < 80
    BY <2>1
  <2>3. bcdtobinary(Bcd(y % 100)) = y % 100
    BY <2>2, BcdReadsBack
  <2>4. Register(t, "year") = Bcd(y % 100)
    BY <2>1 DEF Register
  <2>5. Decoded("year", Bcd(y % 100)) = y
    BY <2>2, <2>3 DEF Decoded
  <2>6. QED BY <1>2, <2>1, <2>4, <2>5
<1>3. CASE Registers[i] # "year"
  <2>1. Registers[i] \in {"sec", "min", "hour", "day", "month"}
    BY <1>3 DEF Registers
  <2>2. t[Registers[i]] \in Nat
    BY <2>1, <1>1 DEF IsTime
  <2>3. PICK n \in Nat : n = t[Registers[i]]
    BY <2>2
  <2>4. Register(t, Registers[i]) = Bcd(n)
    BY <2>3, <1>3 DEF Register
  <2>5. Decoded(Registers[i], Bcd(n)) = n
    BY BcdReadsBack, <1>3 DEF Decoded
  <2>6. QED BY <2>3, <2>4, <2>5
<1>4. QED BY <1>2, <1>3

\* So getdatetime, undisturbed, gets the time of the chip.
LEMMA GetsTheTime ==
  ASSUME NEW t, IsTime(t), t.year \in 2000 .. 2079
  PROVE  getdatetime(t) = t
<1> DEFINE F == {Registers[i] : i \in DOMAIN Registers}
<1>1. F = {"sec", "min", "hour", "day", "month", "year"}
  BY DEF Registers
<1>2. \A f \in F : Decoded(f, Register(t, f)) = t[f]
  BY RegisterReadsBack
<1>3. t = [f \in F |-> t[f]]
  <2>1. DOMAIN t = {"sec", "min", "hour", "day", "month", "year"}
    BY DEF IsTime
  <2>2. t = [f \in DOMAIN t |-> t[f]]
    BY DEF IsTime
  <2>3. QED BY <2>1, <2>2, <1>1
<1>4. getdatetime(t) = [f \in F |-> Decoded(f, Register(t, f))]
  BY DEF getdatetime
<1> HIDE DEF F
<1>5. [f \in F |-> Decoded(f, Register(t, f))] = [f \in F |-> t[f]]
  BY <1>2
<1>6. QED BY <1>3, <1>4, <1>5

\* Ticks since the last second was shown: m parts of a second, and a.
Shown(m, a) == m * (context_switch_rate \div Parts + 1) + a

\* One second more is shown: the next one, or the first of the same day.
ShownOn(t, u) ==
  /\ IsTime(u) /\ DaysTo(u) = DaysTo(t)
  /\ \/ OfDay(u) = OfDay(t) + 1
     \/ OfDay(u) = 0 /\ OfDay(t) = DayLength - 1 /\ u.hour = 0 /\ u.min = 0 /\ u.sec = 0
  /\ \/ t.sec + 1 < Minute /\ u.sec = t.sec + 1 /\ u.min = t.min
     \/ t.sec + 1 = Minute /\ u.sec = 0 /\ u.min % Sync = (t.min + 1) % Sync

\* A second shown has more ticks than one of the chip's.
LEMMA ShownIsLonger ==
  /\ context_switch_rate \div Parts \in Nat /\ TicksShown \in Nat
  /\ TicksShown > context_switch_rate
<1>1. PICK R \in Nat \ {0} : R = context_switch_rate
  BY ClockConstants
<1>2. PICK P \in Nat \ {0} : P = Parts
  BY ClockConstants
<1>3. PICK q \in Nat : q = R \div P
  BY <1>1, <1>2
<1>4. R < (q + 1) * P
  <2>1. R = P * q + (R % P) /\ R % P \in 0 .. P - 1
    BY <1>1, <1>2, <1>3
  <2>2. (q + 1) * P = P * q + P
    OBVIOUS
  <2>3. PICK w \in Nat : w = P * q
    OBVIOUS
  <2>4. QED BY <2>1, <2>2, <2>3
<1>5. (q + 1) * P \in Nat
  OBVIOUS
<1>6. QED BY <1>1, <1>2, <1>3, <1>4, <1>5 DEF TicksShown

\* The ticks are counted in parts of a second.
LEMMA TicksAreCounted ==
  ASSUME NEW m \in 0 .. Parts - 1, NEW a \in 0 .. context_switch_rate \div Parts
  PROVE  /\ Shown(m, a) \in 0 .. TicksShown - 1
         /\ a < context_switch_rate \div Parts => Shown(m, a + 1) = Shown(m, a) + 1
         /\ a = context_switch_rate \div Parts => Shown(m + 1, 0) = Shown(m, a) + 1
         /\ a = context_switch_rate \div Parts /\ m = Parts - 1 =>
              Shown(m, a) = TicksShown - 1
         /\ ~ (a = context_switch_rate \div Parts /\ m = Parts - 1) =>
              Shown(m, a) + 1 \in 0 .. TicksShown - 1
<1>1. PICK q \in Nat : q = context_switch_rate \div Parts
  BY ShownIsLonger
<1>2. PICK P \in Nat \ {0} : P = Parts
  BY ClockConstants
<1>3. m \in Nat /\ a \in Nat /\ a <= q /\ m + 1 <= P
  BY <1>1, <1>2
<1>4. PICK A \in Nat : A = m * (q + 1)
  BY <1>3
<1>5. \A n \in Nat : Shown(m, n) = A + n
  BY <1>1, <1>4 DEF Shown
<1>6. Shown(m + 1, 0) = A + q + 1
  <2>1. (m + 1) * (q + 1) = m * (q + 1) + (q + 1)
    BY <1>3
  <2>2. Shown(m + 1, 0) = (m + 1) * (q + 1) + 0
    BY <1>1 DEF Shown
  <2>3. QED BY <2>1, <2>2, <1>4
<1>7. PICK T \in Nat : T = TicksShown
  BY ShownIsLonger
<1>8. T = (q + 1) * P
  BY <1>1, <1>2, <1>7 DEF TicksShown
<1>9. A + (q + 1) <= T
  <2>1. (m + 1) * (q + 1) <= P * (q + 1)
    BY <1>3
  <2>2. (m + 1) * (q + 1) = m * (q + 1) + (q + 1)
    BY <1>3
  <2>3. P * (q + 1) = (q + 1) * P
    OBVIOUS
  <2>4. QED BY <2>1, <2>2, <2>3, <1>4, <1>8
<1>10. m = P - 1 => A + (q + 1) = T
  <2>1. (P - 1) * (q + 1) = P * (q + 1) - (q + 1)
    OBVIOUS
  <2>2. P * (q + 1) = (q + 1) * P
    OBVIOUS
  <2>3. QED BY <2>1, <2>2, <1>4, <1>8
<1>11. m < P - 1 => A + (q + 1) < T
  <2>1. SUFFICES ASSUME m + 2 <= P PROVE A + (q + 1) < T
    BY <1>3
  <2>2. (m + 2) * (q + 1) <= P * (q + 1)
    BY <1>3, <2>1
  <2>3. (m + 2) * (q + 1) = m * (q + 1) + 2 * (q + 1)
    BY <1>3
  <2>4. P * (q + 1) = (q + 1) * P
    OBVIOUS
  <2>5. QED BY <2>2, <2>3, <2>4, <1>4, <1>8
<1>12. Shown(m, a) = A + a /\ Shown(m, a + 1) = A + (a + 1)
  BY <1>3, <1>5
<1>13. QED BY <1>1, <1>2, <1>3, <1>6, <1>7, <1>9, <1>10, <1>11, <1>12

\* What the clock shows next, when a second has been counted.
ShownNext(t) ==
  [t EXCEPT !.sec = IF t.sec + 1 >= Minute THEN 0 ELSE @ + 1,
            !.min = IF t.sec + 1 >= Minute
                    THEN IF t.min + 1 >= Hour THEN 0 ELSE @ + 1 ELSE @,
            !.hour = IF t.sec + 1 >= Minute /\ t.min + 1 >= Hour THEN (@ + 1) % Day ELSE @]

\* It is the next second, or, after the last one of the day, its first.
LEMMA ShownNextCounts ==
  ASSUME NEW t, IsTime(t)
  PROVE  ShownOn(t, ShownNext(t))
<1>1. /\ t.sec \in 0 .. Minute - 1 /\ t.min \in 0 .. Hour - 1 /\ t.hour \in 0 .. Day - 1
      /\ Minute \in Nat \ {0} /\ Hour \in Nat \ {0} /\ Day \in Nat \ {0}
      /\ Sync \in Nat \ {0} /\ Hour % Sync = 0
  BY ClockConstants, ClockAssumption DEF IsTime
<1>2. \A u : /\ u \in [sec : 0 .. Minute - 1, min : 0 .. Hour - 1, hour : 0 .. Day - 1,
                       day : 1 .. 31, month : 1 .. 12, year : Nat]
             /\ u.day = t.day /\ u.month = t.month /\ u.year = t.year
             => IsTime(u) /\ DaysTo(u) = DaysTo(t)
  BY DEF IsTime, DaysTo
<1>3. OfDay(t) \in Int /\ DayLength \in Int
  BY CountsDays, ClockConstants
<1>4. CASE t.sec + 1 < Minute
  <2> DEFINE u == [t EXCEPT !.sec = @ + 1]
  <2>1. ShownNext(t) = u
    <3>1. ~ (t.sec + 1 >= Minute)
      BY <1>1, <1>4
    <3>2. ShownNext(t) = [t EXCEPT !.sec = @ + 1, !.min = @, !.hour = @]
      BY <3>1 DEF ShownNext
    <3>3. QED BY <3>2 DEF IsTime
  <2>2. t.sec + 1 \in 0 .. Minute - 1
    BY <1>1, <1>4
  <2>3. u \in [sec : 0 .. Minute - 1, min : 0 .. Hour - 1, hour : 0 .. Day - 1,
               day : 1 .. 31, month : 1 .. 12, year : Nat]
        /\ u.day = t.day /\ u.month = t.month /\ u.year = t.year
        /\ u.sec = t.sec + 1 /\ u.min = t.min
    BY <2>2 DEF IsTime
  <2>4. OfDay(u) = OfDay(t) + 1
    BY SecondOn, <1>4
  <2> HIDE DEF u
  <2>5. IsTime(u) /\ DaysTo(u) = DaysTo(t)
    BY <2>3, <1>2
  <2>6. QED BY <2>1, <2>3, <2>4, <2>5, <1>4 DEF ShownOn
<1>5. CASE t.sec + 1 = Minute /\ t.min + 1 < Hour
  <2> DEFINE u == [t EXCEPT !.sec = 0, !.min = @ + 1]
  <2>1. ShownNext(t) = u
    <3>1. t.sec + 1 >= Minute /\ ~ (t.min + 1 >= Hour)
      BY <1>1, <1>5
    <3>2. ShownNext(t) = [t EXCEPT !.sec = 0, !.min = @ + 1, !.hour = @]
      BY <3>1 DEF ShownNext
    <3>3. QED BY <3>2 DEF IsTime
  <2>2. 0 \in 0 .. Minute - 1 /\ t.min + 1 \in 0 .. Hour - 1
    BY <1>1, <1>5
  <2>3. u \in [sec : 0 .. Minute - 1, min : 0 .. Hour - 1, hour : 0 .. Day - 1,
               day : 1 .. 31, month : 1 .. 12, year : Nat]
        /\ u.day = t.day /\ u.month = t.month /\ u.year = t.year
        /\ u.sec = 0 /\ u.min = t.min + 1
    BY <2>2 DEF IsTime
  <2>4. OfDay(u) = OfDay(t) + 1
    BY SecondOn, <1>5
  <2> HIDE DEF u
  <2>5. IsTime(u) /\ DaysTo(u) = DaysTo(t)
    BY <2>3, <1>2
  <2>6. QED BY <2>1, <2>3, <2>4, <2>5, <1>5 DEF ShownOn
<1>6. CASE t.sec + 1 = Minute /\ t.min + 1 = Hour
  <2>1. t.sec + 1 >= Minute /\ t.min + 1 >= Hour
    BY <1>1, <1>6
  <2>2. ShownNext(t) = [t EXCEPT !.sec = 0, !.min = 0, !.hour = (@ + 1) % Day]
    BY <2>1 DEF ShownNext
  <2>3. (t.min + 1) % Sync = 0 /\ 0 % Sync = 0
    BY <1>1, <1>6
  <2>4. 0 \in 0 .. Minute - 1 /\ 0 \in 0 .. Hour - 1 /\ (t.hour + 1) % Day \in 0 .. Day - 1
    BY <1>1
  <2> DEFINE u == [t EXCEPT !.sec = 0, !.min = 0, !.hour = (@ + 1) % Day]
  <2>5. u \in [sec : 0 .. Minute - 1, min : 0 .. Hour - 1, hour : 0 .. Day - 1,
               day : 1 .. 31, month : 1 .. 12, year : Nat]
        /\ u.day = t.day /\ u.month = t.month /\ u.year = t.year
        /\ u.sec = 0 /\ u.min = 0 /\ u.hour = (t.hour + 1) % Day
    BY <2>4 DEF IsTime
  <2>6. \/ OfDay(u) = OfDay(t) + 1
        \/ OfDay(u) = 0 /\ OfDay(t) = DayLength - 1 /\ u.hour = 0
    <3>1. CASE t.hour + 1 < Day
      <4>1. (t.hour + 1) % Day = t.hour + 1
        BY <1>1, <3>1
      <4>2. u = [t EXCEPT !.sec = 0, !.min = 0, !.hour = @ + 1]
        BY <4>1
      <4>3. OfDay([t EXCEPT !.sec = 0, !.min = 0, !.hour = @ + 1]) = OfDay(t) + 1
        BY SecondOn, <1>6
      <4> HIDE DEF u
      <4>4. QED BY <4>2, <4>3
    <3>2. CASE t.hour + 1 = Day
      <4>1. (t.hour + 1) % Day = 0
        BY <1>1, <3>2
      <4>2. u = [t EXCEPT !.sec = 0, !.min = 0, !.hour = 0]
        BY <4>1
      <4>3. OfDay([t EXCEPT !.sec = 0, !.min = 0, !.hour = 0]) = 0 /\ OfDay(t) = DayLength - 1
        BY SecondOn, <1>6, <3>2
      <4>4. u.hour = 0
        BY <4>1, <2>5
      <4> HIDE DEF u
      <4>5. QED BY <4>2, <4>3, <4>4
    <3>3. QED BY <3>1, <3>2, <1>1
  <2> HIDE DEF u
  <2>7. IsTime(u) /\ DaysTo(u) = DaysTo(t)
    BY <2>5, <1>2
  <2>8. u.min % Sync = (t.min + 1) % Sync
    BY <2>3, <2>5
  <2>9. ShownNext(t) = u
    BY <2>2 DEF u
  <2>10. QED BY <2>5, <2>6, <2>7, <2>8, <2>9, <1>6 DEF ShownOn
<1>7. QED BY <1>1, <1>4, <1>5, <1>6

\* A tick is counted: alone, or as the last one of a second, which is shown.
LEMMA TickCounts ==
  ASSUME NEW t, IsTime(t), ms \in 0 .. Parts - 1, adj \in 0 .. context_switch_rate \div Parts,
         time_incrementtime(t)
  PROVE  /\ ms' \in 0 .. Parts - 1 /\ adj' \in 0 .. context_switch_rate \div Parts
         /\ \/ /\ time_systime' = t
               /\ Shown(ms', adj') = Shown(ms, adj) + 1
            \/ /\ ShownOn(t, time_systime')
               /\ Shown(ms, adj) = TicksShown - 1 /\ Shown(ms', adj') = 0
<1>1. PICK q \in Nat : q = context_switch_rate \div Parts
  BY ShownIsLonger
<1>2. PICK P \in Nat \ {0} : P = Parts
  BY ClockConstants
<1>3. PICK m \in 0 .. P - 1 : m = ms
  BY <1>2
<1>4. PICK a \in 0 .. q : a = adj
  BY <1>1
<1>5. Shown(0, 0) = 0
  BY <1>1 DEF Shown
<1>6. CASE a < q
  <2>1. ~ (adj + 1 > context_switch_rate \div Parts)
    BY <1>1, <1>4, <1>6
  <2>2. adj' = a + 1 /\ ms' = m
    BY <2>1, <1>3, <1>4 DEF time_incrementtime
  <2>3. time_systime' = [t EXCEPT !.sec = @, !.min = @, !.hour = @]
    BY <2>1 DEF time_incrementtime
  <2>4. time_systime' = t
    BY <2>3 DEF IsTime
  <2>5. Shown(m, a + 1) = Shown(m, a) + 1
    BY <1>1, <1>2, <1>6, TicksAreCounted
  <2>6. QED BY <2>2, <2>4, <2>5, <1>1, <1>2, <1>3, <1>4, <1>6
<1>7. CASE a = q /\ m < P - 1
  <2>1. adj + 1 > context_switch_rate \div Parts /\ ~ (ms + 1 >= Parts)
    BY <1>1, <1>2, <1>3, <1>4, <1>7
  <2>2. adj' = 0 /\ ms' = m + 1
    BY <2>1, <1>3, <1>4 DEF time_incrementtime
  <2>3. time_systime' = [t EXCEPT !.sec = @, !.min = @, !.hour = @]
    BY <2>1 DEF time_incrementtime
  <2>4. time_systime' = t
    BY <2>3 DEF IsTime
  <2>5. Shown(m + 1, 0) = Shown(m, a) + 1
    BY <1>1, <1>2, <1>7, TicksAreCounted
  <2>6. QED BY <2>2, <2>4, <2>5, <1>1, <1>2, <1>3, <1>4, <1>7
<1>8. CASE a = q /\ m = P - 1
  <2>1. adj + 1 > context_switch_rate \div Parts /\ ms + 1 >= Parts
    BY <1>1, <1>2, <1>3, <1>4, <1>8
  <2>2. adj' = 0 /\ ms' = 0
    BY <2>1 DEF time_incrementtime
  <2>3. time_systime' = ShownNext(t)
    <3>1. CASE t.sec + 1 >= Minute /\ t.min + 1 >= Hour
      BY <3>1, <2>1 DEF time_incrementtime, ShownNext
    <3>2. CASE t.sec + 1 >= Minute /\ ~ (t.min + 1 >= Hour)
      BY <3>2, <2>1 DEF time_incrementtime, ShownNext
    <3>3. CASE ~ (t.sec + 1 >= Minute)
      BY <3>3, <2>1 DEF time_incrementtime, ShownNext
    <3>4. QED BY <3>1, <3>2, <3>3
  <2>4. ShownOn(t, time_systime')
    BY <2>3, ShownNextCounts
  <2>5. Shown(m, a) = TicksShown - 1
    BY <1>1, <1>2, <1>8, TicksAreCounted
  <2>6. QED BY <2>2, <2>4, <2>5, <1>1, <1>2, <1>3, <1>4, <1>5
<1>9. QED BY <1>6, <1>7, <1>8

\* Ticks by which the clock shown is behind: b seconds, x ticks before the next second
\* of the chip, g ticks after the last one that is shown.
Behind(b, x, g) == context_switch_rate * b + (context_switch_rate - x) - g

\* How far into the chip's second a full second of the handler ends: a ticks ago.  It
\* never changes.
Phase(x, a) ==
  IF context_switch_rate - x - a >= 1 THEN context_switch_rate - x - a
  ELSE 2 * context_switch_rate - x - a

\* Ticks lost with each second shown.
LostEach == TicksShown - context_switch_rate

\* How the clock shown follows the chip, in the z-th minute after one that is divided
\* by Sync and in its second s.  Out of these minutes each second shown loses the same;
\* in one of them the clock was set when the last full second ended, and has since shown
\* none or one, or it is not set yet, as no full second has ended since it began.
Follows(b, x, g, a, z, s) ==
  /\ Behind(b, x, g) >= 1 - context_switch_rate \/ Behind(b, x, g) + g >= 1
  /\ z # 0 => Behind(b, x, g) <= Phase(x, a) + LostEach * ((z - 1) * Minute + s)
  /\ z = 0 => \/ g >= a /\ Behind(b, x, g) <= Phase(x, a) + a - g
              \/ g <= a /\ Behind(b, x, g) <= Phase(x, a) + a - g - context_switch_rate
              \/ g <= a /\ s = 0 /\ Behind(b, x, g) <= Phase(x, a) + TicksLost

\* The numbers that Follows speaks of.
Numbers(b, x, g, a, z, s) ==
  /\ b \in Int /\ x \in 0 .. context_switch_rate /\ g \in 0 .. TicksShown - 1
  /\ a \in 0 .. context_switch_rate - 1 /\ z \in 0 .. Sync - 1 /\ s \in 0 .. Minute - 1

\* What is lost in all is a natural number, as is what is lost each second.
LEMMA LossIsNat == LostEach \in Nat \ {0} /\ TicksLost \in Nat
<1>1. LostEach \in Nat \ {0}
  BY ShownIsLonger, ClockConstants DEF LostEach
<1>2. (Sync - 1) * Minute \in Nat
  BY ClockConstants
<1>3. LostEach * ((Sync - 1) * Minute) \in Nat
  BY <1>1, <1>2
<1>4. QED BY <1>1, <1>3 DEF TicksLost, LostEach

\* Seconds shown out of the minutes in which it is set are less than all of them.
LEMMA LossSoFar ==
  ASSUME NEW z \in 1 .. Sync - 1, NEW s \in 0 .. Minute - 1
  PROVE  /\ LostEach * ((z - 1) * Minute + s) \in Nat
         /\ LostEach * ((z - 1) * Minute + s) + LostEach <= TicksLost
<1>1. PICK K \in Nat : K = LostEach
  BY LossIsNat
<1>2. PICK S \in Nat \ {0} : S = Sync
  BY ClockConstants
<1>3. PICK M \in Nat \ {0} : M = Minute
  BY ClockConstants
<1>4. z - 1 \in Nat /\ z - 1 <= S - 2 /\ S - 2 \in Nat /\ s \in Nat /\ s + 1 <= M
  BY <1>2, <1>3
<1>5. (z - 1) * M \in Nat /\ (z - 1) * M <= (S - 2) * M
  BY <1>4
<1>6. (S - 2) * M = (S - 1) * M - M
  BY <1>4
<1>7. PICK n \in Nat : n = (z - 1) * M + s
  BY <1>4, <1>5
<1>8. PICK N \in Nat : N = (S - 1) * M
  BY <1>4
<1>9. n + 1 <= N
  BY <1>4, <1>5, <1>6, <1>7, <1>8
<1>10. K * n \in Nat /\ K * (n + 1) = K * n + K /\ K * (n + 1) <= K * N
  BY <1>9
<1>11. K * N = TicksLost
  BY <1>1, <1>2, <1>3, <1>8 DEF TicksLost, LostEach
<1>12. QED BY <1>1, <1>3, <1>7, <1>10, <1>11

\* The phase lies in a second of the chip.
LEMMA PhaseIsBounded ==
  ASSUME NEW x \in 0 .. context_switch_rate, NEW a \in 0 .. context_switch_rate - 1
  PROVE  Phase(x, a) \in 1 .. context_switch_rate
BY ClockConstants DEF Phase

\* So the clock is a second ahead or MaxLag seconds behind at most.
LEMMA FollowsIsSound ==
  ASSUME NEW b, NEW x, NEW g, NEW a, NEW z, NEW s,
         Numbers(b, x, g, a, z, s), Follows(b, x, g, a, z, s)
  PROVE  b \in -1 .. MaxLag
<1>1. PICK R \in Nat \ {0} : R = context_switch_rate
  BY ClockConstants
<1>2. PICK T \in Nat : T = TicksShown /\ T > R
  BY <1>1, ShownIsLonger
<1>3. PICK X \in Nat : X = TicksLost
  BY LossIsNat
<1>4. PICK f \in 1 .. R : f = Phase(x, a)
  BY <1>1, PhaseIsBounded DEF Numbers
<1>5. /\ b \in Int /\ x \in 0 .. R /\ g \in 0 .. T - 1 /\ a \in 0 .. R - 1
      /\ z \in 0 .. Sync - 1 /\ s \in 0 .. Minute - 1
  BY <1>1, <1>2 DEF Numbers
<1>6. PICK w \in Int : w = R * b
  BY <1>5
<1>7. Behind(b, x, g) = w + (R - x) - g
  BY <1>1, <1>6 DEF Behind
<1>8. f = R - x - a \/ f = 2 * R - x - a
  BY <1>1, <1>4 DEF Phase
<1>9. w > 0 - 2 * R
  BY <1>5, <1>7, <1>1 DEF Follows
<1>10. w <= X + 2 * R - 1
  <2>1. CASE z # 0
    <3>0. z \in 1 .. Sync - 1
      BY <2>1, <1>5, ClockConstants
    <3>1. PICK n \in Nat : n = LostEach * ((z - 1) * Minute + s)
      BY <3>0, <1>5, LossSoFar
    <3>2. n + (T - R) <= X
      <4>1. LostEach * ((z - 1) * Minute + s) + LostEach <= TicksLost
        BY <3>0, <1>5, LossSoFar
      <4>2. QED BY <4>1, <3>1, <1>1, <1>2, <1>3 DEF LostEach
    <3>3. w + (R - x) - g <= f + n
      BY <2>1, <3>1, <1>4, <1>7 DEF Follows
    <3>4. QED BY <3>2, <3>3, <1>2, <1>4, <1>5
  <2>2. CASE z = 0
    <3>1. \/ g >= a /\ w + (R - x) - g <= f + a - g
          \/ g <= a /\ w + (R - x) - g <= f + a - g - R
          \/ g <= a /\ w + (R - x) - g <= f + X
      BY <2>2, <1>1, <1>3, <1>4, <1>7 DEF Follows
    <3>2. QED BY <3>1, <1>4, <1>5, <1>8
  <2>3. QED BY <2>1, <2>2
<1>11. b >= -1
  <2>1. SUFFICES ASSUME b <= -2 PROVE FALSE
    BY <1>5
  <2>2. R * b <= R * (-2)
    BY <2>1, <1>5
  <2>3. R * (-2) = 0 - 2 * R
    OBVIOUS
  <2>4. QED BY <2>2, <2>3, <1>6, <1>9
<1>12. PICK v \in Nat : v = (X + R - 1) \div R
  OBVIOUS
<1>13. X + R - 1 < R * v + R
  <2>1. X + R - 1 \in Nat
    OBVIOUS
  <2>2. X + R - 1 = R * v + ((X + R - 1) % R) /\ (X + R - 1) % R \in 0 .. R - 1
    BY <2>1, <1>12
  <2>3. R * v \in Nat
    OBVIOUS
  <2>4. QED BY <2>2, <2>3
<1>14. b <= v + 1
  <2>1. SUFFICES ASSUME b >= v + 2 PROVE FALSE
    BY <1>5
  <2>2. R * b >= R * (v + 2)
    BY <2>1, <1>5
  <2>3. R * (v + 2) = R * v + 2 * R
    OBVIOUS
  <2>4. PICK u \in Nat : u = R * v
    OBVIOUS
  <2>5. QED BY <2>2, <2>3, <2>4, <1>6, <1>10, <1>13
<1>15. MaxLag = v + 1
  BY <1>1, <1>3, <1>12 DEF MaxLag
<1>16. QED BY <1>5, <1>11, <1>14, <1>15

\* It does when the clock is set.
LEMMA SetFollows ==
  ASSUME NEW x \in 1 .. context_switch_rate, NEW g \in 0 .. TicksShown - 1,
         NEW z \in 0 .. Sync - 1, NEW s \in 0 .. Minute - 1
  PROVE  /\ Follows(0, x - 1, g, 0, z, s)
         /\ Follows(-1, x - 1, 0, 0, z, s)
<1>1. PICK R \in Nat \ {0} : R = context_switch_rate
  BY ClockConstants
<1>2. Phase(x - 1, 0) = R - (x - 1)
  BY <1>1 DEF Phase
<1>3. z # 0 => LostEach * ((z - 1) * Minute + s) \in Nat
  <2>1. z # 0 => z \in 1 .. Sync - 1
    BY ClockConstants
  <2>2. QED BY <2>1, LossSoFar
<1>4. Behind(0, x - 1, g) = (R - (x - 1)) - g /\ Behind(-1, x - 1, 0) = 0 - R + (R - (x - 1))
  <2>1. R * 0 = 0 /\ R * (-1) = 0 - R
    OBVIOUS
  <2>2. QED BY <2>1, <1>1, ShownIsLonger DEF Behind
<1>5. g \in Nat
  BY ShownIsLonger
<1>6. z # 0 => /\ (R - (x - 1)) - g <= R - (x - 1) + LostEach * ((z - 1) * Minute + s)
               /\ 0 - R + (R - (x - 1)) <= R - (x - 1) + LostEach * ((z - 1) * Minute + s)
  BY <1>1, <1>3, <1>5
<1>7. QED BY <1>1, <1>2, <1>4, <1>5, <1>6 DEF Follows

\* And at the startup, in the midst of a second of the chip.
LEMMA StartFollows ==
  ASSUME NEW x \in 0 .. context_switch_rate - 1,
         NEW z \in 0 .. Sync - 1, NEW s \in 0 .. Minute - 1
  PROVE  Follows(0, x, 0, 0, z, s)
<1>1. x + 1 \in 1 .. context_switch_rate /\ (x + 1) - 1 = x
  BY ClockConstants
<1>2. 0 \in 0 .. TicksShown - 1
  BY ShownIsLonger, ClockConstants
<1>3. Follows(0, (x + 1) - 1, 0, 0, z, s)
  BY <1>1, <1>2, SetFollows
<1>4. QED BY <1>1, <1>3

\* A second of the chip changes neither the lag in ticks nor the phase.
LEMMA ChipKeepsFollowing ==
  ASSUME NEW b, NEW g, NEW a, NEW z, NEW s,
         Numbers(b, 0, g, a, z, s), Follows(b, 0, g, a, z, s)
  PROVE  Follows(b + 1, context_switch_rate, g, a, z, s)
<1>1. PICK R \in Nat \ {0} : R = context_switch_rate
  BY ClockConstants
<1>2. Phase(R, a) = Phase(0, a)
  BY <1>1 DEF Phase, Numbers
<1>3. Behind(b + 1, R, g) = Behind(b, 0, g)
  <2>1. b \in Int /\ g \in Int
    BY ShownIsLonger DEF Numbers
  <2>2. R * (b + 1) = R * b + R /\ R * b \in Int
    BY <2>1
  <2>3. QED BY <2>1, <2>2, <1>1 DEF Behind
<1>4. QED BY <1>1, <1>2, <1>3 DEF Follows

\* A tick leaves the phase alone; after the last one a full second begins anew.
LEMMA PhaseStays ==
  ASSUME NEW x \in 1 .. context_switch_rate, NEW a \in 0 .. context_switch_rate - 1
  PROVE  Phase(x - 1, IF a + 1 >= context_switch_rate THEN 0 ELSE a + 1) = Phase(x, a)
BY ClockConstants DEF Phase

\* A tick that shows no second, and does not set the clock.
LEMMA TickKeepsFollowing ==
  ASSUME NEW b, NEW x, NEW g, NEW a, NEW z, NEW s,
         Numbers(b, x, g, a, z, s), Follows(b, x, g, a, z, s), x > 0,
         a + 1 >= context_switch_rate => z # 0
  PROVE  Follows(b, x - 1, g + 1, IF a + 1 >= context_switch_rate THEN 0 ELSE a + 1, z, s)
<1>1. PICK R \in Nat \ {0} : R = context_switch_rate
  BY ClockConstants
<1>2. /\ b \in Int /\ x \in 1 .. R /\ g \in Nat /\ a \in 0 .. R - 1
  BY <1>1, ShownIsLonger DEF Numbers
<1>3. PICK f \in 1 .. R : f = Phase(x, a)
  BY <1>1, PhaseIsBounded DEF Numbers
<1>4. PICK c \in 0 .. R - 1 : c = IF a + 1 >= R THEN 0 ELSE a + 1
  BY <1>2
<1>5. Phase(x - 1, c) = f
  BY <1>1, <1>2, <1>3, <1>4, PhaseStays
<1>6. PICK w \in Int : w = Behind(b, x, g)
  BY <1>1, <1>2 DEF Behind
<1>7. Behind(b, x - 1, g + 1) = w
  <2>1. R * b \in Int
    BY <1>2
  <2>2. QED BY <2>1, <1>1, <1>2, <1>6 DEF Behind
<1>8. w >= 1 - R \/ w + (g + 1) >= 1
  BY <1>1, <1>2, <1>6 DEF Follows
<1>9. z = 0 => c = a + 1
  BY <1>1, <1>4
<1>10. z = 0 => \/ g + 1 >= c /\ w <= f + c - (g + 1)
                \/ g + 1 <= c /\ w <= f + c - (g + 1) - R
                \/ g + 1 <= c /\ s = 0 /\ w <= f + TicksLost
  <2>1. SUFFICES ASSUME z = 0
                 PROVE  \/ g + 1 >= c /\ w <= f + c - (g + 1)
                        \/ g + 1 <= c /\ w <= f + c - (g + 1) - R
                        \/ g + 1 <= c /\ s = 0 /\ w <= f + TicksLost
    OBVIOUS
  <2>2. \/ g >= a /\ w <= f + a - g
        \/ g <= a /\ w <= f + a - g - R
        \/ g <= a /\ s = 0 /\ w <= f + TicksLost
    BY <2>1, <1>1, <1>3, <1>6 DEF Follows
  <2>3. QED BY <2>2, <2>1, <1>2, <1>3, <1>9
<1>11. z # 0 => w <= f + LostEach * ((z - 1) * Minute + s)
  BY <1>3, <1>6 DEF Follows
<1>12. Follows(b, x - 1, g + 1, c, z, s)
  BY <1>1, <1>5, <1>7, <1>8, <1>10, <1>11 DEF Follows
<1>13. QED BY <1>1, <1>4, <1>12

\* A tick that shows one more second, and does not set the clock: in the same minute or
\* in the next one.
LEMMA ShownKeepsFollowing ==
  ASSUME NEW b, NEW x, NEW a, NEW z, NEW s, NEW y, NEW u,
         Numbers(b, x, TicksShown - 1, a, z, s), Follows(b, x, TicksShown - 1, a, z, s), x > 0,
         a + 1 >= context_switch_rate => z # 0,
         \/ s + 1 < Minute /\ u = s + 1 /\ y = z
         \/ s + 1 = Minute /\ u = 0 /\ y = (z + 1) % Sync
  PROVE  Follows(b - 1, x - 1, 0, IF a + 1 >= context_switch_rate THEN 0 ELSE a + 1, y, u)
<1>1. PICK R \in Nat \ {0} : R = context_switch_rate
  BY ClockConstants
<1>2. PICK g \in Nat : g = TicksShown - 1 /\ g >= R
  BY <1>1, ShownIsLonger
<1>3. /\ b \in Int /\ x \in 1 .. R /\ a \in 0 .. R - 1
      /\ z \in 0 .. Sync - 1 /\ s \in 0 .. Minute - 1
  BY <1>1 DEF Numbers
<1>4. PICK f \in 1 .. R : f = Phase(x, a)
  BY <1>1, PhaseIsBounded DEF Numbers
<1>5. PICK c \in 0 .. R - 1 : c = IF a + 1 >= R THEN 0 ELSE a + 1
  BY <1>3
<1>6. Phase(x - 1, c) = f
  BY <1>1, <1>3, <1>4, <1>5, PhaseStays
<1>7. PICK w \in Int : w = Behind(b, x, g)
  BY <1>1, <1>3 DEF Behind
<1>8. PICK K \in Nat : K = LostEach /\ K = g + 1 - R
  BY LossIsNat, <1>1, <1>2, ShownIsLonger DEF LostEach
<1>9. Behind(b - 1, x - 1, 0) = w + K
  <2>1. R * b \in Int /\ R * (b - 1) = R * b - R
    BY <1>3
  <2>2. QED BY <2>1, <1>1, <1>3, <1>7, <1>8 DEF Behind
<1>10. w + K >= 1 - R
  <2>1. w >= 1 - R \/ w + g >= 1
    BY <1>1, <1>2, <1>7 DEF Follows
  <2>2. QED BY <2>1, <1>8
<1>11. CASE z = 0
  <2>1. c = a + 1
    BY <1>1, <1>5, <1>11
  <2>2. w <= f + a - g
    <3>1. \/ g >= a /\ w <= f + a - g
          \/ g <= a /\ w <= f + a - g - R
          \/ g <= a /\ s = 0 /\ w <= f + TicksLost
      BY <1>11, <1>1, <1>2, <1>4, <1>7 DEF Follows
    <3>2. ~ (g <= a)
      BY <1>2, <1>3
    <3>3. QED BY <3>1, <3>2
  <2>3. w + K <= f + c - 0 - R
    BY <2>1, <2>2, <1>3, <1>8
  <2>4. w + K <= f
    BY <2>3, <1>5
  <2>5. y \in 0 .. Sync - 1 /\ u \in 0 .. Minute - 1
    BY <1>3, ClockConstants
  <2>6. y # 0 => w + K <= f + LostEach * ((y - 1) * Minute + u)
    <3>1. SUFFICES ASSUME y # 0 PROVE w + K <= f + LostEach * ((y - 1) * Minute + u)
      OBVIOUS
    <3>2. y \in 1 .. Sync - 1
      BY <3>1, <2>5, ClockConstants
    <3>3. PICK n \in Nat : n = LostEach * ((y - 1) * Minute + u)
      BY <3>2, <2>5, LossSoFar
    <3>4. QED BY <3>3, <2>4, <1>8
  <2>7. Follows(b - 1, x - 1, 0, c, y, u)
    BY <1>1, <1>5, <1>6, <1>9, <1>10, <2>3, <2>6 DEF Follows
  <2>8. QED BY <2>7, <1>1, <1>5
<1>12. CASE z # 0
  <2>1. PICK n \in Nat : n = (z - 1) * Minute + s
    BY <1>3, <1>12, ClockConstants
  <2>2. PICK l \in Nat : l = K * n
    OBVIOUS
  <2>3. w <= f + l
    BY <1>12, <1>2, <1>4, <1>7, <1>8, <2>1, <2>2 DEF Follows
  <2>4. K * (n + 1) = l + K
    BY <2>2
  <2>5. y # 0 => w + K <= f + LostEach * ((y - 1) * Minute + u)
    <3>1. SUFFICES ASSUME y # 0 PROVE (y - 1) * Minute + u = n + 1
      BY <2>3, <2>4, <1>8
    <3>2. CASE y = z /\ u = s + 1
      BY <3>2, <2>1, <1>3, <1>12, ClockConstants
    <3>3. CASE s + 1 = Minute /\ u = 0 /\ y = (z + 1) % Sync
      <4>1. y = z + 1
        BY <3>1, <3>3, <1>3, ClockConstants
      <4>2. PICK M \in Nat : M = Minute
        BY ClockConstants
      <4>3. z * M = (z - 1) * M + M /\ (z - 1) * M \in Int
        BY <1>3, ClockConstants
      <4>4. QED BY <4>1, <4>2, <4>3, <3>3, <2>1, <1>3, ClockConstants
    <3>4. QED BY <3>2, <3>3
  <2>6. y = 0 => u = 0 /\ w + K <= f + TicksLost
    <3>1. SUFFICES ASSUME y = 0 PROVE u = 0 /\ w + K <= f + TicksLost
      OBVIOUS
    <3>2. u = 0
      BY <3>1, <1>12
    <3>3. l + K <= TicksLost
      <4>1. LostEach * ((z - 1) * Minute + s) + LostEach <= TicksLost
        <5>1. z \in 1 .. Sync - 1
          BY <1>3, <1>12, ClockConstants
        <5>2. QED BY <5>1, <1>3, LossSoFar
      <4>2. QED BY <4>1, <1>8, <2>1, <2>2
    <3>4. QED BY <3>2, <3>3, <2>3, LossIsNat
  <2>7. Follows(b - 1, x - 1, 0, c, y, u)
    BY <1>1, <1>5, <1>6, <1>9, <1>10, <2>5, <2>6 DEF Follows
  <2>8. QED BY <2>7, <1>1, <1>5
<1>13. QED BY <1>11, <1>12

\* What time() counts of the days before 2079.
DaysBy2079 == 40305

\* The chip and the clock shown are in the calendar, the chip between 2000 and 2079: it
\* was started before 2079, and a year is less than what is then left before 2080.
ClockRuns ==
  /\ IsTime(rtc) /\ rtc.year \in 2000 .. 2079 /\ IsTime(time_systime)
  /\ toSecond \in 0 .. context_switch_rate /\ aux_time2 \in 0 .. context_switch_rate - 1
  /\ ms \in 0 .. Parts - 1 /\ adj \in 0 .. context_switch_rate \div Parts
  /\ passed \in 0 .. LastSecond /\ start \in Int /\ start < DaysBy2079 * DayLength
  /\ Uncounted(rtc) = start + passed

\* The clock shown follows the chip, but for the o that it owes since midnight.
Owes(o) ==
  /\ o # 0 => MidnightShown /\ Shown(ms, adj) <= aux_time2
  /\ Follows(Uncounted(rtc) - Uncounted(time_systime) - o, toSecond, Shown(ms, adj),
             aux_time2, time_systime.min % Sync, time_systime.sec)

\* A reading that nothing has spoilt has got the registers it asked for.
ReadSoFar ==
  /\ asked \in 0 .. Len(Registers) /\ bytes \in Seq(Nat)
  /\ Len(bytes) = asked \/ Len(bytes) + 1 = asked
  /\ selected \in {Registers[i] : i \in DOMAIN Registers}
  /\ clockHarm = {} => \A i \in 1 .. Len(bytes) : bytes[i] = Register(rtc, Registers[i])

\* The inductive invariant of the clock.
ClockInv == ClockRuns /\ (\E o \in {0, DayLength} : Owes(o)) /\ ReadSoFar

\* A year further on is the next one at most.
LEMMA YearGoesOn ==
  ASSUME NEW t, IsTime(t)
  PROVE  SecondAfter(t).year \in {t.year, t.year + 1}
<1> DEFINE u == [t EXCEPT !.sec = 0, !.min = 0, !.hour = 0]
<1>1. DayAfter(u).year \in {t.year, t.year + 1}
  BY DEF DayAfter, IsTime
<1> HIDE DEF u
<1>2. CASE SecondAfter(t) = DayAfter(u)
  BY <1>1, <1>2
<1>3. CASE SecondAfter(t) = [t EXCEPT !.sec = @ + 1]
  BY <1>3 DEF IsTime
<1>4. CASE SecondAfter(t) = [t EXCEPT !.sec = 0, !.min = @ + 1]
  BY <1>4 DEF IsTime
<1>5. CASE SecondAfter(t) = [t EXCEPT !.sec = 0, !.min = 0, !.hour = @ + 1]
  BY <1>5 DEF IsTime
<1>6. QED BY <1>2, <1>3, <1>4, <1>5 DEF SecondAfter, u

\* Days to the end of 2078, and to 2080.
LEMMA YearsInDays ==
  ASSUME NEW t, IsTime(t)
  PROVE  /\ t.year <= 2078 => Uncounted(t) < DaysBy2079 * DayLength
         /\ t.year >= 2080 => Uncounted(t) >= (DaysBy2079 + 365) * DayLength
<1>1. PICK y \in Nat : y = t.year
  BY DEF IsTime
<1>2. PICK mo \in 1 .. 12 : mo = t.month
  BY DEF IsTime
<1>3. PICK d \in 1 .. 31 : d = t.day
  BY DEF IsTime
<1>4. PICK b \in 0 .. 334 : b = time_monthdays[mo]
  <2>1. time_monthdays[mo] \in Nat /\ time_monthdays[mo] <= 334
    BY MonthDays
  <2>2. time_monthdays[mo] \in 0 .. 334
    BY <2>1
  <2>3. QED BY <2>2
<1>5. PICK w \in Int : w = DaysTo(t)
  BY CountsDays
<1>6. w = (y - 1970) * 365 + (IF Leap(y) /\ mo <= 2 THEN y \div 4 - 1 ELSE y \div 4) + b + d
  BY <1>1, <1>2, <1>3, <1>4, <1>5 DEF DaysTo
<1>7. y \div 4 \in Int /\ (y <= 2078 => y \div 4 <= 519) /\ (y >= 2080 => y \div 4 >= 520)
  BY <1>1
<1>8. PICK L \in Nat \ {0} : L = DayLength
  BY ClockConstants
<1>9. PICK O \in 0 .. L - 1 : O = OfDay(t)
  BY CountsDays, <1>8
<1>10. Uncounted(t) = w * L + O
  BY CountsDays, <1>5, <1>8, <1>9
<1>11. y <= 2078 => Uncounted(t) < DaysBy2079 * L
  <2>1. SUFFICES ASSUME y <= 2078 PROVE w * L + O < DaysBy2079 * L
    BY <1>10
  <2>2. w <= 40304
    BY <2>1, <1>1, <1>3, <1>4, <1>6, <1>7
  <2>3. w * L <= 40304 * L
    BY <2>2, <1>8
  <2>4. w * L \in Int
    BY <1>8
  <2>5. QED BY <2>3, <2>4, <1>8, <1>9 DEF DaysBy2079
<1>12. y >= 2080 => Uncounted(t) >= (DaysBy2079 + 365) * L
  <2>1. SUFFICES ASSUME y >= 2080 PROVE w * L + O >= (DaysBy2079 + 365) * L
    BY <1>10
  <2>2. w >= 40670
    BY <2>1, <1>1, <1>3, <1>4, <1>6, <1>7
  <2>3. w * L >= 40670 * L
    BY <2>2, <1>8
  <2>4. w * L \in Int
    BY <1>8
  <2>5. QED BY <2>3, <2>4, <1>8, <1>9 DEF DaysBy2079
<1>13. QED BY <1>1, <1>8, <1>11, <1>12

\* The rest of a division is the only one that is small enough.
LEMMA RestIsUnique ==
  ASSUME NEW S \in Nat \ {0}, NEW n \in Nat, NEW w \in 0 .. S - 1
  PROVE  (S * n + w) % S = w
<1>1. PICK p \in Nat : p = S * n + w
  OBVIOUS
<1>2. PICK v \in Nat : v = p \div S
  OBVIOUS
<1>3. PICK r \in 0 .. S - 1 : r = p % S
  OBVIOUS
<1>4. p = S * v + r
  BY <1>2, <1>3
<1>5. CASE v >= n + 1
  <2>1. S * v >= S * (n + 1) /\ S * (n + 1) = S * n + S
    BY <1>5
  <2>2. QED BY <2>1, <1>1, <1>4
<1>6. CASE v + 1 <= n
  <2>1. S * n >= S * (v + 1) /\ S * (v + 1) = S * v + S
    BY <1>6
  <2>2. QED BY <2>1, <1>1, <1>4
<1>7. CASE v = n
  BY <1>1, <1>3, <1>4, <1>7
<1>8. QED BY <1>5, <1>6, <1>7

\* Counting on and taking the rest can be done in either order.
LEMMA NextRest ==
  ASSUME NEW m \in Nat, NEW S \in Nat \ {0}
  PROVE  m % S \in 0 .. S - 1 /\ (m + 1) % S = ((m % S) + 1) % S
<1>1. PICK z \in 0 .. S - 1 : z = m % S
  OBVIOUS
<1>2. PICK n \in Nat : n = m \div S
  OBVIOUS
<1>3. m = S * n + z
  BY <1>1, <1>2
<1>4. CASE z + 1 < S
  <2>1. m + 1 = S * n + (z + 1) /\ z + 1 \in 0 .. S - 1
    BY <1>3, <1>4
  <2>2. (m + 1) % S = z + 1
    BY <2>1, RestIsUnique
  <2>3. (z + 1) % S = z + 1
    BY <2>1
  <2>4. QED BY <2>2, <2>3, <1>1
<1>5. CASE z + 1 = S
  <2>1. m + 1 = S * (n + 1) + 0
    BY <1>3, <1>5
  <2>2. (m + 1) % S = 0
    <3>1. 0 \in 0 .. S - 1 /\ n + 1 \in Nat
      OBVIOUS
    <3>2. (S * (n + 1) + 0) % S = 0
      BY <3>1, RestIsUnique
    <3>3. QED BY <2>1, <3>2
  <2>3. (z + 1) % S = 0
    BY <1>5
  <2>4. QED BY <2>2, <2>3, <1>1
<1>6. QED BY <1>4, <1>5

\* What a register holds is a byte's number.
LEMMA RegisterIsNat ==
  ASSUME NEW t, IsTime(t), NEW r \in {Registers[i] : i \in DOMAIN Registers}
  PROVE  Register(t, r) \in Nat
<1>1. r \in {"sec", "min", "hour", "day", "month", "year"}
  BY DEF Registers
<1>2. \A n \in Nat : Bcd(n) \in Nat
  BY DEF Bcd
<1>3. t.year % 100 \in Nat
  BY DEF IsTime
<1>4. r # "year" => t[r] \in Nat
  BY <1>1, ClockConstants DEF IsTime
<1>5. QED BY <1>2, <1>3, <1>4 DEF Register

\* What the state makes of the numbers.
LEMMA NumbersOfState ==
  ASSUME ClockRuns, NEW o \in {0, DayLength}
  PROVE  Numbers(Uncounted(rtc) - Uncounted(time_systime) - o, toSecond, Shown(ms, adj),
                 aux_time2, time_systime.min % Sync, time_systime.sec)
<1>1. o \in Int
  BY ClockConstants
<1>2. \A t : IsTime(t) => Uncounted(t) \in Int
  BY CountsDays, ClockConstants
<1>3. Uncounted(rtc) \in Int /\ Uncounted(time_systime) \in Int
  BY <1>2 DEF ClockRuns
<1>4. Shown(ms, adj) \in 0 .. TicksShown - 1
  BY TicksAreCounted DEF ClockRuns
<1>5. time_systime.min \in Nat /\ time_systime.sec \in 0 .. Minute - 1
  BY ClockConstants DEF ClockRuns, IsTime
<1>6. time_systime.min % Sync \in 0 .. Sync - 1
  BY <1>5, ClockConstants
<1>7. QED BY <1>1, <1>3, <1>4, <1>5, <1>6 DEF Numbers, ClockRuns

\* The invariant says that the clock is sound.
LEMMA ClockInvIsSound == ClockInv => ClockIsSound
<1> SUFFICES ASSUME ClockInv, clockHarm = {} PROVE ClockIsSound
  BY DEF ClockIsSound
<1>1. PICK o \in {0, DayLength} : Owes(o)
  BY DEF ClockInv
<1>2. PICK b \in Int : b = Uncounted(rtc) - Uncounted(time_systime)
  <2>1. \A t : IsTime(t) => Uncounted(t) \in Int
    BY CountsDays, ClockConstants
  <2>2. QED BY <2>1 DEF ClockInv, ClockRuns
<1>3. b - o \in -1 .. MaxLag
  BY <1>1, <1>2, NumbersOfState, FollowsIsSound DEF Owes, ClockInv
<1>4. \/ b \in -1 .. MaxLag
      \/ MidnightShown /\ b - DayLength \in -1 .. MaxLag
  <2>1. CASE o = 0
    BY <2>1, <1>3
  <2>2. CASE o # 0
    BY <2>2, <1>1, <1>3 DEF Owes
  <2>3. QED BY <2>1, <2>2
<1>5. time_systime.sec < Minute /\ time_systime.min < Hour /\ time_systime.hour < Day
  BY ClockConstants DEF ClockInv, ClockRuns, IsTime
<1>6. Uncounted(rtc) = start + passed
  BY DEF ClockInv, ClockRuns
<1>7. Len(bytes) = Len(Registers) =>
        \A i \in DOMAIN bytes : Decoded(Registers[i], bytes[i]) = rtc[Registers[i]]
  <2> SUFFICES ASSUME Len(bytes) = Len(Registers), NEW i \in DOMAIN bytes
               PROVE  Decoded(Registers[i], bytes[i]) = rtc[Registers[i]]
    OBVIOUS
  <2>1. i \in 1 .. Len(bytes) /\ i \in DOMAIN Registers
    BY DEF ClockInv, ReadSoFar, Registers
  <2>2. bytes[i] = Register(rtc, Registers[i])
    BY <2>1 DEF ClockInv, ReadSoFar
  <2>3. QED BY <2>1, <2>2, RegisterReadsBack DEF ClockInv, ClockRuns
<1>8. QED BY <1>2, <1>4, <1>5, <1>6, <1>7 DEF ClockIsSound

\* At the startup the clock shows the chip's time.
LEMMA ClockInvStarts == ClockInit => ClockInv
<1> SUFFICES ASSUME ClockInit PROVE ClockInv
  OBVIOUS
<1>1. PICK d \in FirstDates, m \in 0 .. Hour - 1 :
        rtc = [sec |-> 0, min |-> m, hour |-> Day - 1, day |-> d[3], month |-> d[2],
               year |-> d[1]]
  BY DEF ClockInit
<1>2. d[1] \in 2000 .. 2078 /\ d[2] \in 1 .. 12 /\ d[3] \in 1 .. MonthLength(d[1], d[2])
  BY ClockAssumption
<1>3. MonthLength(d[1], d[2]) \in 28 .. 31
  BY <1>2, MonthLengths
<1>4. IsTime(rtc)
  <2>1. d[3] \in 1 .. 31 /\ d[3] <= MonthLength(d[1], d[2]) /\ d[1] \in Nat
    BY <1>2, <1>3
  <2>2. 0 \in 0 .. Minute - 1 /\ Day - 1 \in 0 .. Day - 1
    BY ClockConstants
  <2>3. rtc.day = d[3] /\ rtc.month = d[2] /\ rtc.year = d[1]
    BY <1>1
  <2>4. rtc \in [sec : 0 .. Minute - 1, min : 0 .. Hour - 1, hour : 0 .. Day - 1,
                 day : 1 .. 31, month : 1 .. 12, year : Nat]
    BY <1>1, <1>2, <2>1, <2>2
  <2>5. QED BY <2>1, <2>3, <2>4 DEF IsTime
<1>5. rtc.year \in 2000 .. 2079 /\ rtc.year <= 2078
  BY <1>1, <1>2
<1>6. time_systime = rtc
  BY <1>4, <1>5, GetsTheTime DEF ClockInit
<1>7. Uncounted(rtc) \in Int /\ Uncounted(rtc) < DaysBy2079 * DayLength
  <2>1. Uncounted(rtc) \in Int
    BY <1>4, CountsDays, ClockConstants
  <2>2. QED BY <2>1, <1>4, <1>5, YearsInDays
<1>8. ClockRuns
  <2>1. 0 \in 0 .. Parts - 1 /\ 0 \in 0 .. context_switch_rate \div Parts
        /\ 0 \in 0 .. context_switch_rate - 1 /\ 0 \in 0 .. LastSecond
        /\ toSecond \in 0 .. context_switch_rate
    BY ClockConstants, ShownIsLonger DEF ClockInit
  <2>2. Uncounted(rtc) = start + passed /\ start = Uncounted(rtc)
    BY <1>7 DEF ClockInit
  <2>3. QED BY <2>1, <2>2, <1>4, <1>5, <1>6, <1>7 DEF ClockInit, ClockRuns
<1>9. Owes(0)
  <2>1. Uncounted(rtc) - Uncounted(time_systime) - 0 = 0
    BY <1>6, <1>7
  <2>2. Shown(0, 0) = 0
    BY ShownIsLonger DEF Shown
  <2>3. toSecond \in 0 .. context_switch_rate - 1
    BY DEF ClockInit
  <2>4. time_systime.min \in Nat /\ time_systime.sec \in 0 .. Minute - 1
    BY <1>4, <1>6, ClockConstants DEF IsTime
  <2>5. time_systime.min % Sync \in 0 .. Sync - 1
    BY <2>4, ClockConstants
  <2>6. Follows(0, toSecond, 0, 0, time_systime.min % Sync, time_systime.sec)
    BY <2>3, <2>4, <2>5, StartFollows
  <2>7. QED BY <2>1, <2>2, <2>6 DEF Owes, ClockInit
<1>10. ReadSoFar
  <2>1. "year" \in {Registers[i] : i \in DOMAIN Registers}
    BY DEF Registers
  <2>2. QED BY <2>1 DEF ReadSoFar, ClockInit, Registers
<1>11. QED BY <1>8, <1>9, <1>10 DEF ClockInv

\* A second of the chip.
LEMMA ChipSecondKeeps == ClockInv /\ ChipSecond => ClockInv'
<1> SUFFICES ASSUME ClockInv, ChipSecond PROVE ClockInv'
  OBVIOUS
<1>a. ClockRuns /\ ReadSoFar
  BY DEF ClockInv
<1>b. /\ toSecond = 0 /\ passed < LastSecond /\ rtc' = SecondAfter(rtc)
      /\ toSecond' = context_switch_rate /\ passed' = passed + 1 /\ start' = start
      /\ clockHarm' = {} => bytes = <<>>
  BY DEF ChipSecond
<1>c. /\ time_systime' = time_systime /\ ms' = ms /\ adj' = adj /\ aux_time2' = aux_time2
      /\ selected' = selected /\ asked' = asked /\ bytes' = bytes
  BY DEF ChipSecond, shownVars, readerVars
<1>1. IsTime(rtc) /\ IsTime(rtc') /\ Uncounted(rtc') = Uncounted(rtc) + 1
  BY <1>a, <1>b, SecondAfterCounts DEF ClockRuns
<1>2. Uncounted(rtc) \in Int /\ Uncounted(time_systime) \in Int
  <2>1. \A t : IsTime(t) => Uncounted(t) \in Int
    BY CountsDays, ClockConstants
  <2>2. QED BY <2>1 DEF ClockInv, ClockRuns
<1>3. passed' = passed + 1 /\ passed' \in 0 .. LastSecond
  BY <1>a, <1>b, ClockConstants DEF ClockRuns
<1>4. Uncounted(rtc') = start + passed'
  BY <1>1, <1>3, ClockConstants DEF ClockInv, ClockRuns
<1>5. rtc'.year \in 2000 .. 2079
  <2>1. PICK y \in 2000 .. 2079 : y = rtc.year
    BY DEF ClockInv, ClockRuns
  <2>2. rtc'.year \in {y, y + 1}
    BY <2>1, <1>1, <1>b, YearGoesOn
  <2>3. Uncounted(rtc') < (DaysBy2079 + 365) * DayLength
    <3>1. PICK L \in Nat : L = DayLength
      BY ClockConstants
    <3>2. passed' <= 365 * L /\ passed' \in Int
      BY <1>3, <3>1, ClockConstants
    <3>3. start \in Int /\ start < DaysBy2079 * L
      BY <3>1 DEF ClockInv, ClockRuns
    <3>4. (DaysBy2079 + 365) * L = DaysBy2079 * L + 365 * L
      BY DEF DaysBy2079
    <3>5. DaysBy2079 * L \in Int
      BY DEF DaysBy2079
    <3>6. QED BY <3>1, <3>2, <3>3, <3>4, <3>5, <1>4
  <2>4. ~ (rtc'.year >= 2080)
    <3>1. PICK u \in Int : u = Uncounted(rtc')
      BY <1>1, <1>2
    <3>2. PICK v \in Int : v = (DaysBy2079 + 365) * DayLength
      BY ClockConstants DEF DaysBy2079
    <3>3. rtc'.year >= 2080 => u >= v
      BY <1>1, <3>1, <3>2, YearsInDays
    <3>4. u < v
      BY <2>3, <3>1, <3>2
    <3>5. QED BY <3>3, <3>4
  <2>5. QED BY <2>1, <2>2, <2>4
<1>6. ClockRuns'
  <2>1. context_switch_rate \in 0 .. context_switch_rate
    BY ClockConstants
  <2>2. QED BY <2>1, <1>1, <1>3, <1>4, <1>5, <1>a, <1>b, <1>c DEF ClockRuns
<1>7. PICK o \in {0, DayLength} : Owes(o)
  BY DEF ClockInv
<1>8. Owes(o)'
  <2>1. PICK b \in Int : b = Uncounted(rtc) - Uncounted(time_systime) - o
    BY <1>2, ClockConstants
  <2>2. Uncounted(rtc') - Uncounted(time_systime) - o = b + 1
    BY <2>1, <1>1, <1>2, ClockConstants
  <2>3. Follows(b, 0, Shown(ms, adj), aux_time2, time_systime.min % Sync, time_systime.sec)
        /\ Numbers(b, 0, Shown(ms, adj), aux_time2, time_systime.min % Sync, time_systime.sec)
    BY <2>1, <1>7, NumbersOfState DEF Owes, ChipSecond, ClockInv
  <2>4. Follows(b + 1, context_switch_rate, Shown(ms, adj), aux_time2, time_systime.min % Sync,
                time_systime.sec)
    BY <2>3, ChipKeepsFollowing
  <2>5. QED BY <2>2, <2>4, <1>7, <1>b, <1>c DEF Owes, MidnightShown
<1>9. ReadSoFar'
  BY <1>a, <1>b, <1>c DEF ReadSoFar
<1>10. QED BY <1>6, <1>7, <1>8, <1>9 DEF ClockInv

\* A tick that sets the clock: after it the clock shows the time of the chip, or the second
\* after.
LEMMA SettingKeeps ==
  ASSUME ClockInv, time_handler, aux_time2 + 1 >= context_switch_rate,
         time_systime.min % Sync = 0, ClockRuns'
  PROVE  \E o \in {0, DayLength} : Owes(o)'
<1>a. ClockRuns
  BY DEF ClockInv
<1>b. /\ toSecond > 0 /\ toSecond' = toSecond - 1 /\ rtc' = rtc
      /\ aux_time2' = IF aux_time2 + 1 >= context_switch_rate THEN 0 ELSE aux_time2 + 1
  BY DEF time_handler
<1>1. IsTime(rtc) /\ rtc' = rtc /\ getdatetime(rtc) = rtc
  BY <1>a, <1>b, GetsTheTime DEF ClockRuns
<1>2. toSecond \in 1 .. context_switch_rate /\ toSecond' = toSecond - 1 /\ aux_time2' = 0
  BY <1>a, <1>b, ClockConstants DEF ClockRuns
<1>3. time_incrementtime(rtc)
  BY <1>1 DEF time_handler
<1>4. \/ time_systime' = rtc
      \/ ShownOn(rtc, time_systime') /\ Shown(ms', adj') = 0
  BY <1>1, <1>3, TickCounts DEF ClockInv, ClockRuns
<1>5. Shown(ms', adj') \in 0 .. TicksShown - 1
  BY TicksAreCounted DEF ClockRuns
<1>6. PICK r \in Int : r = Uncounted(rtc)
  BY <1>1, CountsDays, ClockConstants
<1>7. PICK z \in 0 .. Sync - 1 : z = time_systime'.min % Sync
  BY ClockConstants DEF ClockRuns, IsTime
<1>8. PICK s \in 0 .. Minute - 1 : s = time_systime'.sec
  BY DEF ClockRuns, IsTime
<1>9. PICK L \in Nat \ {0} : L = DayLength
  BY ClockConstants
<1>10. CASE time_systime' = rtc
  <2>1. Uncounted(rtc') - Uncounted(time_systime') - 0 = 0
    BY <1>1, <1>6, <1>10
  <2>2. Follows(0, toSecond - 1, Shown(ms', adj'), 0, z, s)
    BY <1>2, <1>5, SetFollows
  <2>3. Owes(0)'
    BY <2>1, <2>2, <1>2, <1>7, <1>8 DEF Owes
  <2>4. QED BY <2>3
<1>11. CASE ShownOn(rtc, time_systime') /\ Shown(ms', adj') = 0
  <2>1. 0 \in 0 .. TicksShown - 1
    BY <1>5, <1>11
  <2>2. Follows(-1, toSecond - 1, 0, 0, z, s)
    BY <1>2, <2>1, SetFollows
  <2>3. PICK D \in Int : D = DaysTo(rtc)
    BY <1>1, CountsDays
  <2>4. PICK u \in Int : u = OfDay(time_systime')
    BY <1>11, CountsDays, ClockConstants DEF ShownOn
  <2>5. PICK v \in Int : v = OfDay(rtc)
    BY <1>1, CountsDays, ClockConstants
  <2>6. PICK w \in Int : w = D * L
    OBVIOUS
  <2>7. Uncounted(time_systime') = w + u /\ Uncounted(rtc) = w + v
    BY <1>1, <1>9, <1>11, <2>3, <2>4, <2>5, <2>6, CountsDays DEF ShownOn
  <2>8. CASE u = v + 1
    <3>1. Uncounted(rtc') - Uncounted(time_systime') - 0 = -1
      BY <2>7, <2>8, <1>1
    <3>2. Owes(0)'
      BY <3>1, <2>2, <1>2, <1>7, <1>8, <1>11 DEF Owes
    <3>3. QED BY <3>2
  <2>9. CASE u = 0 /\ v = L - 1 /\ MidnightShown'
    <3>1. Uncounted(rtc') - Uncounted(time_systime') - L = -1
      BY <2>7, <2>9, <1>1
    <3>2. Owes(L)'
      BY <3>1, <2>2, <2>9, <1>2, <1>7, <1>8, <1>11 DEF Owes
    <3>3. QED BY <3>2, <1>9
  <2>10. QED BY <2>4, <2>5, <2>8, <2>9, <1>9, <1>11 DEF ShownOn, MidnightShown
<1>12. QED BY <1>4, <1>10, <1>11

\* A tick that does not: what the clock owes stays, or it begins to owe a day at midnight.
LEMMA CountingKeeps ==
  ASSUME ClockInv, time_handler, ClockRuns',
         ~ (aux_time2 + 1 >= context_switch_rate /\ time_systime.min % Sync = 0)
  PROVE  \E o \in {0, DayLength} : Owes(o)'
<1>a. ClockRuns
  BY DEF ClockInv
<1>b. /\ toSecond > 0 /\ toSecond' = toSecond - 1 /\ rtc' = rtc
      /\ aux_time2' = IF aux_time2 + 1 >= context_switch_rate THEN 0 ELSE aux_time2 + 1
  BY DEF time_handler
<1>1. IsTime(rtc) /\ rtc' = rtc /\ IsTime(time_systime)
  BY <1>a, <1>b DEF ClockRuns
<1>2. PICK x \in 1 .. context_switch_rate : x = toSecond /\ toSecond' = x - 1
  <2>1. toSecond \in 1 .. context_switch_rate
    BY <1>a, <1>b, ClockConstants DEF ClockRuns
  <2>2. QED BY <2>1, <1>b
<1>3. PICK a \in 0 .. context_switch_rate - 1 : a = aux_time2
  BY DEF ClockInv, ClockRuns
<1>4. PICK c \in 0 .. context_switch_rate - 1 :
        c = aux_time2' /\ c = IF a + 1 >= context_switch_rate THEN 0 ELSE a + 1
  <2>1. aux_time2' \in 0 .. context_switch_rate - 1
    BY DEF ClockRuns
  <2>2. QED BY <2>1, <1>3, <1>b
<1>5. time_incrementtime(time_systime)
  BY DEF time_handler
<1>6. PICK g \in 0 .. TicksShown - 1 : g = Shown(ms, adj)
  BY TicksAreCounted DEF ClockInv, ClockRuns
<1>7. PICK h \in 0 .. TicksShown - 1 : h = Shown(ms', adj')
  BY TicksAreCounted DEF ClockRuns
<1>8. \/ time_systime' = time_systime /\ h = g + 1
      \/ ShownOn(time_systime, time_systime') /\ g = TicksShown - 1 /\ h = 0
  BY <1>1, <1>5, <1>6, <1>7, TickCounts DEF ClockInv, ClockRuns
<1>9. PICK z \in 0 .. Sync - 1 : z = time_systime.min % Sync
  BY <1>1, ClockConstants DEF IsTime
<1>10. PICK s \in 0 .. Minute - 1 : s = time_systime.sec
  BY <1>1 DEF IsTime
<1>11. PICK o \in {0, DayLength} : Owes(o)
  BY DEF ClockInv
<1>12. PICK r \in Int : r = Uncounted(rtc)
  BY <1>1, CountsDays, ClockConstants
<1>13. PICK t \in Int : t = Uncounted(time_systime)
  BY <1>1, CountsDays, ClockConstants
<1>14. PICK b \in Int : b = r - t - o
  BY ClockConstants
<1>15. Numbers(b, x, g, a, z, s) /\ Follows(b, x, g, a, z, s)
  BY <1>2, <1>3, <1>6, <1>9, <1>10, <1>11, <1>12, <1>13, <1>14,
     NumbersOfState DEF Owes, ClockInv
<1>16. a + 1 >= context_switch_rate => z # 0
  BY <1>3, <1>9
<1>17. o # 0 => MidnightShown /\ g <= a /\ z = 0
  <2>1. o # 0 => MidnightShown /\ g <= a
    BY <1>3, <1>6, <1>11 DEF Owes
  <2>2. 0 % Sync = 0
    BY ClockConstants
  <2>3. QED BY <2>1, <2>2, <1>9 DEF MidnightShown
<1>18. CASE time_systime' = time_systime /\ h = g + 1
  <2>1. Follows(b, x - 1, g + 1, c, z, s)
    BY <1>4, <1>2, <1>15, <1>16, TickKeepsFollowing
  <2>2. o # 0 => MidnightShown' /\ h <= c
    BY <1>3, <1>4, <1>6, <1>16, <1>17, <1>18, ShownIsLonger, ClockConstants DEF MidnightShown
  <2>3. Uncounted(rtc') - Uncounted(time_systime') - o = b
    BY <1>1, <1>12, <1>13, <1>14, <1>18
  <2>4. Owes(o)'
    BY <2>1, <2>2, <2>3, <1>2, <1>4, <1>7, <1>9, <1>10, <1>18 DEF Owes
  <2>5. QED BY <2>4
<1>19. CASE ShownOn(time_systime, time_systime') /\ g = TicksShown - 1 /\ h = 0
  <2>1. o = 0
    BY <1>3, <1>17, <1>19, ShownIsLonger, ClockConstants
  <2>2. PICK y \in 0 .. Sync - 1 : y = time_systime'.min % Sync
    BY ClockConstants DEF ClockRuns, IsTime
  <2>3. PICK u \in 0 .. Minute - 1 : u = time_systime'.sec
    BY DEF ClockRuns, IsTime
  <2>4. \/ s + 1 < Minute /\ u = s + 1 /\ y = z
        \/ s + 1 = Minute /\ u = 0 /\ y = (z + 1) % Sync
    <3>1. time_systime.min \in Nat
      BY <1>1, ClockConstants DEF IsTime
    <3>2. (time_systime.min + 1) % Sync = (z + 1) % Sync
      BY <3>1, <1>9, NextRest, ClockConstants
    <3>3. QED BY <3>2, <1>9, <1>10, <1>19, <2>2, <2>3 DEF ShownOn
  <2>5. Follows(b - 1, x - 1, 0, c, y, u)
    <3>1. /\ Numbers(b, x, TicksShown - 1, a, z, s)
          /\ Follows(b, x, TicksShown - 1, a, z, s)
      BY <1>15, <1>19
    <3>2. x > 0
      BY <1>2, ClockConstants
    <3>3. Follows(b - 1, x - 1, 0, IF a + 1 >= context_switch_rate THEN 0 ELSE a + 1, y, u)
      BY <3>1, <3>2, <1>16, <2>4, ShownKeepsFollowing
    <3>4. QED BY <3>3, <1>4
  <2>6. PICK L \in Nat \ {0} : L = DayLength
    BY ClockConstants
  <2>7. PICK D \in Int : D = DaysTo(time_systime)
    BY <1>1, CountsDays
  <2>8. PICK m \in Int : m = OfDay(time_systime')
    BY <1>19, CountsDays, ClockConstants DEF ShownOn
  <2>9. PICK n \in Int : n = OfDay(time_systime)
    BY <1>1, CountsDays, ClockConstants
  <2>10. PICK w \in Int : w = D * L
    OBVIOUS
  <2>11. Uncounted(time_systime') = w + m /\ t = w + n
    BY <1>1, <1>13, <1>19, <2>6, <2>7, <2>8, <2>9, <2>10, CountsDays DEF ShownOn
  <2>12. CASE m = n + 1
    <3>1. Uncounted(rtc') - Uncounted(time_systime') - 0 = b - 1
      BY <2>1, <2>11, <2>12, <1>1, <1>12, <1>14
    <3>2. Owes(0)'
      BY <3>1, <2>2, <2>3, <2>5, <1>2, <1>4, <1>7, <1>19 DEF Owes
    <3>3. QED BY <3>2
  <2>13. CASE m = 0 /\ n = L - 1 /\ MidnightShown'
    <3>1. Uncounted(rtc') - Uncounted(time_systime') - L = b - 1
      BY <2>1, <2>11, <2>13, <1>1, <1>12, <1>14
    <3>2. 0 <= c
      BY <1>4
    <3>3. Owes(L)'
      BY <3>1, <3>2, <2>2, <2>3, <2>5, <2>13, <1>2, <1>4, <1>7, <1>19 DEF Owes
    <3>4. QED BY <3>3, <2>6
  <2>14. QED BY <2>6, <2>8, <2>9, <2>12, <2>13, <1>19 DEF ShownOn, MidnightShown
<1>20. QED BY <1>8, <1>18, <1>19

\* A tick of the timer.
LEMMA HandlerKeeps == ClockInv /\ time_handler => ClockInv'
<1> SUFFICES ASSUME ClockInv, time_handler PROVE ClockInv'
  OBVIOUS
<1>1. IsTime(rtc) /\ IsTime(time_systime) /\ getdatetime(rtc) = rtc
  BY GetsTheTime DEF ClockInv, ClockRuns
<1>2. ASSUME NEW t, IsTime(t), time_incrementtime(t)
      PROVE  /\ IsTime(time_systime') /\ ms' \in 0 .. Parts - 1
             /\ adj' \in 0 .. context_switch_rate \div Parts
  BY <1>2, TickCounts DEF ClockInv, ClockRuns, ShownOn
<1>3. /\ IsTime(time_systime') /\ ms' \in 0 .. Parts - 1
      /\ adj' \in 0 .. context_switch_rate \div Parts
  <2>1. CASE time_incrementtime(time_systime)
    BY <2>1, <1>1, <1>2
  <2>2. CASE time_incrementtime(rtc)
    BY <2>2, <1>1, <1>2
  <2>3. QED BY <2>1, <2>2, <1>1 DEF time_handler
<1>a. ClockRuns
  BY DEF ClockInv
<1>b. /\ toSecond > 0 /\ toSecond' = toSecond - 1 /\ rtc' = rtc
      /\ aux_time2' = IF aux_time2 + 1 >= context_switch_rate THEN 0 ELSE aux_time2 + 1
  BY DEF time_handler
<1>c. passed' = passed /\ start' = start
  BY DEF time_handler
<1>4. toSecond' \in 0 .. context_switch_rate /\ aux_time2' \in 0 .. context_switch_rate - 1
  BY <1>a, <1>b, ClockConstants DEF ClockRuns
<1>5. ClockRuns'
  BY <1>3, <1>4, <1>a, <1>b, <1>c DEF ClockRuns
<1>6. \E o \in {0, DayLength} : Owes(o)'
  BY <1>5, SettingKeeps, CountingKeeps
<1>7. ReadSoFar'
  <2>1. "year" \in {Registers[i] : i \in DOMAIN Registers}
    BY DEF Registers
  <2>2. QED BY <2>1 DEF time_handler, ClockInv, ReadSoFar, Runs
<1>8. QED BY <1>5, <1>6, <1>7 DEF ClockInv

\* A process that reads the chip changes nothing of the clock.
LEMMA ReaderKeeps ==
  ClockInv /\ (AsksRegister \/ ReadsRegister \/ ReadingEnds) => ClockInv'
<1> SUFFICES ASSUME ClockInv, AsksRegister \/ ReadsRegister \/ ReadingEnds PROVE ClockInv'
  OBVIOUS
<1>1. UNCHANGED <<rtc, toSecond, shownVars, passed, start>>
  BY DEF AsksRegister, ReadsRegister, ReadingEnds
<1>2. ClockRuns'
  BY <1>1 DEF ClockInv, ClockRuns, shownVars
<1>3. \E o \in {0, DayLength} : Owes(o)'
  BY <1>1 DEF ClockInv, Owes, MidnightShown, shownVars
<1>4. CASE AsksRegister
  <2>1. asked' \in DOMAIN Registers
    BY <1>4 DEF AsksRegister, ClockInv, ReadSoFar, Registers
  <2>2. QED BY <2>1, <1>2, <1>3, <1>4 DEF AsksRegister, ClockInv, ReadSoFar, Registers
<1>5. CASE ReadsRegister
  <2>1. Register(rtc, selected) \in Nat
    BY RegisterIsNat DEF ClockInv, ClockRuns, ReadSoFar
  <2>2. PICK v \in Nat : v = Register(rtc, selected)
    BY <2>1
  <2>3. bytes \in Seq(Nat) /\ bytes' = Append(bytes, v) /\ asked' = asked /\ rtc' = rtc
        /\ selected' = selected /\ clockHarm = {} /\ asked \in 0 .. Len(Registers)
        /\ Len(bytes) + 1 = asked
    <3>1. ReadSoFar
      BY DEF ClockInv
    <3>2. /\ bytes' = Append(bytes, v) /\ asked' = asked /\ rtc' = rtc
          /\ selected' = selected /\ clockHarm = {} /\ asked > Len(bytes)
      BY <2>2, <1>5 DEF ReadsRegister, Runs
    <3>3. Len(bytes) \in Nat
      BY <3>1 DEF ReadSoFar
    <3>4. asked # Len(bytes)
      BY <3>2, <3>3
    <3>5. QED BY <3>1, <3>2, <3>4 DEF ReadSoFar
  <2>4. bytes' \in Seq(Nat) /\ Len(bytes') = asked
        /\ bytes'[asked] = v /\ \A i \in 1 .. Len(bytes) : bytes'[i] = bytes[i]
    BY <2>3
  <2>5. clockHarm' = {} => \A i \in 1 .. Len(bytes') : bytes'[i] = Register(rtc', Registers[i])
    <3>1. SUFFICES ASSUME clockHarm' = {}, NEW i \in 1 .. Len(bytes')
                   PROVE  bytes'[i] = Register(rtc', Registers[i])
      OBVIOUS
    <3>2. CASE i = asked
      <4>1. selected = Registers[asked]
        BY <3>1, <1>5 DEF ReadsRegister
      <4>2. QED BY <4>1, <3>2, <2>2, <2>3, <2>4
    <3>3. CASE i # asked
      <4>1. i \in 1 .. Len(bytes)
        BY <3>3, <2>3, <2>4
      <4>2. bytes[i] = Register(rtc, Registers[i])
        BY <4>1, <2>3 DEF ClockInv, ReadSoFar
      <4>3. QED BY <4>1, <4>2, <2>3, <2>4
    <3>4. QED BY <3>2, <3>3
  <2>6. ReadSoFar'
    BY <2>3, <2>4, <2>5 DEF ClockInv, ReadSoFar
  <2>7. QED BY <2>6, <1>2, <1>3 DEF ClockInv
<1>6. CASE ReadingEnds
  BY <1>2, <1>3, <1>6 DEF ReadingEnds, ClockInv, ReadSoFar, Registers
<1>7. QED BY <1>4, <1>5, <1>6

\* For any rate of the timer and lengths of the parts of a day, from any dates and for up
\* to a year: though time_incrementtime counts too few ticks and no days, and the chip
\* goes on while it is read, the clock shown is never more than a second ahead of the chip
\* nor more than MaxLag behind it, and an undisturbed getdatetime gets the chip's time.
THEOREM SoundClock == ClockSpec => []ClockIsSound
<1>1. ClockInv /\ [ClockNext]_clockVars => ClockInv'
  <2> SUFFICES ASSUME ClockInv, [ClockNext]_clockVars PROVE ClockInv'
    OBVIOUS
  <2>1. CASE UNCHANGED clockVars
    BY <2>1 DEF clockVars, shownVars, readerVars, ClockInv, ClockRuns, Owes, MidnightShown,
                ReadSoFar
  <2>2. CASE ClockStops
    BY <2>1, <2>2 DEF ClockStops
  <2>3. CASE ChipSecond
    BY <2>3, ChipSecondKeeps
  <2>4. CASE time_handler
    BY <2>4, HandlerKeeps
  <2>5. CASE AsksRegister \/ ReadsRegister \/ ReadingEnds
    BY <2>5, ReaderKeeps
  <2>6. QED BY <2>1, <2>2, <2>3, <2>4, <2>5 DEF ClockNext
<1>2. QED BY <1>1, ClockInvStarts, ClockInvIsSound, PTL DEF ClockSpec
=============================================================================
