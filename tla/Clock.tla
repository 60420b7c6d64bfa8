--------------------------------- MODULE Clock ---------------------------------
(***************************************************************************)
(* The clock (stdlib/time.c): the time the system shows, which the timer's *)
(* handler advances and now and then sets after the real-time clock, and   *)
(* getdatetime, which asks that chip for one register after another.  The  *)
(* handler does so with interrupts off, a process with interrupts on       *)
(* (dexapi/dex32API.c calls it that way), and the chip goes on meanwhile.  *)
(*                                                                         *)
(* A reading that is spoilt is recorded in clockHarm at the step that does *)
(* it, and the model stops there.  The lengths of a second, a minute, an   *)
(* hour and a day are parameters; the calendar is the real one, between    *)
(* 2000 and 2079.  The counters of ticks and of seconds since the startup, *)
(* and delay, which compares the former, are left out.                     *)
(***************************************************************************)
EXTENDS Integers, Sequences

CONSTANTS context_switch_rate,      \* ticks of the timer in a second
          Parts,                    \* 100: parts of a second that are counted
          Minute, Hour, Day,        \* 60 seconds, 60 minutes, 24 hours
          Sync,                     \* 10: the clock is set in minutes divided by this
          FirstDates,               \* dates on which the system is started
          LastSecond                \* bound of the model: how long it runs

\* The calendar.
Leap(y) == y % 4 = 0
MonthLength(y, m) ==
  IF m = 2 THEN IF Leap(y) THEN 29 ELSE 28 ELSE IF m \in {4, 6, 9, 11} THEN 30 ELSE 31
DayLength == Day * Hour * Minute

\* The system runs for a year at most, so that the chip's two digits are enough.
ASSUME ClockAssumption ==
  /\ {context_switch_rate, Parts, Minute, Hour, Day, Sync} \subseteq Nat \ {0}
  /\ Hour % Sync = 0 /\ LastSecond \in 0 .. 365 * DayLength
  /\ \A d \in FirstDates : /\ DOMAIN d = 1 .. 3 /\ d[1] \in 2000 .. 2078
                           /\ d[2] \in 1 .. 12 /\ d[3] \in 1 .. MonthLength(d[1], d[2])

------------------------------------------------------------------------------
\* The chip: registers in BCD, and a year of two digits.
Registers == <<"sec", "min", "hour", "day", "month", "year">>
DayAfter(t) ==
  IF t.day < MonthLength(t.year, t.month) THEN [t EXCEPT !.day = @ + 1]
  ELSE IF t.month < 12 THEN [t EXCEPT !.day = 1, !.month = @ + 1]
  ELSE [t EXCEPT !.day = 1, !.month = 1, !.year = @ + 1]
SecondAfter(t) ==
  IF t.sec + 1 < Minute THEN [t EXCEPT !.sec = @ + 1]
  ELSE IF t.min + 1 < Hour THEN [t EXCEPT !.sec = 0, !.min = @ + 1]
  ELSE IF t.hour + 1 < Day THEN [t EXCEPT !.sec = 0, !.min = 0, !.hour = @ + 1]
  ELSE DayAfter([t EXCEPT !.sec = 0, !.min = 0, !.hour = 0])
Bcd(n) == (n \div 10) * 16 + (n % 10)
Register(t, r) == Bcd(IF r = "year" THEN t.year % 100 ELSE t[r])

\* What getdatetime makes of the byte of a register.
bcdtobinary(b) == (b \div 16) * 10 + (b % 16)
Decoded(r, b) ==
  LET n == bcdtobinary(b) IN IF r = "year" /\ n < 80 THEN n + 2000 ELSE n
getdatetime(t) ==
  [f \in {Registers[i] : i \in DOMAIN Registers} |-> Decoded(f, Register(t, f))]

time_monthdays == <<0, 31, 59, 90, 120, 151, 181, 212, 243, 273, 304, 334, 365>>
time(t) ==
  LET totaldays ==
        (t.year - 1970) * 365
        + (IF t.year % 4 # 0 \/ t.month > 2 THEN t.year \div 4 ELSE t.year \div 4 - 1)
        + (IF t.month > 2 /\ t.year % 4 = 0 THEN 1 ELSE 0)
        + time_monthdays[t.month] + t.day
  IN ((totaldays * Day + t.hour) * Hour + t.min) * Minute + t.sec

\* time() counts a day too many from March of a leap year on, and takes it back at
\* the end of the year.
Uncounted(t) == time(t) - (IF Leap(t.year) /\ t.month > 2 THEN DayLength ELSE 0)

VARIABLES
  rtc,              \* the time of the chip
  toSecond,         \* ticks of the timer until its next second
  time_systime, ms, adj,
  aux_time2,        \* ticks since the last full second
  selected,         \* the register that the chip is asked for
  asked,            \* registers a process has asked for
  bytes,            \* and those it has got
  passed, start,    \* auxiliary: seconds of the chip; Uncounted at the start
  clockHarm         \* auxiliary

shownVars == <<time_systime, ms, adj, aux_time2>>
readerVars == <<selected, asked, bytes>>
clockVars == <<rtc, toSecond, shownVars, readerVars, passed, start, clockHarm>>

\* time_init, at any moment of a first day.
ClockInit ==
  /\ rtc \in {[sec |-> 0, min |-> m, hour |-> Day - 1, day |-> d[3], month |-> d[2],
               year |-> d[1]] : m \in 0 .. Hour - 1, d \in FirstDates}
  /\ toSecond \in 0 .. context_switch_rate - 1
  /\ time_systime = getdatetime(rtc) /\ ms = 0 /\ adj = 0 /\ aux_time2 = 0
  /\ selected = "year" /\ asked = 0 /\ bytes = <<>>
  /\ passed = 0 /\ start = Uncounted(rtc) /\ clockHarm = {}

------------------------------------------------------------------------------
Runs == clockHarm = {}

\* A second of the chip.  Who reads it meanwhile gets some of the old time and
\* some of the new.
ChipSecond ==
  /\ Runs /\ toSecond = 0 /\ passed < LastSecond
  /\ rtc' = SecondAfter(rtc) /\ toSecond' = context_switch_rate /\ passed' = passed + 1
  /\ clockHarm' = IF bytes # <<>> THEN {"torn date"} ELSE {}
  /\ UNCHANGED <<shownVars, readerVars, start>>

\* time_incrementtime: neither the day nor what follows it is counted on.
time_incrementtime(t) ==
  LET part == adj + 1 > context_switch_rate \div Parts
      second == part /\ ms + 1 >= Parts
      minute == second /\ t.sec + 1 >= Minute
      hour == minute /\ t.min + 1 >= Hour IN
  /\ adj' = IF part THEN 0 ELSE adj + 1
  /\ ms' = IF second THEN 0 ELSE IF part THEN ms + 1 ELSE ms
  /\ time_systime' =
       [t EXCEPT !.sec = IF minute THEN 0 ELSE IF second THEN @ + 1 ELSE @,
                 !.min = IF hour THEN 0 ELSE IF minute THEN @ + 1 ELSE @,
                 !.hour = IF hour THEN (@ + 1) % Day ELSE @]

\* Mutant: the clock is never set.
HandlerNeverSets ==
  /\ Runs /\ toSecond > 0
  /\ toSecond' = toSecond - 1
  /\ aux_time2' = (aux_time2 + 1) % context_switch_rate
  /\ time_incrementtime(time_systime)
  /\ UNCHANGED <<rtc, readerVars, passed, start, clockHarm>>

\* A tick.  The handler that sets the clock asks for the year last, whatever a
\* process has just asked for; when the chip's second falls into it the clock is
\* set to a time that never was.
time_handler ==
  LET full == aux_time2 + 1 >= context_switch_rate
      sets == full /\ time_systime.min % Sync = 0 IN
  /\ Runs /\ toSecond > 0
  /\ toSecond' = toSecond - 1
  /\ aux_time2' = IF full THEN 0 ELSE aux_time2 + 1
  /\ time_incrementtime(IF sets THEN getdatetime(rtc) ELSE time_systime)
  /\ selected' = IF sets THEN "year" ELSE selected
  /\ clockHarm' \in {{}} \cup (IF sets /\ toSecond = 1 THEN {{"torn time"}} ELSE {})
  /\ UNCHANGED <<rtc, asked, bytes, passed, start>>

\* getdatetime in a process: outportb(0x70,...) ...
AsksRegister ==
  /\ Runs /\ asked = Len(bytes) /\ asked < Len(Registers)
  /\ asked' = asked + 1 /\ selected' = Registers[asked']
  /\ UNCHANGED <<rtc, toSecond, shownVars, bytes, passed, start, clockHarm>>

\* ... and inportb(0x71), for which the handler may have asked something else.
ReadsRegister ==
  /\ Runs /\ asked > Len(bytes)
  /\ bytes' = Append(bytes, Register(rtc, selected))
  /\ clockHarm' = IF selected # Registers[asked] THEN {"wrong register"} ELSE {}
  /\ UNCHANGED <<rtc, toSecond, shownVars, selected, asked, passed, start>>

ReadingEnds ==
  /\ Runs /\ Len(bytes) = Len(Registers)
  /\ asked' = 0 /\ bytes' = <<>>
  /\ UNCHANGED <<rtc, toSecond, shownVars, selected, passed, start, clockHarm>>

\* Nothing more is modelled after a harm, or when the bound is reached.
ClockStops ==
  /\ clockHarm # {} \/ (passed = LastSecond /\ toSecond = 0 /\ asked = 0)
  /\ UNCHANGED clockVars

ClockNext ==
  ChipSecond \/ time_handler \/ AsksRegister \/ ReadsRegister \/ ReadingEnds \/ ClockStops

ClockSpec == ClockInit /\ [][ClockNext]_clockVars

------------------------------------------------------------------------------
\* How far the clock shown falls behind: between two settings it may count all the
\* minutes that are not divided by Sync, and each of its seconds has more ticks than
\* one of the chip's.  The ticks that are lost make whole seconds, rounded up, and
\* one more for where in a second of the chip the clock is set.
TicksShown == (context_switch_rate \div Parts + 1) * Parts
TicksLost == (TicksShown - context_switch_rate) * ((Sync - 1) * Minute)
MaxLag == (TicksLost + context_switch_rate - 1) \div context_switch_rate + 1

\* The first second shown after midnight still has the date of the day before.
MidnightShown ==
  time_systime.hour = 0 /\ time_systime.min = 0 /\ time_systime.sec = 0

\* Though the handler neither counts every tick nor the days, the clock shown never is
\* more than a second ahead of the chip and never more than MaxLag behind it, and what
\* time() makes of both grows by one each second, but for the leap day above; whoever
\* reads the chip undisturbed gets its time.
ClockIsSound ==
  clockHarm = {} =>
    /\ time_systime.sec < Minute /\ time_systime.min < Hour /\ time_systime.hour < Day
    /\ Uncounted(rtc) = start + passed
    /\ LET behind == Uncounted(rtc) - Uncounted(time_systime) IN
         \/ behind \in -1 .. MaxLag
         \/ MidnightShown /\ behind - DayLength \in -1 .. MaxLag
    /\ Len(bytes) = Len(Registers) =>
         \A i \in DOMAIN bytes : Decoded(Registers[i], bytes[i]) = rtc[Registers[i]]
==============================================================================
