----------------------------- MODULE FloppyDrive -----------------------------
(***************************************************************************)
(* One transfer after another on the floppy drive (hardware/floppy/        *)
(* floppy.c): the commands fdc_rw, seek and recalibrate send, the handler  *)
(* of IRQ6 that says one is finished, and the handler of the timer, which  *)
(* gives up waiting and turns the motor off.                               *)
(*                                                                         *)
(* The driver waits in waitfdc, for the interrupt or for its timeout.  The *)
(* controller may answer late, wrongly or never; an interrupt that comes   *)
(* after the driver gave up is taken for the answer to the next command,   *)
(* with the status bytes of an older one.  Between its waits the driver    *)
(* takes no time that counts here, and the 300 ms of motoron pass while    *)
(* the motor's countdown is off.                                           *)
(***************************************************************************)
EXTENDS Integers

CONSTANTS
  Tracks,           \* tracks of the disk; 0 and 1 are two of them
  WaitTicks,        \* waitfdc: tmout = 100*2
  MotorTicks        \* motoroff: mtick = 400

ASSUME DriveAssumption ==
  /\ Tracks \subseteq Nat /\ {0, 1} \subseteq Tracks
  /\ WaitTicks \in Nat \ {0} /\ MotorTicks \in Nat /\ MotorTicks >= 2 * WaitTicks

NoTrack == -1       \* what getbyte returns when there is nothing to read

VARIABLES
  motor, mtick, tmout, done,
  fdc_track,
  answers,          \* the interrupts to come: of the last command, of an older one
  at,               \* where the driver is
  path, track, tries,   \* in fdc_rw: a transfer or a change of disks
  result,           \* what fdc_rw returned
  worked,           \* auxiliary: did the last transfer of this call work?
  seeks,            \* auxiliary: how many seeks failed before it
  odd               \* auxiliary: what happened in this call that should not

motorVars == <<motor, mtick>>
waitVars == <<tmout, done, answers>>
callVars2 == <<path, track, tries, result, worked, seeks>>
driveVars == <<motorVars, waitVars, fdc_track, at, callVars2, odd>>

DriveInit ==
  /\ motor = FALSE /\ mtick = 0 /\ tmout = 0 /\ done = FALSE
  /\ fdc_track = 0 /\ answers = {}
  /\ at = "idle" /\ path = "transfer" /\ track = 0 /\ tries = 0
  /\ result = "none" /\ worked = FALSE /\ seeks = 0 /\ odd = {}

------------------------------------------------------------------------------
\* Mutant: the motor's countdown is left running.
motoronCounting ==
  /\ motor' = TRUE
  /\ UNCHANGED mtick

\* Nothing, when the motor is on: its countdown, if it runs, goes on.
motoron ==
  /\ motor' = TRUE
  /\ mtick' = IF motor THEN mtick ELSE -1

motoroff ==
  /\ mtick' = IF motor THEN MotorTicks ELSE mtick
  /\ UNCHANGED motor

\* A command is sent and waited for.
Sends(waiting) ==
  /\ at' = waiting
  /\ tmout' = WaitTicks
  /\ answers' = {"own"} \cup (IF answers = {} THEN {} ELSE {"old"})
  /\ UNCHANGED done

Waiting == at \in {"seek", "recalibrate", "rw"}

\* fdctimer.  It counts while the driver does nothing, or waits: that its time is
\* up the driver sees before the next tick.
fdctimer ==
  /\ at = "idle" \/ (Waiting /\ tmout > 0)
  /\ tmout > 0 \/ mtick > 0 \/ (mtick = 0 /\ motor)
  /\ tmout' = IF tmout > 0 THEN tmout - 1 ELSE 0
  /\ mtick' = IF mtick > 0 THEN mtick - 1 ELSE mtick
  /\ motor' = (motor /\ mtick # 0)
  /\ UNCHANGED <<done, answers, fdc_track, at, callVars2, odd>>

\* fdchandler
fdchandler ==
  /\ \E a \in answers : answers' = answers \ {a}
  /\ done' = TRUE
  /\ UNCHANGED <<motorVars, tmout, fdc_track, at, callVars2, odd>>

\* Mutant: waitfdc waits for the interrupt only.
WaitOverByInterrupt == done

\* while (!done && tmout);
WaitOver == done \/ tmout = 0

\* The end of waitfdc.  An answer is ours if nothing is left to come.
WaitEnds ==
  /\ Waiting /\ WaitOver
  /\ done' = FALSE
  /\ answers' = IF answers = {} THEN {} ELSE {"old"}
  /\ odd' = odd \cup (IF tmout = 0 THEN {"timeout"} ELSE {})
                \cup (IF tmout > 0 /\ answers # {} THEN {"wrong"} ELSE {})
  /\ UNCHANGED tmout
Answered == tmout > 0
Genuine == answers = {}

------------------------------------------------------------------------------
\* fdc_rw: the motor is turned on.
DriveBegins(t) ==
  /\ at = "idle" /\ at' = "check"
  /\ motoron
  /\ path' = "transfer" /\ track' = t /\ tries' = 0
  /\ result' = "none" /\ worked' = FALSE /\ seeks' = 0
  /\ odd' = IF motor /\ mtick >= 0 THEN {"counting"} ELSE {}
  /\ UNCHANGED <<waitVars, fdc_track>>

\* Another disk is in the drive: the head is moved to clear the line (and the
\* cache is invalidated, FloppyCache).
DiskChanged ==
  /\ at = "check" /\ at' = "move"
  /\ motoron
  /\ path' = "change" /\ track' = 1
  /\ UNCHANGED <<waitVars, fdc_track, tries, result, worked, seeks, odd>>

\* The loop that seeks starts its count, which is that of the transfers too.
SameDisk ==
  /\ at = "check" /\ at' = "move"
  /\ tries' = 0 /\ seeks' = 0
  /\ UNCHANGED <<motorVars, waitVars, fdc_track, path, track, result, worked, odd>>

\* seek returns at once when the head is there ...
AlreadyThere ==
  /\ at = "move" /\ fdc_track = track
  /\ at' = IF path = "change" THEN "clear" ELSE "send"
  /\ UNCHANGED <<motorVars, waitVars, fdc_track, callVars2, odd>>

\* ... and sends the command otherwise ...
SeekStarts ==
  /\ at = "move" /\ fdc_track # track
  /\ motoron /\ Sends("seek")
  /\ UNCHANGED <<fdc_track, callVars2, odd>>

\* ... and has succeeded if the controller says so, by its status byte and the
\* track.  A timeout leaves the motor as it is.
SeekEnds ==
  \E t \in Tracks \cup {NoTrack}, sr0 \in BOOLEAN :
    LET ok == Answered /\ sr0 /\ t = track IN
    /\ at = "seek" /\ WaitEnds
    /\ fdc_track' = t
    /\ IF Answered THEN motoroff ELSE UNCHANGED motorVars
    /\ at' = IF path = "change" THEN "clear"
             ELSE IF ok THEN "send" ELSE IF tries = 3 THEN "cannot" ELSE "move"
    /\ tries' = IF path = "change" \/ ok \/ tries = 3 THEN tries ELSE tries + 1
    /\ seeks' = IF ok \/ path = "change" THEN seeks ELSE seeks + 1
    /\ UNCHANGED <<path, track, result, worked>>

\* Four seeks have failed.
CannotSeek ==
  /\ at = "cannot" /\ at' = "idle"
  /\ motoroff
  /\ result' = "FALSE"
  /\ UNCHANGED <<waitVars, fdc_track, path, track, tries, worked, seeks, odd>>

Transfers ==
  /\ at = "send" /\ Sends("rw")
  /\ worked' = FALSE
  /\ UNCHANGED <<motorVars, fdc_track, path, track, tries, result, seeks, odd>>

\* The transfer takes too long: the call returns, with the motor as it is.
TransferTimesOut ==
  /\ at = "rw" /\ ~Answered /\ WaitEnds
  /\ at' = "idle" /\ result' = "FALSE"
  /\ UNCHANGED <<motorVars, fdc_track, path, track, tries, worked, seeks>>

\* Mutant: a transfer that went wrong is not told from one that worked.
Believed(ok) == TRUE

\* The status byte fdc_rw looks at: (status[0] & 0xc0) == 0.
Status(ok) == ok

\* The answer, which is the truth if it is the answer to this command.
TransferEnds(ok) ==
  /\ at = "rw" /\ Answered /\ WaitEnds
  /\ worked' = (Genuine /\ ok)
  /\ at' = IF Status(ok) THEN "leave" ELSE "again"
  /\ UNCHANGED <<motorVars, fdc_track, path, track, tries, result, seeks>>

\* recalibrate, after a failure ("oops, try again...") or a change of disks.
Recalibrate ==
  /\ at \in {"again", "clear"} /\ Sends("recalibrate")
  /\ motoron
  /\ UNCHANGED <<fdc_track, callVars2, odd>>

Recalibrated ==
  \E t \in Tracks \cup {NoTrack} :
    /\ at = "recalibrate" /\ WaitEnds /\ motoroff
    /\ fdc_track' = t
    /\ IF path = "change"
       THEN at' = "idle" /\ result' = "FALSE" /\ UNCHANGED tries
       ELSE /\ tries' = tries + 1
            /\ at' = IF tries' < 3 THEN "check" ELSE "leave"
            /\ UNCHANGED result
    /\ UNCHANGED <<path, track, worked, seeks>>

\* return (tries != 3)
TransferReturns ==
  /\ at = "leave" /\ at' = "idle"
  /\ motoroff
  /\ result' = IF tries # 3 THEN "TRUE" ELSE "FALSE"
  /\ UNCHANGED <<waitVars, fdc_track, path, track, tries, worked, seeks, odd>>

DriveStep ==
  \/ DiskChanged \/ SameDisk \/ AlreadyThere \/ SeekStarts \/ SeekEnds \/ CannotSeek
  \/ Transfers \/ TransferTimesOut \/ (\E ok \in BOOLEAN : TransferEnds(ok))
  \/ Recalibrate \/ Recalibrated \/ TransferReturns

DriveNext == (\E t \in Tracks : DriveBegins(t)) \/ DriveStep \/ fdctimer \/ fdchandler

\* The driver goes on and the timer ticks; the controller need not answer.
DriveFairness == WF_driveVars(DriveStep) /\ WF_driveVars(fdctimer)

DriveSpec == DriveInit /\ [][DriveNext]_driveVars /\ DriveFairness

------------------------------------------------------------------------------
DriveTypeOK ==
  /\ motor \in BOOLEAN /\ mtick \in -1 .. MotorTicks
  /\ tmout \in 0 .. WaitTicks /\ done \in BOOLEAN /\ answers \subseteq {"own", "old"}
  /\ fdc_track \in Tracks \cup {NoTrack}
  /\ at \in {"idle", "check", "move", "seek", "cannot", "send", "rw", "again", "clear",
             "recalibrate", "leave"}
  /\ path \in {"transfer", "change"} /\ track \in Tracks /\ tries \in 0 .. 4
  /\ result \in {"none", "TRUE", "FALSE"} /\ worked \in BOOLEAN /\ seeks \in 0 .. 4
  /\ odd \subseteq {"counting", "timeout", "wrong"}

\* fdc_rw says what happened to the sector.  (With three seeks that failed before
\* the one that did not, tries is 3 or 4 when it returns: then a transfer that
\* worked is reported as failed, and one that failed as done.)
ResultIsTrue ==
  odd \cap {"wrong"} = {} /\ seeks < 3 =>
    /\ result = "TRUE" => worked
    /\ at = "idle" /\ worked => result = "TRUE"

\* The motor turns while the driver waits for the drive, if no countdown of an
\* earlier call runs and nothing timed out.
MotorTurns == Waiting /\ odd \cap {"counting", "timeout"} = {} => motor

\* A motor that nobody needs is counted down, unless the call timed out.
MotorIsCountedDown == at = "idle" /\ motor => mtick >= 0 \/ "timeout" \in odd

\* As long as no interrupt is late and no seek is tried four times what fdc_rw
\* returns is true, and the motor runs when it is needed and is turned off when
\* it is not.
DriveIsSound == DriveTypeOK /\ ResultIsTrue /\ MotorTurns /\ MotorIsCountedDown

\* Whatever the controller does or fails to do, the driver comes back from every
\* wait, and to its caller unless the transfer is tried again: the loop of three
\* has no end when seeks succeed, as each resets its count (fdc_rw).
DriveComesBack == at # "idle" ~> at \in {"idle", "again"}
==============================================================================
